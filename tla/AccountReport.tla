---------------------------- MODULE AccountReport ----------------------------
(***************************************************************************)
(* POST /broker/reconcile-state and /broker/reconcile: collect the account *)
(* with three requests and push what they returned, as one snapshot, to    *)
(* the Database Agent.  The service never reads a snapshot back.           *)
(***************************************************************************)
EXTENDS BrokerAccount

CONSTANT Reports  \* requests to the routes

VARIABLES
  reporting, \* per request: the number of its next step
  snapshot   \* per request: the deals whose shares its positions show, and
             \* those whose entry order it shows open

report == <<reporting, snapshot>>

Snapshot == [positions : SUBSET Deals, entries : SUBSET Deals]
Empty == [positions |-> {}, entries |-> {}]

ReportOK ==
  /\ reporting \in [Reports -> {1, 2, 3}]
  /\ snapshot \in [Reports -> Snapshot]

ReportInit ==
  /\ reporting = [r \in Reports |-> 1]
  /\ snapshot = [r \in Reports |-> Empty]

CollectionOrder_Mutant == <<"entries", "positions">>
\* collect_broker_state: get_account (its figures are not modelled), then
\* get_positions, then get_open_orders.  (The operator named _Mutant is a plausible
\* wrong form of this one; no specification uses it.)
CollectionOrder == <<"positions", "entries">>

\* The answer to one of the requests.
Answered(part) ==
  IF part = "positions" THEN HeldDeals ELSE {d \in OpenDeals : deal[d].phase = "entry"}

Collect(r) ==
  /\ reporting[r] \in DOMAIN CollectionOrder
  /\ LET part == CollectionOrder[reporting[r]] IN
       snapshot' = [snapshot EXCEPT ![r][part] = Answered(part)]
  /\ reporting' = [reporting EXCEPT ![r] = @ + 1]
  /\ UNCHANGED account

\* push_broker_state_to_database: skipped, failed or stored; the snapshot leaves.
PushToDatabase(r) ==
  /\ reporting[r] \notin DOMAIN CollectionOrder
  /\ reporting' = [reporting EXCEPT ![r] = 1]
  /\ snapshot' = [snapshot EXCEPT ![r] = Empty]
  /\ UNCHANGED account

ReportNext == \E r \in Reports : Collect(r) \/ PushToDatabase(r)
=============================================================================
