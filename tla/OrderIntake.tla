----------------------------- MODULE OrderIntake -----------------------------
(***************************************************************************)
(* How a request becomes a persisted order with an execution job.          *)
(* ExecutionService.create_order serves POST /execute, /execute/batch and  *)
(* /execute/trade-plan; each of these routes then enqueues                 *)
(* the order it returns.  A trade id that is known already is a replay:    *)
(* the persisted order is returned and enqueued again.  Every action is    *)
(* one call to the Database Agent, and requests interleave between them.   *)
(***************************************************************************)
EXTENDS Naturals, FiniteSets

CONSTANTS
  Requests,      \* concurrent requests; each is served again and again
  Trades,        \* trade ids (or Idempotency-Key values)
  Approvals,     \* risk approvals
  Fits,          \* Fits[a]: the trades whose account, symbol, side and quantity a approves
  Buckets,       \* strategy buckets
  Unassigned,    \* the default bucket
  BucketLostBy,  \* the Database Agent calls that may store the default bucket instead
  MetadataLost,  \* does the answer to create_order come without the protection metadata?
  TradingMode,   \* settings.TRADING_MODE
  Faults,        \* the kinds of failures that may happen
  NoTrade        \* what an approval bought that is not used

\* "db_call": a call to the Database Agent raises, applied or not
\* "crash":   the process serving a request stops
FaultKinds == {"db_call", "crash"}

ASSUME IntakeAssumption ==
  /\ Fits \in [Approvals -> SUBSET Trades]
  /\ Unassigned \in Buckets
  /\ BucketLostBy \subseteq {"create", "update"}
  /\ MetadataLost \in BOOLEAN
  /\ TradingMode \in {"PAPER", "LIVE"}
  /\ Faults \subseteq FaultKinds
  /\ NoTrade \notin Trades

VARIABLES
  order,    \* the orders table, by trade id
  created,  \* what the request that created the order asked for
  approval, \* the risk_approvals table
  enqueued, \* the trades whose order has an execution job
  sent,     \* the trades whose order was submitted to the broker
  pc,       \* what each request does next
  wants     \* the trade, approval and bucket of each request

vars == <<order, created, approval, enqueued, sent, pc, wants>>

Intent == [trade : Trades, approval : Approvals, bucket : Buckets]
OrderRow == [status : {"absent", "pending", "failed", "placed"}, bucket : Buckets]
\* boughtOrder: RiskApproval.order_id, set when the approval is used.
ApprovalRow == [status : {"approved", "used"}, expired : BOOLEAN, boughtOrder : Trades \cup {NoTrade}]
NewApproval == [status |-> "approved", expired |-> FALSE, boughtOrder |-> NoTrade]

NoOrder == [status |-> "absent", bucket |-> Unassigned]

TypeOK ==
  /\ order \in [Trades -> OrderRow]
  /\ created \subseteq Intent
  /\ approval \in [Approvals -> ApprovalRow]
  /\ enqueued \subseteq {t \in Trades : order[t].status # "absent"}
  /\ sent \subseteq enqueued
  /\ pc \in [Requests -> {"idle", "lookup", "verify", "create", "reject", "metadata", "consume", "enqueue"}]
  /\ wants \in [Requests -> Intent]

Init ==
  /\ order = [t \in Trades |-> NoOrder]
  /\ created = {}
  /\ approval = [a \in Approvals |-> NewApproval]
  /\ enqueued = {}
  /\ sent = {}
  /\ pc = [r \in Requests |-> "idle"]
  /\ wants \in [Requests -> Intent]

----------------------------------------------------------------------------
(* Serving a request.  An operator whose name ends in _Mutant is a plausible *)
(* wrong form of the definition after it; no specification uses it.          *)

Goto(r, l) == pc' = [pc EXCEPT ![r] = l] /\ UNCHANGED wants

\* The request is answered, with an error or without.
Answer(r) == Goto(r, "idle")

Trade(r) == wants[r].trade

\* A request whose own fields pass _validate_execution_risk_gate.
Receive(r) ==
  /\ pc[r] = "idle"
  /\ pc' = [pc EXCEPT ![r] = "lookup"]
  /\ \E w \in Intent : wants' = [wants EXCEPT ![r] = w]
  /\ UNCHANGED <<order, created, approval, enqueued, sent>>

\* assert_strategy_bucket_persisted.
BucketPersisted(r) == order[Trade(r)].bucket = wants[r].bucket

LookUp_Mutant(r) ==
  /\ pc[r] = "lookup"
  /\ \/ BucketPersisted(r) /\ Goto(r, "enqueue")
     \/ ~BucketPersisted(r) /\ Goto(r, "verify")
  /\ UNCHANGED <<order, created, approval, enqueued, sent>>
\* get_order_by_trade_id: a replay goes on with the persisted order if it has the
\* bucket asked for, whatever its status and whatever approval is presented.
LookUp(r) ==
  LET known == order[Trade(r)].status # "absent" IN
  /\ pc[r] = "lookup"
  /\ \/ known /\ BucketPersisted(r) /\ Goto(r, "enqueue")
     \/ known /\ ~BucketPersisted(r) /\ Answer(r)
     \/ ~known /\ Goto(r, "verify")
     \/ "db_call" \in Faults /\ Answer(r)
  /\ UNCHANGED <<order, created, approval, enqueued, sent>>

\* _validate_risk_approval.
Authorises(a, t) ==
  /\ approval[a].status = "approved" /\ ~approval[a].expired
  /\ t \in Fits[a]

VerifyRiskApproval(r) ==
  /\ pc[r] = "verify"
  /\ \/ Authorises(wants[r].approval, Trade(r)) /\ Goto(r, "create")
     \/ ~Authorises(wants[r].approval, Trade(r)) /\ Answer(r)
     \/ "db_call" \in Faults /\ Answer(r)
  /\ UNCHANGED <<order, created, approval, enqueued, sent>>

\* The bucket a call stores.
Stored(call, bucket) == {bucket} \cup (IF call \in BucketLostBy THEN {Unassigned} ELSE {})

\* What create_order does with an answer of the Database Agent.
Checked_Mutant(r, bucket, next) == Goto(r, next)
Checked(r, bucket, next) == Goto(r, IF bucket = wants[r].bucket THEN next ELSE "reject")

IsNew_Mutant(t) == order[t].status \in {"absent", "pending"}
IsNew(t) == order[t].status = "absent"

\* create_order of the Database Agent refuses a trade id it knows.
CreateOrder(r) ==
  LET t == Trade(r) IN
  /\ pc[r] = "create"
  /\ \/ /\ IsNew(t)
        /\ \E bucket \in Stored("create", wants[r].bucket) :
             /\ order' = [order EXCEPT ![t] = [status |-> "pending", bucket |-> bucket]]
             /\ \/ Checked(r, bucket, IF MetadataLost THEN "metadata" ELSE "consume")
                \/ "db_call" \in Faults /\ Answer(r)
        /\ created' = created \cup {wants[r]}
     \/ /\ ~IsNew(t) \/ "db_call" \in Faults
        /\ Answer(r) /\ UNCHANGED <<order, created>>
  /\ UNCHANGED <<approval, enqueued, sent>>

\* _ensure_protection_metadata: the row is written again, and its bucket checked
\* again.  If the write fails LIVE gives up; PAPER goes on with the old answer.
EnsureProtectionMetadata(r) ==
  LET t == Trade(r) IN
  /\ pc[r] = "metadata"
  /\ \/ \E bucket \in Stored("update", order[t].bucket) :
          /\ order' = [order EXCEPT ![t].bucket = bucket]
          /\ \/ Checked(r, bucket, "consume")
             \/ "db_call" \in Faults /\ IF TradingMode = "LIVE" THEN Answer(r) ELSE Goto(r, "consume")
     \/ /\ "db_call" \in Faults /\ UNCHANGED order
        /\ IF TradingMode = "LIVE" THEN Answer(r) ELSE Goto(r, "consume")
  /\ UNCHANGED <<created, approval, enqueued, sent>>

\* _mark_strategy_bucket_mismatch_failed: a failed write is only logged.
MarkMismatchFailed(r) ==
  /\ pc[r] = "reject"
  /\ \/ order' = [order EXCEPT ![Trade(r)].status = "failed"]
     \/ UNCHANGED order /\ "db_call" \in Faults
  /\ Answer(r)
  /\ UNCHANGED <<created, approval, enqueued, sent>>

Consumable_Mutant(a) == ~approval[a].expired
\* mark_risk_approval_used looks at the status again, not at the expiry.
Consumable(a) == approval[a].status = "approved"

ConsumeApproval(r) ==
  LET a == wants[r].approval IN
  /\ pc[r] = "consume"
  /\ \/ /\ Consumable(a)
        /\ approval' = [approval EXCEPT ![a].status = "used", ![a].boughtOrder = Trade(r)]
        /\ Goto(r, "enqueue") \/ ("db_call" \in Faults /\ Answer(r))
     \/ /\ ~Consumable(a) \/ "db_call" \in Faults
        /\ Answer(r) /\ UNCHANGED approval
  /\ UNCHANGED <<order, created, enqueued, sent>>

\* enqueue_order_execution: one job per order.
Enqueue(r) ==
  /\ pc[r] = "enqueue"
  /\ \/ enqueued' = enqueued \cup {Trade(r)}
     \/ UNCHANGED enqueued /\ "db_call" \in Faults
  /\ Answer(r)
  /\ UNCHANGED <<order, created, approval, sent>>

Crash(r) ==
  /\ "crash" \in Faults /\ pc[r] # "idle"
  /\ Answer(r)
  /\ UNCHANGED <<order, created, approval, enqueued, sent>>

----------------------------------------------------------------------------
(* What happens meanwhile. *)

\* start_order_execution submits what it finds queued; a failed order is no
\* exception.  (OrderExecution is about how.)
Submit(t) ==
  /\ t \in enqueued \ sent
  /\ order[t].status \in {"pending", "failed"}
  /\ order' = [order EXCEPT ![t].status = "placed"]
  /\ sent' = sent \cup {t}
  /\ UNCHANGED <<created, approval, enqueued, pc, wants>>

Expire(a) ==
  /\ ~approval[a].expired
  /\ approval' = [approval EXCEPT ![a].expired = TRUE]
  /\ UNCHANGED <<order, created, enqueued, sent, pc, wants>>

Serve(r) ==
  \/ Receive(r)
  \/ LookUp(r)
  \/ VerifyRiskApproval(r)
  \/ CreateOrder(r)
  \/ EnsureProtectionMetadata(r)
  \/ MarkMismatchFailed(r)
  \/ ConsumeApproval(r)
  \/ Enqueue(r)
  \/ Crash(r)

Next ==
  \/ \E r \in Requests : Serve(r)
  \/ \E t \in Trades : Submit(t)
  \/ \E a \in Approvals : Expire(a)

Spec == Init /\ [][Next]_vars

----------------------------------------------------------------------------
(* Properties. *)

\* A used approval bought exactly one order: one that was created under it and that
\* it fits; and no order costs two approvals.  (verify_risk_approval reads the
\* approval long before mark_risk_approval_used, and requests for one trade race.)
ApprovalBuysOneOrder ==
  /\ \A a \in Approvals : approval[a].status = "used" =>
       \E c \in created : c.approval = a /\ c.trade = approval[a].boughtOrder /\ c.trade \in Fits[a]
  /\ \A a, b \in Approvals : approval[a].boughtOrder = approval[b].boughtOrder =>
       a = b \/ approval[a].boughtOrder = NoTrade

\* An order whose bucket was lost, at creation or with its metadata, does not consume
\* the approval ("marked failed and the Risk approval is not consumed").
MismatchKeepsApproval ==
  \A c \in created :
    order[c.trade].bucket # c.bucket => approval[c.approval].boughtOrder # c.trade

\* One approval lets one order be submitted ("rejects used risk approval replay").
OneSubmissionPerApproval ==
  \A c, d \in created :
    c.approval = d.approval /\ c.trade \in sent /\ d.trade \in sent => c.trade = d.trade

(* The promise kept: the order_id column of the approvals, read as a ledger. *)

OrderIds == [a \in Approvals |-> approval[a].boughtOrder]

Ledger == INSTANCE ApprovalLedger WITH bought <- OrderIds

\* An approval is spent once, on one trade that it fits and that cost no other
\* approval, and for good: verify_risk_approval may have let two requests pass that
\* present the same one, and mark_risk_approval_used decides between them.
KeepsLedger == Ledger!Spec

----------------------------------------------------------------------------
(* Strengthenings that are inductive, for the proofs. *)

\* Creating: the steps of the request that created the order of its trade.
Creating == {"reject", "metadata", "consume"}

OrdersExist ==
  \A r \in Requests : pc[r] \in Creating \cup {"enqueue"} => order[Trade(r)].status # "absent"

\* Why an approval buys one order: a creator asked for what its approval fits, no
\* approval was spent on its trade yet, and nobody else can spend one.
CreatorsAlone ==
  \A r \in Requests : pc[r] \in Creating =>
    /\ wants[r] \in created /\ Trade(r) \in Fits[wants[r].approval]
    /\ \A a \in Approvals : approval[a].boughtOrder # Trade(r)
    /\ \A q \in Requests \ {r} : pc[q] \in Creating => Trade(q) # Trade(r)

CreatedOnce ==
  \A c \in created :
    /\ order[c.trade].status # "absent"
    /\ \A d \in created : c.trade = d.trade => c = d

AuthorisedFits ==
  \A r \in Requests : pc[r] = "create" => Trade(r) \in Fits[wants[r].approval]

UnusedBuysNothing ==
  \A a \in Approvals : approval[a].status = "approved" => approval[a].boughtOrder = NoTrade

IntakeInv ==
  OrdersExist /\ CreatorsAlone /\ CreatedOnce /\ AuthorisedFits /\ UnusedBuysNothing /\ ApprovalBuysOneOrder

\* In LIVE a creator spends its approval only on an order that has its bucket.
BucketChecked ==
  /\ \A r \in Requests : pc[r] = "consume" => BucketPersisted(r)
  /\ MismatchKeepsApproval
=============================================================================
