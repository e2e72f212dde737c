---------------------------- MODULE BrokerCleanup ----------------------------
(***************************************************************************)
(* POST /broker/cleanup/stale-open-orders: read the positions, read the    *)
(* open orders, classify each order by its age and role, and cancel the    *)
(* targets one after the other.  Entries may fill, exits may fill and      *)
(* orders may end between any two of these requests.                       *)
(***************************************************************************)
EXTENDS BrokerAccount

CONSTANTS
  Cleanups,  \* requests to the route, with dry_run false
  MaxAges    \* the limits in minutes they may name; nothing ties them to the preflight's

ASSUME CleanupAssumption == MaxAges \subseteq Int

VARIABLES
  cleaning,    \* per request: what it does next
  maxAge,      \* max_age_minutes and
  thorough,    \* include_protective, from where they first matter
  sawHeld,     \* the symbols of the positions it read
  targets      \* the open orders it still has to cancel: a deal and its phase

cleanup == <<cleaning, maxAge, thorough, sawHeld, targets>>

OpenOrder == Deals \X OpenPhase

CleanupOK ==
  /\ cleaning \in [Cleanups -> {"idle", "open_orders", "cancel"}]
  /\ maxAge \in [Cleanups -> MaxAges \cup {0}]
  /\ thorough \in [Cleanups -> BOOLEAN]
  /\ sawHeld \in [Cleanups -> SUBSET Symbols]
  /\ targets \in [Cleanups -> SUBSET OpenOrder]
  /\ \A c \in Cleanups : cleaning[c] = "cancel" <=> targets[c] # {}

CleanupInit ==
  /\ cleaning = [c \in Cleanups |-> "idle"]
  /\ maxAge = [c \in Cleanups |-> 0]
  /\ thorough = [c \in Cleanups |-> FALSE]
  /\ sawHeld = [c \in Cleanups |-> {}]
  /\ targets = [c \in Cleanups |-> {}]

ReadPositions(c) ==
  /\ cleaning[c] = "idle"
  /\ cleaning' = [cleaning EXCEPT ![c] = "open_orders"]
  /\ sawHeld' = [sawHeld EXCEPT ![c] = {SymbolOf[d] : d \in HeldDeals}]
  /\ UNCHANGED <<account, maxAge, thorough, targets>>

----------------------------------------------------------------------------
(* classify_open_orders, for an account that holds the symbols held.  An    *)
(* operator whose name ends in _Mutant is a plausible wrong form of the     *)
(* definition after it; no specification uses it.                           *)

ProtectiveExit_Mutant(d, held) == deal[d].phase = "exits" /\ SymbolOf[d] \in held
\* is_protective_exit_order: a sell stop of a symbol that is held.  What is open
\* of a bracket's exits is listed as its take profit, a limit order.
ProtectiveExit(d, held) == deal[d].phase = "stop" /\ SymbolOf[d] \in held

\* is_stale_order, with the limit that the request names.
StaleOrder(d, held, limit) == ~ProtectiveExit(d, held) /\ OlderThan(d, limit)

Targeted(d, held, limit, include) ==
  StaleOrder(d, held, limit) \/ (include /\ ProtectiveExit(d, held))

----------------------------------------------------------------------------
FinishWith_Mutant(c, remaining, limit, include) ==
  /\ targets' = [targets EXCEPT ![c] = remaining]
  /\ cleaning' = [cleaning EXCEPT ![c] = "cancel"]
  /\ maxAge' = [maxAge EXCEPT ![c] = limit]
  /\ thorough' = [thorough EXCEPT ![c] = include]
  /\ sawHeld' = [sawHeld EXCEPT ![c] = {}]
\* The loop over the targets goes on, or the route answers.
FinishWith(c, remaining, limit, include) ==
  /\ targets' = [targets EXCEPT ![c] = remaining]
  /\ cleaning' = [cleaning EXCEPT ![c] = IF remaining = {} THEN "idle" ELSE "cancel"]
  /\ maxAge' = [maxAge EXCEPT ![c] = IF remaining = {} THEN 0 ELSE limit]
  /\ thorough' = [thorough EXCEPT ![c] = include /\ remaining # {}]
  /\ sawHeld' = [sawHeld EXCEPT ![c] = {}]

\* The open orders that a request with these parameters is to cancel.
Listed(held, limit, include) ==
  {<<d, deal[d].phase>> : d \in {x \in OpenDeals : Targeted(x, held, limit, include)}}

ClassifyOpenOrders(c) ==
  /\ cleaning[c] = "open_orders"
  /\ \E limit \in MaxAges, include \in BOOLEAN :
       FinishWith(c, Listed(sawHeld[c], limit, include), limit, include)
  /\ UNCHANGED account

CancelsListed_Mutant(target) == deal[target[1]].phase \in OpenPhase /\ ~deal[target[1]].cancelling
\* The order id of the list: what the deal has open by now may be another order.
CancelsListed(target) == Cancellable(target[1], target[2])

\* cancel_open_order; a refused or lost request is counted as failed and the next
\* target follows.
CancelTarget(c) ==
  /\ cleaning[c] = "cancel"
  /\ \E target \in targets[c] :
       /\ FinishWith(c, targets[c] \ {target}, maxAge[c], thorough[c])
       /\ \/ CancelsListed(target) /\ Cancel(target[1])
          \/ UNCHANGED account

CleanupNext == \E c \in Cleanups : ReadPositions(c) \/ ClassifyOpenOrders(c) \/ CancelTarget(c)
=============================================================================
