------------------------ MODULE ProtectionReplacement ------------------------
(***************************************************************************)
(* Replacing the protective orders of one long position at the broker.     *)
(* Two routes do it after a manual approval, with the same adapter         *)
(* (HydratedAlpacaAdapter): /broker/protection-reconciliation/execute      *)
(* cancels every open order of the symbol and submits one OCO for the full *)
(* position; /broker/order-review/execute-approved-bracket-upgrade does so *)
(* with the first stop of a stop-only position.  Each reads the positions  *)
(* and the open orders with two requests, plans, and then works on the     *)
(* plan while the broker keeps filling and cancelling orders.              *)
(*                                                                         *)
(* The broker refuses a sell order for shares that are not held or that    *)
(* another open sell order reserves.  The two legs of an OCO reserve one   *)
(* quantity and close together.  An order fills as a whole.                *)
(***************************************************************************)
EXTENDS Integers, Sequences, Functions

CONSTANTS
  Reconcilers, \* requests to /broker/protection-reconciliation/execute
  Upgraders,   \* requests to /broker/order-review/execute-approved-bracket-upgrade
  Quantity,    \* the largest initial position, in shares
  Books,       \* the broker's initial open orders: a set of sequences of orders
  Faults       \* the kinds of failures that may happen

\* "cancel_slow": a cancellation outlasts the confirmation attempts
\* "cancel_lost": a cancel request fails, applied or not
\* "submit_lost": a submission fails, applied or not
\* "refused":     the broker refuses a submission for a reason of its own
\* "crash":       the process stops
FaultKinds == {"cancel_slow", "cancel_lost", "submit_lost", "refused", "crash"}

Procs == Reconcilers \cup Upgraders

\* A "buy" is an entry order that has not filled, a "limit" a take-profit sell.
\* Orders with the same oco number are the legs of one OCO.
OrderRecord == [type : {"stop", "limit", "buy"}, qty : Nat \ {0}, oco : Nat \ {0},
                status : {"open", "pending_cancel", "canceled", "filled"}]

\* An OCO has two legs, a stop and a limit of one quantity, and carries the number
\* of one of them; an entry order stands alone.
Paired(b) ==
  /\ \A i \in DOMAIN b : b[i].oco \in DOMAIN b
  /\ \A i, k \in DOMAIN b : i # k /\ b[i].oco = b[k].oco =>
       b[i].qty = b[k].qty /\ {b[i].type, b[k].type} = {"stop", "limit"}

ASSUME ReplacementAssumption ==
  /\ Reconcilers \cap Upgraders = {}
  /\ Quantity \in Nat
  /\ Books \subseteq Seq(OrderRecord)
  /\ \A b \in Books : Paired(b)
  /\ Faults \subseteq FaultKinds

VARIABLES
  held,      \* shares of the position
  book,      \* all orders of the symbol; an order's id is its index
  pc,        \* what each request does next
  qty,       \* position_qty of its plan (or of its verification)
  todo,      \* ids of the plan that are not yet cancelled
  waiting,   \* the id whose cancellation it waits for (0: none)
  cancelled, \* cancelled_ids
  exposed,   \* unprotected_stop_qty of the row it planned from
  report     \* the answer for the symbol

vars == <<held, book, pc, qty, todo, waiting, cancelled, exposed, report>>
broker == <<held, book>>
plan == <<qty, todo, waiting, cancelled, exposed>>

ReportStatus == {"none", "blocked", "blocked_cancel_failed", "stop_restore_attempted", "submitted",
                 "executed_and_verified", "submitted_verification_pending_or_failed"}

PcLabel == {"idle", "orders", "cancel", "confirm", "submit", "restore",
            "verify", "verify_orders", "done", "crashed"}

TypeOK ==
  /\ held \in Nat
  /\ book \in Seq(OrderRecord)
  /\ pc \in [Procs -> PcLabel]
  /\ qty \in [Procs -> Nat]
  /\ \A p \in Procs : pc[p] \in {"cancel", "confirm", "submit", "restore"} => qty[p] > 0
  /\ todo \in [Procs -> SUBSET DOMAIN book]
  /\ \A p \in Procs : pc[p] = "cancel" => todo[p] # {}
  /\ waiting \in [Procs -> Nat]
  /\ \A p \in Procs : pc[p] = "confirm" => waiting[p] \in todo[p]
  /\ cancelled \in [Procs -> SUBSET DOMAIN book]
  /\ exposed \in [Procs -> Nat]
  /\ report \in [Procs -> [status : ReportStatus, gap : BOOLEAN]]

----------------------------------------------------------------------------
(* The broker.  An operator whose name ends in _Mutant is a plausible wrong *)
(* form of the definition after it; no specification uses it.               *)

Active(i) == book[i].status \in {"open", "pending_cancel"}
Working(type) == {i \in DOMAIN book : Active(i) /\ book[i].type = type}
Quantities == [i \in DOMAIN book |-> book[i].qty]
\* _covered_quantity: the ordered quantities of a kind of orders.
CoveredQuantity(type) == SumFunctionOnSet(Quantities, Working(type))

Sells == Working("stop") \cup Working("limit")
\* Each OCO (or order of its own) reserves its quantity once: the first leg counts.
Reserving == {i \in Sells : \A k \in Sells : book[k].oco = book[i].oco => i <= k}
Reserved == SumFunctionOnSet(Quantities, Reserving)

Init ==
  /\ held \in 0 .. Quantity
  /\ book \in {b \in Books : \A i \in DOMAIN b : b[i].status = "open"}
  /\ Reserved <= held
  /\ pc = [p \in Procs |-> "idle"]
  /\ qty = [p \in Procs |-> 0]
  /\ todo = [p \in Procs |-> {}]
  /\ waiting = [p \in Procs |-> 0]
  /\ cancelled = [p \in Procs |-> {}]
  /\ exposed = [p \in Procs |-> 0]
  /\ report = [p \in Procs |-> [status |-> "none", gap |-> FALSE]]

\* Every order of OCO o that is still working moves to status s.
Closing(o, s) ==
  [i \in DOMAIN book |-> IF book[i].oco = o /\ Active(i) THEN [book[i] EXCEPT !.status = s] ELSE book[i]]

\* An order may fill while its cancellation is pending; the other leg closes.
BrokerFills(i) ==
  /\ i \in DOMAIN book /\ Active(i)
  /\ held' = IF book[i].type = "buy" THEN held + book[i].qty ELSE held - book[i].qty
  /\ book' = [Closing(book[i].oco, "canceled") EXCEPT ![i].status = "filled"]
  /\ UNCHANGED <<pc, plan, report>>

BrokerCancels(i) ==
  /\ i \in DOMAIN book /\ book[i].status = "pending_cancel"
  /\ book' = Closing(book[i].oco, "canceled")
  /\ UNCHANGED <<held, pc, plan, report>>

NewOrder(type, n, o) == [type |-> type, qty |-> n, oco |-> o, status |-> "open"]
Oco(n) == <<NewOrder("limit", n, Len(book) + 1), NewOrder("stop", n, Len(book) + 1)>>
Stop(n) == <<NewOrder("stop", n, Len(book) + 1)>>

\* _post_order_payload for orders of n shares: the broker takes them (and the
\* book holds them) or not, and the adapter answers whether it did; a failed
\* request is a failed submission whatever became of it.
Submission(orders, n, answers) ==
  \/ /\ n + Reserved <= held
     /\ book' = book \o orders
     /\ answers \/ "submit_lost" \in Faults
  \/ /\ n + Reserved > held \/ "refused" \in Faults \/ "submit_lost" \in Faults
     /\ ~answers
     /\ UNCHANGED book

----------------------------------------------------------------------------
(* Planning: two reads, then a plan from what they returned. *)

\* unprotected_stop_qty of a position of n shares.
Uncovered(n) == IF CoveredQuantity("stop") >= n THEN 0 ELSE n - CoveredQuantity("stop")

FullyCovered_Mutant(type, n) == Working(type) # {}
FullyCovered(type, n) == n > 0 /\ CoveredQuantity(type) >= n

\* build_protection_diagnostics for a position of n shares.
ProtectionStatus(n) ==
  CASE FullyCovered("stop", n) /\ FullyCovered("limit", n) -> "bracket_protected"
    [] FullyCovered("stop", n) /\ Working("limit") = {} -> "stop_only"
    [] Sells = {} -> "unprotected"
    [] OTHER -> "partially_protected"

ReadPositions(p) ==
  /\ pc[p] = "idle"
  /\ pc' = [pc EXCEPT ![p] = "orders"]
  /\ qty' = [qty EXCEPT ![p] = held]
  /\ UNCHANGED <<broker, todo, waiting, cancelled, exposed, report>>

Finish(p, s, gap) ==
  /\ pc' = [pc EXCEPT ![p] = "done"]
  /\ report' = [report EXCEPT ![p] = [status |-> s, gap |-> gap]]

Plannable_Mutant(p) ==
  ProtectionStatus(qty[p]) \in
    IF p \in Upgraders THEN {"stop_only"} ELSE {"partially_protected", "unprotected", "stop_only"}
\* A position in a status the route works on, with shares to protect.
Plannable(p) ==
  /\ qty[p] > 0
  /\ ProtectionStatus(qty[p]) \in
       IF p \in Upgraders THEN {"stop_only"} ELSE {"partially_protected", "unprotected", "stop_only"}

\* What a plan cancels: the first stop of the row (the broker's list has no
\* fixed order), or every open order of the symbol.
Planned(p) ==
  IF p \in Upgraders THEN {{i} : i \in Working("stop")}
  ELSE {Sells \cup Working("buy")}

\* get_open_orders, the plan, and the approval: the request names the ticket of
\* this very plan, or everything is blocked before the broker is called.
ReadOpenOrders(p) ==
  /\ pc[p] = "orders"
  /\ \/ /\ Plannable(p)
        /\ \E ids \in Planned(p) :
             /\ todo' = [todo EXCEPT ![p] = ids]
             /\ pc' = [pc EXCEPT ![p] = IF ids = {} THEN "submit" ELSE "cancel"]
        /\ exposed' = [exposed EXCEPT ![p] = Uncovered(qty[p])]
        /\ UNCHANGED report
     \/ Finish(p, "blocked", FALSE) /\ UNCHANGED <<todo, exposed>>
  /\ UNCHANGED <<broker, qty, waiting, cancelled>>

----------------------------------------------------------------------------
(* Cancelling what the plan names, one order after the other. *)

CancelFailureGap_Mutant(p) == FALSE
\* critical_protection_gap after a failed cancellation.
CancelFailureGap(p) == cancelled[p] # {}

CancelFailed(p) ==
  /\ Finish(p, "blocked_cancel_failed", CancelFailureGap(p))
  /\ UNCHANGED plan

\* DELETE of an open order starts its cancellation.  Of any other it is refused with
\* code 42210000, be the order being cancelled, canceled or filled by now.
Requested(i) ==
  IF book[i].status = "open" THEN Closing(book[i].oco, "pending_cancel") ELSE book

\* cancel_order takes that code for a cancellation that is pending (CANCEL_PENDING_MARKERS),
\* so both answers start the confirmation; any other answer fails at once.
CancelOrder(p) ==
  /\ pc[p] = "cancel"
  /\ \E i \in todo[p] :
       \/ /\ book' = Requested(i)
          /\ pc' = [pc EXCEPT ![p] = "confirm"]
          /\ waiting' = [waiting EXCEPT ![p] = i]
          /\ UNCHANGED <<qty, todo, cancelled, exposed, report>>
       \/ /\ "cancel_lost" \in Faults
          /\ CancelFailed(p)
          /\ UNCHANGED book \/ book' = Requested(i)
  /\ UNCHANGED held

Confirmed_Mutant(i) == book[i].status \in {"pending_cancel", "canceled"}
\* CANCEL_CONFIRMED_STATUSES
Confirmed(i) == book[i].status = "canceled"

\* The poll that finds the order canceled.
CancelConfirmed(p) ==
  /\ pc[p] = "confirm" /\ Confirmed(waiting[p])
  /\ cancelled' = [cancelled EXCEPT ![p] = @ \cup {waiting[p]}]
  /\ todo' = [todo EXCEPT ![p] = @ \ {waiting[p]}]
  /\ pc' = [pc EXCEPT ![p] = IF todo[p] = {waiting[p]} THEN "submit" ELSE "cancel"]
  /\ UNCHANGED <<broker, qty, waiting, exposed, report>>

\* CANCEL_CONFIRMATION_ATTEMPTS polls found it otherwise: it filled, or it is slow.
CancelTimesOut(p) ==
  /\ pc[p] = "confirm" /\ ~Confirmed(waiting[p])
  /\ book[waiting[p]].status = "filled" \/ "cancel_slow" \in Faults
  /\ CancelFailed(p)
  /\ UNCHANGED broker

----------------------------------------------------------------------------
(* Submitting the replacement, or putting a stop back. *)

SubmitExitBracket(p) ==
  /\ pc[p] = "submit"
  /\ \E succeeded \in BOOLEAN :
       /\ Submission(Oco(qty[p]), qty[p], succeeded)
       /\ IF ~succeeded
          THEN pc' = [pc EXCEPT ![p] = "restore"] /\ UNCHANGED report
          ELSE IF p \in Upgraders
          THEN Finish(p, "submitted", FALSE)
          ELSE pc' = [pc EXCEPT ![p] = "verify"] /\ UNCHANGED report
  /\ UNCHANGED <<held, plan>>

\* rollback_succeeded, negated: critical_protection_gap of the reconciliation.
RollbackGap(succeeded) == ~succeeded

\* submit_protective_stop_order puts one stop for the whole position back.
RestoreStop(p) ==
  /\ pc[p] = "restore"
  /\ \E succeeded \in BOOLEAN :
       /\ Submission(Stop(qty[p]), qty[p], succeeded)
       /\ Finish(p, "stop_restore_attempted", RollbackGap(succeeded))
  /\ UNCHANGED <<held, plan>>

\* _verify_symbol, again two reads.
VerifyPositions(p) ==
  /\ pc[p] = "verify"
  /\ pc' = [pc EXCEPT ![p] = "verify_orders"]
  /\ qty' = [qty EXCEPT ![p] = held]
  /\ UNCHANGED <<broker, todo, waiting, cancelled, exposed, report>>

VerifyOpenOrders(p) ==
  /\ pc[p] = "verify_orders"
  /\ Finish(p, IF ProtectionStatus(qty[p]) = "bracket_protected" THEN "executed_and_verified"
               ELSE "submitted_verification_pending_or_failed", FALSE)
  /\ UNCHANGED <<broker, plan>>

Crash(p) ==
  /\ "crash" \in Faults
  /\ pc[p] \notin {"done", "crashed"}
  /\ pc' = [pc EXCEPT ![p] = "crashed"]
  /\ UNCHANGED <<broker, plan, report>>

Request(p) ==
  \/ ReadPositions(p) \/ ReadOpenOrders(p)
  \/ CancelOrder(p) \/ CancelConfirmed(p) \/ CancelTimesOut(p)
  \/ SubmitExitBracket(p) \/ RestoreStop(p)
  \/ VerifyPositions(p) \/ VerifyOpenOrders(p)
  \/ Crash(p)

Next ==
  \/ \E p \in Procs : Request(p)
  \/ \E i \in DOMAIN book : BrokerFills(i) \/ BrokerCancels(i)

Spec == Init /\ [][Next]_vars

----------------------------------------------------------------------------
(* Properties. *)

\* Shares of entry orders that filled.
FilledBuys == {i \in DOMAIN book : book[i].type = "buy" /\ book[i].status = "filled"}
Bought == SumFunctionOnSet(Quantities, FilledBuys)

\* While a request submits its replacement, each order it has cancelled is
\* canceled at the broker: nothing of the old protection can fill beside the new
\* one, or reserves its shares (HydratedAlpacaAdapter.cancel_order waits).
ReplacedAfterCancelled ==
  \A p \in Procs : pc[p] \in {"submit", "restore", "verify", "verify_orders"} =>
    \A i \in cancelled[p] : ~Active(i) /\ book[i].status # "filled"

\* No other request works, or worked, on the symbol.
Alone(p) == \A q \in Procs \ {p} : pc[q] = "idle"

\* An order that was cancelled, not one that was closed by the fill of the other leg.
Withdrawn(i) ==
  /\ book[i].status = "canceled"
  /\ \A k \in DOMAIN book : book[k].oco = book[i].oco => book[k].status # "filled"

\* It answered while a cancellation it may have asked for was under way or had happened
\* unseen.
GaveUpOnCancel(p) ==
  report[p].status = "blocked_cancel_failed" /\ \E i \in todo[p] : book[i].status = "pending_cancel" \/ Withdrawn(i)

\* A request that planned and answers without a critical protection gap (for the upgrade:
\* without a failed rollback) leaves no more shares without a stop than it found,
\* beside those bought, unless it gave up on a cancellation that may still happen.
GapIsReported ==
  \A p \in Procs :
    pc[p] = "done" /\ report[p].status # "blocked" /\ ~report[p].gap /\ Alone(p) /\ ~GaveUpOnCancel(p) =>
      Uncovered(held) <= exposed[p] + Bought

\* An answer "executed_and_verified" means that the whole position has a stop
\* and a take profit, whatever filled while the request worked.
VerifiedIsProtected ==
  \A p \in Procs : report[p].status = "executed_and_verified" /\ Alone(p) =>
    CoveredQuantity("stop") >= held /\ CoveredQuantity("limit") >= held

----------------------------------------------------------------------------
(* Strengthenings that are inductive, for the proofs. *)

\* Canceled is final, and a request counts an order as cancelled only when it saw that.
CancelledForGood ==
  \A p \in Procs : \A i \in cancelled[p] : book[i].status = "canceled"

\* The broker's books: what is reserved is held, and the legs of an OCO work together.
LegsTogether ==
  \A i, k \in DOMAIN book : book[i].oco = book[k].oco /\ Active(i) => book[k].status = book[i].status

BookInv == TypeOK /\ Paired(book) /\ LegsTogether /\ Reserved <= held

\* Where the routes go: an upgrade does not verify, and only a plan leaves something
\* to cancel, until it is cancelled.
Submitted(p) ==
  report[p].status \in {"stop_restore_attempted", "submitted", "executed_and_verified",
                        "submitted_verification_pending_or_failed"}

RouteInv ==
  /\ \A p \in Procs : pc[p] \in {"verify", "verify_orders"} \/ report[p].status = "executed_and_verified"
                      => p \in Reconcilers
  /\ \A p \in Procs : pc[p] \in {"idle", "orders", "submit", "restore", "verify", "verify_orders"} \/ Submitted(p)
                      => todo[p] = {}
  /\ \A p \in Procs : report[p].status # "none" <=> pc[p] = "done"
  /\ \A p \in Procs : report[p].status = "blocked_cancel_failed" /\ ~report[p].gap => cancelled[p] = {}

\* Nobody buys while a reconciliation submits: it has cancelled every entry order.
NoneBuying ==
  \A p \in Reconcilers :
    /\ pc[p] \in {"cancel", "confirm"} => Working("buy") \subseteq todo[p]
    /\ pc[p] \in {"submit", "restore", "verify", "verify_orders"} \/ report[p].status = "executed_and_verified"
         => Working("buy") = {}

\* Without another request every pending cancellation is one of its plan.
PendingIsPlanned ==
  \A p \in Procs : Alone(p) =>
    \A k \in DOMAIN book : book[k].status = "pending_cancel" =>
      \E i \in todo[p] : book[i].oco = book[k].oco

\* So a fill is all that changes the protection after the submission.
VerifiedInv ==
  /\ RouteInv /\ NoneBuying /\ PendingIsPlanned
  /\ \A p \in Reconcilers : pc[p] = "verify_orders" => held <= qty[p]
  /\ VerifiedIsProtected

\* The shares without a stop, beside those bought, against those that had none.
CoverKept(p) == held - CoveredQuantity("stop") <= exposed[p] + Bought

UntouchedPlan(p) == cancelled[p] = {} /\ \A i \in todo[p] : ~Withdrawn(i)

GapInv ==
  /\ \A p \in Procs : pc[p] \in {"orders", "cancel", "confirm", "submit", "restore"} =>
       held <= qty[p] + Bought
  /\ \A p \in Procs : Alone(p) =>
       /\ /\ pc[p] \in {"cancel", "confirm"} \/ report[p].status = "blocked_cancel_failed"
          /\ UntouchedPlan(p)
          => CoverKept(p)
       /\ pc[p] \in {"verify", "verify_orders"} \/ (Submitted(p) /\ ~report[p].gap) => CoverKept(p)
=============================================================================
