-------------------------- MODULE FillReconciliation --------------------------
(***************************************************************************)
(* How the fills of submitted orders reach the Database Agent.  The row of *)
(* an order holds its status and a checkpoint: the executed quantity and   *)
(* the average price last reported.  ExecutionService._handle_broker_      *)
(* updates compares a broker answer with the checkpoint it reads, writes   *)
(* the answer over the row and then records the difference as a fill.  The *)
(* adapter's callback, the reconciliation sweeps and GET /execute/{id} all *)
(* run it, each with an answer obtained before that read; nothing orders   *)
(* them.  POST /execute/{id}/cancel writes CANCELLED beside them.          *)
(*                                                                         *)
(* The shares of an order are numbered in the order the broker fills them, *)
(* so a fill is the interval of shares between two executed quantities.    *)
(***************************************************************************)
EXTENDS Naturals, FiniteSets, FiniteSetsExt

CONSTANTS
  Orders,      \* order ids
  Quantity,    \* shares of each order
  Sweepers,    \* the reconciliation worker loop and POST /reconciliation/run-once
  Readers,     \* GET /execute/{order_id}
  Submitters,  \* executions of an order, from the broker's answer on
  Cancellers,  \* POST /execute/{order_id}/cancel
  Limit,       \* the limit of list_in_flight_orders
  TradingMode, \* settings.TRADING_MODE
  Faults       \* the kinds of failures that may happen

\* "db_call":     a call to the Database Agent raises, applied or not
\* "broker_call": the broker answers with an error, or not at all
\* "no_average":  an answer about filled shares has no usable average price
\* "crash":       a process stops
FaultKinds == {"db_call", "broker_call", "no_average", "crash"}

Procs == Sweepers \cup Readers \cup Submitters \cup Cancellers

ASSUME ReconciliationAssumption ==
  /\ Orders \subseteq Nat
  /\ Quantity \in Nat \ {0}
  /\ Limit \in Nat
  /\ TradingMode \in {"PAPER", "LIVE"}
  /\ Faults \subseteq FaultKinds
  /\ Submitters \cap (Sweepers \cup Readers \cup Cancellers) = {}
  /\ Cancellers \cap (Sweepers \cup Readers) = {}

Shares == 1 .. Quantity
Amount == 0 .. Quantity

OrderStatus == {"pending", "placed", "partially_filled", "executed", "failed", "cancelled"}
TERMINAL_ORDER_STATUSES == {"executed", "failed", "cancelled"}

\* The broker's own view; "closed" is expired or rejected.
BrokerState == {"none", "open", "pending_cancel", "filled", "canceled", "closed"}

VARIABLES
  broker,   \* per order: the broker's state and the shares filled
  row,      \* per order: status, is broker_order_id set, executed_quantity, and the
            \* quantity avg_execution_price belongs to (0: there is no average yet)
  recorded, \* per order and share: how many recorded fills contain the share
  pc,       \* what each process does next
  todo,     \* the orders it still has to look at
  answer,   \* the broker's last answer to it
  previous  \* the checkpoint it compares the answer with

vars == <<broker, row, recorded, pc, todo, answer, previous>>
local == <<pc, todo, answer, previous>>

Answer == [status : OrderStatus, executed : Amount, priced : BOOLEAN]
NoAnswer == [status |-> "pending", executed |-> 0, priced |-> FALSE]
Checkpoint == [executed : Amount, averageOf : Amount]
NoCheckpoint == [executed |-> 0, averageOf |-> 0]

TypeOK ==
  /\ broker \in [Orders -> [state : BrokerState, filled : Amount]]
  /\ row \in [Orders -> [status : OrderStatus, bid : BOOLEAN, executed : Amount, averageOf : Amount]]
  /\ recorded \in [Orders -> [Shares -> Nat]]
  /\ pc \in [Procs -> {"idle", "ask", "read", "write", "record", "fail", "cancel", "confirm"}]
  /\ todo \in [Procs -> SUBSET Orders]
  /\ \A p \in Procs : todo[p] = {} <=> pc[p] = "idle"
  /\ answer \in [Procs -> Answer]
  /\ previous \in [Procs -> Checkpoint]

\* Orders the Database Agent knows and nobody submitted yet.
Init ==
  /\ broker = [o \in Orders |-> [state |-> "none", filled |-> 0]]
  /\ row = [o \in Orders |-> [status |-> "pending", bid |-> FALSE, executed |-> 0, averageOf |-> 0]]
  /\ recorded = [o \in Orders |-> [i \in Shares |-> 0]]
  /\ pc = [p \in Procs |-> "idle"]
  /\ todo = [p \in Procs |-> {}]
  /\ answer = [p \in Procs |-> NoAnswer]
  /\ previous = [p \in Procs |-> NoCheckpoint]

----------------------------------------------------------------------------
(* The broker.  An operator whose name ends in _Mutant is a plausible wrong *)
(* form of the definition after it; no specification uses it.               *)

Open(o) == broker[o].state \in {"open", "pending_cancel"}

\* Another share is filled, also while a cancellation is pending.
BrokerFills(o) ==
  /\ Open(o) /\ broker[o].filled < Quantity
  /\ broker' = [broker EXCEPT ![o].filled = @ + 1,
                              ![o].state = IF broker[o].filled + 1 = Quantity THEN "filled" ELSE @]
  /\ UNCHANGED <<row, recorded, local>>

BrokerCloses(o) ==
  /\ \/ broker[o].state = "open" /\ broker' = [broker EXCEPT ![o].state = "closed"]
     \/ broker[o].state = "pending_cancel" /\ broker' = [broker EXCEPT ![o].state = "canceled"]
  /\ UNCHANGED <<row, recorded, local>>

Internal_Mutant(b) ==
  CASE b.state = "canceled" -> "cancelled"
    [] b.state = "closed" -> "failed"
    [] b.state = "pending_cancel" -> "placed"
    [] OTHER -> IF b.filled = 0 THEN "placed" ELSE "executed"
\* _map_alpaca_order_to_internal.  A pending cancellation hides a partial fill.
Internal(b) ==
  CASE b.state = "filled" -> "executed"
    [] b.state = "canceled" -> "cancelled"
    [] b.state = "closed" -> "failed"
    [] b.state = "pending_cancel" -> "placed"
    [] OTHER -> IF b.filled = 0 THEN "placed" ELSE "partially_filled"

\* What the broker may answer about an order it holds as b.
Answers(b) ==
  LET averages == IF b.filled = 0 THEN {FALSE}
                  ELSE IF "no_average" \in Faults THEN BOOLEAN
                  ELSE {TRUE}
  IN {[status |-> Internal(b), executed |-> b.filled, priced |-> x] : x \in averages}

----------------------------------------------------------------------------
(* Steps of a process. *)

Current(p) == Min(todo[p])

Goto(p, l) == pc' = [pc EXCEPT ![p] = l] /\ UNCHANGED <<todo, answer, previous>>

NextOrder_Mutant(p) ==
  /\ todo' = [todo EXCEPT ![p] = @ \ {Current(p)}]
  /\ pc' = [pc EXCEPT ![p] = "idle"]
  /\ answer' = [answer EXCEPT ![p] = NoAnswer]
  /\ previous' = [previous EXCEPT ![p] = NoCheckpoint]
\* On to the next order of the sweep, or done; a reader's request ends.
NextOrder(p) ==
  LET rest == todo[p] \ {Current(p)} IN
  /\ todo' = [todo EXCEPT ![p] = rest]
  /\ pc' = [pc EXCEPT ![p] = IF rest = {} THEN "idle" ELSE "ask"]
  /\ answer' = [answer EXCEPT ![p] = NoAnswer]
  /\ previous' = [previous EXCEPT ![p] = NoCheckpoint]

\* _handle_broker_updates raises.  A sweep counts an error and goes on, a request
\* answers 500; start_order_execution marks the order failed.
Raise(p) == IF p \in Submitters THEN Goto(p, "fail") ELSE NextOrder(p)

Begin(p, orders, l) ==
  /\ pc[p] = "idle"
  /\ todo' = [todo EXCEPT ![p] = orders]
  /\ pc' = [pc EXCEPT ![p] = l]

Refreshable(o) == row[o].bid /\ row[o].status \notin TERMINAL_ORDER_STATUSES

----------------------------------------------------------------------------
(* Where an answer comes from. *)

\* The broker accepts the order (market orders may fill at once) and its answer is
\* on the way to the adapter's callback.
PlaceOrder(p, o) ==
  /\ p \in Submitters
  /\ broker[o].state = "none"
  /\ Begin(p, {o}, "read")
  /\ \E n \in Amount :
       LET b == [state |-> IF n = Quantity THEN "filled" ELSE "open", filled |-> n] IN
       /\ broker' = [broker EXCEPT ![o] = b]
       /\ \E a \in Answers(b) : answer' = [answer EXCEPT ![p] = a]
  /\ UNCHANGED <<row, recorded, previous>>

InFlight_Mutant == {o \in Orders : row[o].status \in {"pending", "placed"}}
InFlight == {o \in Orders : row[o].status \notin TERMINAL_ORDER_STATUSES}
\* list_in_flight_orders: the first rows by order id, whatever else they are.
Listed == {o \in InFlight : Cardinality({x \in InFlight : x < o}) < Limit}

\* reconcile_broker_orders lists once and skips rows without a broker order id.
ListInFlightOrders(p) ==
  LET orders == {o \in Listed : row[o].bid} IN
  /\ p \in Sweepers
  /\ orders # {}
  /\ Begin(p, orders, "ask")
  /\ UNCHANGED <<broker, row, recorded, answer, previous>>

\* refresh_order_status leaves an order alone that is final or was never submitted.
RefreshOrderStatus(p, o) ==
  /\ p \in Readers
  /\ Refreshable(o)
  /\ Begin(p, {o}, "ask")
  /\ UNCHANGED <<broker, row, recorded, answer, previous>>

\* get_order_status.
GetOrderStatus(p) ==
  /\ pc[p] = "ask"
  /\ \/ /\ \E a \in Answers(broker[Current(p)]) : answer' = [answer EXCEPT ![p] = a]
        /\ pc' = [pc EXCEPT ![p] = "read"]
        /\ UNCHANGED <<todo, previous>>
     \/ "broker_call" \in Faults /\ NextOrder(p)
  /\ UNCHANGED <<broker, row, recorded>>

----------------------------------------------------------------------------
(* _handle_broker_updates. *)

\* _executed_quantity_delta is positive.
HasFill(before, a) == a.executed > before.executed

EvidenceMissing_Mutant(before, a) == FALSE
\* _fill_payload_from_update raises: a fill needs the new average and, after an
\* earlier fill, the old one.
EvidenceMissing(before, a) ==
  /\ HasFill(before, a)
  /\ ~a.priced \/ (before.executed > 0 /\ before.averageOf = 0)

\* Read the checkpoint, and refuse incomplete evidence before moving it.
ReadPreviousOrder(p) ==
  LET before == [executed |-> row[Current(p)].executed, averageOf |-> row[Current(p)].averageOf] IN
  /\ pc[p] = "read"
  /\ \/ /\ ~EvidenceMissing(before, answer[p])
        /\ previous' = [previous EXCEPT ![p] = before]
        /\ pc' = [pc EXCEPT ![p] = "write"]
        /\ UNCHANGED <<todo, answer>>
     \/ EvidenceMissing(before, answer[p]) /\ Raise(p)
     \/ "db_call" \in Faults /\ Raise(p)
  /\ UNCHANGED <<broker, row, recorded>>

Merged_Stale_Mutant(r, a) ==
  [status |-> a.status, bid |-> TRUE, executed |-> r.executed, averageOf |-> r.averageOf]
Merged_Reset_Mutant(r, a) ==
  [status |-> a.status, bid |-> TRUE, executed |-> IF a.priced THEN a.executed ELSE 0,
   averageOf |-> IF a.priced THEN a.executed ELSE r.averageOf]
\* update_order writes what the answer names: an answer without an average keeps
\* the old one.
Merged(r, a) ==
  [status |-> a.status, bid |-> TRUE, executed |-> a.executed,
   averageOf |-> IF a.priced THEN a.executed ELSE r.averageOf]

UpdateOrder(p) ==
  LET o == Current(p)
      written == row' = [row EXCEPT ![o] = Merged(@, answer[p])]
  IN
  /\ pc[p] = "write"
  /\ \/ written /\ Goto(p, "record")
     \/ written /\ "db_call" \in Faults /\ Raise(p)
     \/ UNCHANGED row /\ "db_call" \in Faults /\ Raise(p)
  /\ UNCHANGED <<broker, recorded>>

FillInterval_Mutant(before, a) == before.executed + 1 .. a.executed - 1
\* The shares of the fill an answer a adds to the checkpoint before.
FillInterval(before, a) == before.executed + 1 .. a.executed

RecordedWith(fill, o) ==
  recorded' = [recorded EXCEPT ![o] = [i \in Shares |-> IF i \in fill THEN @[i] + 1 ELSE @[i]]]

\* record_fill appends a fill (there is none when the quantity did not grow).  The
\* call may fail, applied or not: LIVE raises, PAPER logs and goes on.
RecordFill(p) ==
  LET o == Current(p)
      fill == FillInterval(previous[p], answer[p])
  IN
  /\ pc[p] = "record"
  /\ \/ RecordedWith(fill, o) /\ NextOrder(p)
     \/ /\ "db_call" \in Faults /\ fill # {}
        /\ RecordedWith(fill, o) \/ UNCHANGED recorded
        /\ IF TradingMode = "LIVE" THEN Raise(p) ELSE NextOrder(p)
  /\ UNCHANGED <<broker, row>>

\* start_order_execution after an exception in the callback.
MarkOrderFailed(p) ==
  LET o == Current(p) IN
  /\ pc[p] = "fail"
  /\ \/ row' = [row EXCEPT ![o].status = "failed"]
     \/ UNCHANGED row /\ "db_call" \in Faults
  /\ NextOrder(p)
  /\ UNCHANGED <<broker, recorded>>

----------------------------------------------------------------------------
(* Cancellation, and processes that stop. *)

\* cancel_order of the route: read the order.
BeginCancel(p, o) ==
  /\ p \in Cancellers
  /\ Refreshable(o)
  /\ Begin(p, {o}, "cancel")
  /\ UNCHANGED <<broker, row, recorded, answer, previous>>

\* AlpacaAdapter.cancel_order: the broker takes the request (204) or refuses it; the
\* answer to a request it took may be lost.
CancelAtBroker(p) ==
  LET o == Current(p)
      requested == broker' = [broker EXCEPT ![o].state = "pending_cancel"]
  IN
  /\ pc[p] = "cancel"
  /\ \/ broker[o].state = "open" /\ requested /\ Goto(p, "confirm")
     \/ broker[o].state = "open" /\ requested /\ "broker_call" \in Faults /\ NextOrder(p)
     \/ /\ broker[o].state # "open" \/ "broker_call" \in Faults
        /\ UNCHANGED broker /\ NextOrder(p)
  /\ UNCHANGED <<row, recorded>>

\* A taken request is written as CANCELLED, confirmed or not.
WriteCancelled(p) ==
  LET o == Current(p) IN
  /\ pc[p] = "confirm"
  /\ \/ row' = [row EXCEPT ![o].status = "cancelled"]
     \/ UNCHANGED row /\ "db_call" \in Faults
  /\ NextOrder(p)
  /\ UNCHANGED <<broker, recorded>>

Crash(p) ==
  /\ "crash" \in Faults
  /\ pc[p] # "idle"
  /\ todo' = [todo EXCEPT ![p] = {}]
  /\ pc' = [pc EXCEPT ![p] = "idle"]
  /\ answer' = [answer EXCEPT ![p] = NoAnswer]
  /\ previous' = [previous EXCEPT ![p] = NoCheckpoint]
  /\ UNCHANGED <<broker, row, recorded>>

----------------------------------------------------------------------------
Continue(p) ==
  \/ GetOrderStatus(p)
  \/ ReadPreviousOrder(p)
  \/ UpdateOrder(p)
  \/ RecordFill(p)
  \/ MarkOrderFailed(p)
  \/ CancelAtBroker(p)
  \/ WriteCancelled(p)

Request(p, o) ==
  \/ PlaceOrder(p, o)
  \/ RefreshOrderStatus(p, o)
  \/ BeginCancel(p, o)

Next ==
  \/ \E o \in Orders : BrokerFills(o) \/ BrokerCloses(o)
  \/ \E p \in Procs : ListInFlightOrders(p) \/ Continue(p) \/ Crash(p)
  \/ \E p \in Procs, o \in Orders : Request(p, o)

Spec == Init /\ [][Next]_vars

\* The worker sweeps for ever and calls return (they carry timeouts); nobody has to
\* send a request, and the broker need not fill.
Fairness ==
  /\ \A p \in Sweepers : WF_vars(ListInFlightOrders(p))
  /\ \A p \in Procs : WF_vars(Continue(p))

FairSpec == Spec /\ Fairness

----------------------------------------------------------------------------
(* Properties. *)

\* No share is recorded in two fills, whatever fails between the checkpoint write and
\* the fill (_record_fill_from_update, "only incremental" fills).
NoShareRecordedTwice == \A o \in Orders : \A i \in Shares : recorded[o][i] <= 1

\* A recorded fill has the share, or the fill of a process about to record it.
Covered(o, i) ==
  \/ recorded[o][i] > 0
  \/ \E p \in Procs : /\ pc[p] = "record" /\ Current(p) = o
                      /\ i \in FillInterval(previous[p], answer[p])

\* Every share below the checkpoint is recorded, or is about to be by the process
\* that moved the checkpoint: a later sweep compares with the checkpoint and would
\* never find the share again.
CheckpointIsRecorded == \A o \in Orders : \A i \in 1 .. row[o].executed : Covered(o, i)

\* The row never claims more than the broker did, however stale the answers written
\* to it are, and shares are recorded only when they were filled.
RowNeverAheadOfBroker ==
  \A o \in Orders :
    /\ row[o].executed <= broker[o].filled
    /\ row[o].status = "executed" => broker[o].state = "filled"
    /\ \A i \in Shares : recorded[o][i] > 0 => i <= broker[o].filled

\* The checkpoint never moves back: a process that writes an older answer over a newer
\* one makes the next sweep record the difference again.
CheckpointNeverMovesBack ==
  [][\A o \in Orders : row'[o].executed >= row[o].executed]_vars

\* The price of a recorded fill is the difference of two notionals, so the old
\* average must belong to the quantity it is multiplied with.
FillIsPricedFromItsCheckpoint ==
  \A p \in Procs : pc[p] = "record" /\ HasFill(previous[p], answer[p]) =>
    previous[p].executed \in {0, previous[p].averageOf}

\* A final state at the broker reaches the row and stays there, also when older
\* answers are written late.
Settled(o) == row[o].bid /\ broker[o].state \in {"filled", "canceled", "closed"}
InAgreement(o) == row[o].status = Internal(broker[o]) /\ row[o].executed = broker[o].filled

SettledOrderIsLearnt == \A o \in Orders : <>Settled(o) => <>[]InAgreement(o)

----------------------------------------------------------------------------
(* Strengthenings that are inductive, for the proofs. *)

HandlesAnswer(p) == pc[p] \in {"read", "write", "record"}

\* Why the row is never ahead: what an answer says was true when it was given, fills
\* are never taken back and a filled order stays filled.
TrueAnswer(p) ==
  /\ answer[p].executed <= broker[Current(p)].filled
  /\ answer[p].status = "executed" => broker[Current(p)].state = "filled"

AnswersWereTrue == \A p \in Procs : HandlesAnswer(p) => TrueAnswer(p)

UnsentIsUnfilled == \A o \in Orders : broker[o].state = "none" => broker[o].filled = 0

TruthInv == AnswersWereTrue /\ UnsentIsUnfilled /\ RowNeverAheadOfBroker

\* One process runs the sweeps and there is no other reader.
LoneUpdater == \A p, q \in Sweepers \cup Readers : p = q

\* Who may work on what: an order has one submitter, and the others come when the
\* submitter has written its row.
Roles ==
  /\ \A p \in Submitters : pc[p] \in {"idle", "read", "write", "record", "fail"}
  /\ \A p \in Cancellers : pc[p] \in {"idle", "cancel", "confirm"}
  /\ \A p \in Sweepers \cup Readers : pc[p] \in {"idle", "ask", "read", "write", "record"}

OneSubmitter ==
  /\ \A p \in Submitters \cup Cancellers : \A o \in todo[p] : todo[p] = {o}
  /\ \A p \in Submitters : \A o \in todo[p] : broker[o].state # "none"
  /\ \A p, q \in Submitters : todo[p] \cap todo[q] # {} => p = q

RowsFirst ==
  /\ \A p \in Procs \ Submitters : \A o \in todo[p] : row[o].bid
  /\ \A p \in Submitters : pc[p] \in {"read", "write"} => ~row[Current(p)].bid
  /\ \A o \in Orders : ~row[o].bid => row[o].executed = 0
  /\ \A o \in Orders : broker[o].state = "none" => ~row[o].bid

\* Nobody else moves the checkpoint between its read and its write, and the answer
\* that will be written is not older than it.
CheckpointHeldBy(p) ==
  /\ pc[p] \in {"read", "write"} => row[Current(p)].executed <= answer[p].executed
  /\ pc[p] = "write" => /\ previous[p].executed = row[Current(p)].executed
                        /\ previous[p].averageOf = row[Current(p)].averageOf
                        /\ ~EvidenceMissing(previous[p], answer[p])

CheckpointHeld == \A p \in Procs : CheckpointHeldBy(p)

AveragesMatch ==
  /\ \A o \in Orders : row[o].executed \in {0, row[o].averageOf}
  /\ \A p \in Procs : previous[p].executed \in {0, previous[p].averageOf}

\* The fills that were recorded and those about to be recorded are disjoint.
Fill(p) == FillInterval(previous[p], answer[p])

FillsDisjoint ==
  /\ \A o \in Orders : \A i \in Shares : recorded[o][i] > 0 => i <= row[o].executed
  /\ \A p \in Procs : pc[p] = "record" =>
       /\ answer[p].executed <= row[Current(p)].executed
       /\ \A i \in Shares : i \in Fill(p) => recorded[Current(p)][i] = 0
  /\ \A p, q \in Procs : pc[p] = "record" /\ pc[q] = "record" /\ Current(p) = Current(q) /\ p # q =>
       \A i \in Shares : ~(i \in Fill(p) /\ i \in Fill(q))

UpdaterInv ==
  /\ Roles /\ OneSubmitter /\ RowsFirst
  /\ CheckpointHeld /\ AveragesMatch /\ FillsDisjoint /\ NoShareRecordedTwice

\* No call to the Database Agent fails and no process stops; the broker may fail.
ReliableDatabase == Faults \cap {"db_call", "crash"} = {}

\* A checkpoint read earlier may be behind the row by now, or ahead of it after an
\* older answer was written; its shares stay covered either way.
CoverageInv ==
  /\ CheckpointIsRecorded
  /\ \A p \in Procs : pc[p] = "write" =>
       \A i \in 1 .. previous[p].executed : Covered(Current(p), i)
=============================================================================
