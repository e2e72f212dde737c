---------------------------- MODULE SimulatedFills ----------------------------
(***************************************************************************)
(* FillReconciliation with the adapter of BROKER_MODE=SIMULATOR, the       *)
(* default.  SimulatorAdapter keeps no orders: place_order reports a       *)
(* scripted sequence of updates, which the symbol decides, and sleeps      *)
(* between them; get_order_status and cancel_order give the same answer    *)
(* about every order.  The service around them is the same, so the sweeps, *)
(* the status route and the cancel route work on an order while its script *)
(* is running.                                                             *)
(***************************************************************************)
EXTENDS FillReconciliation, Sequences

CONSTANTS
  Scenario,       \* per order: "unprotected" (no valid plan), "FAIL" or "PARTIAL" in the
                  \* symbol, or "other"
  Size,           \* the quantity of each order, Quantity at most
  StatusQuantity  \* the executed quantity get_order_status answers (100)

VARIABLE script  \* per order: the updates place_order still has to report

simulation == <<vars, script>>

Update(status, executed) == [status |-> status, executed |-> executed, priced |-> executed > 0]

\* place_order: without a valid protection plan the order fails at once.
Script(o) ==
  CASE Scenario[o] = "unprotected" -> <<Update("failed", 0)>>
    [] Scenario[o] = "FAIL" -> <<Update("placed", 0), Update("failed", 0)>>
    [] Scenario[o] = "PARTIAL" ->
         <<Update("placed", 0), Update("partially_filled", Size[o] \div 2), Update("executed", Size[o])>>
    [] OTHER -> <<Update("placed", 0), Update("executed", Size[o])>>

SimulationInit ==
  /\ Init
  /\ script = [o \in Orders |-> Script(o)]

----------------------------------------------------------------------------
\* The next update, once the callback with the one before has returned.
ReportUpdate(p, o) ==
  /\ p \in Submitters
  /\ script[o] # <<>>
  /\ Begin(p, {o}, "read")
  /\ answer' = [answer EXCEPT ![p] = Head(script[o])]
  /\ script' = [script EXCEPT ![o] = Tail(@)]
  /\ UNCHANGED <<broker, row, recorded, previous>>

\* get_order_status.
SimulatedStatus(p) ==
  /\ pc[p] = "ask"
  /\ answer' = [answer EXCEPT ![p] = Update("executed", StatusQuantity)]
  /\ pc' = [pc EXCEPT ![p] = "read"]
  /\ UNCHANGED <<broker, row, recorded, todo, previous, script>>

\* cancel_order.
SimulatedCancel(p) ==
  /\ pc[p] = "cancel"
  /\ Goto(p, "confirm")
  /\ UNCHANGED <<broker, row, recorded, script>>

\* An update that reports a status alone leaves quantity and average; the broker
\* order id of the first update stays.
MergedNamed(r, a) ==
  IF a.status \in {"placed", "failed"} THEN [r EXCEPT !.status = a.status, !.bid = @ \/ a.status = "placed"]
  ELSE Merged(r, a)

\* update_order of _handle_broker_updates.
UpdateSimulated(p) ==
  LET o == Current(p)
      written == row' = [row EXCEPT ![o] = MergedNamed(@, answer[p])]
  IN
  /\ pc[p] = "write"
  /\ \/ written /\ Goto(p, "record")
     \/ (written \/ UNCHANGED row) /\ "db_call" \in Faults /\ Raise(p)
  /\ UNCHANGED <<broker, recorded, script>>

\* A submission that fails or stops reports nothing more.
Abandon(p) ==
  /\ MarkOrderFailed(p) \/ Crash(p)
  /\ script' = IF p \in Submitters THEN [script EXCEPT ![Current(p)] = <<>>] ELSE script

Serve(p) ==
  \/ SimulatedStatus(p)
  \/ SimulatedCancel(p)
  \/ UpdateSimulated(p)
  \/ Abandon(p)
  \/ (ListInFlightOrders(p) \/ ReadPreviousOrder(p) \/ RecordFill(p) \/ WriteCancelled(p)) /\ UNCHANGED script

SimulationNext ==
  \/ \E p \in Procs : Serve(p)
  \/ \E p \in Procs, o \in Orders :
       \/ ReportUpdate(p, o)
       \/ (RefreshOrderStatus(p, o) \/ BeginCancel(p, o)) /\ UNCHANGED script

SimulationSpec == SimulationInit /\ [][SimulationNext]_simulation

----------------------------------------------------------------------------
(* Properties. *)

\* Its submission is over, and nobody works on it.
Finished(o) == script[o] = <<>> /\ \A p \in Procs : pc[p] = "idle"

\* An order whose symbol asks for a failure has failed when its submission is over,
\* and none of its shares was recorded (the documented behaviour of FAIL.BK).
FailSymbolFails ==
  \A o \in Orders : Scenario[o] = "FAIL" /\ Finished(o) =>
    /\ row[o].status = "failed"
    /\ \A i \in Shares : recorded[o][i] = 0
=============================================================================
