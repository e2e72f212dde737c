---------------------- MODULE FillReconciliationProofs ----------------------
(***************************************************************************)
(* Proofs about FillReconciliation, for any number of orders, shares and   *)
(* processes.                                                              *)
(***************************************************************************)
EXTENDS FillReconciliation, WellFoundedInduction, TLAPS

----------------------------------------------------------------------------
(* Types. *)

PcLabel == {"idle", "ask", "read", "write", "record", "fail", "cancel", "confirm"}

\* What the processes carry.
LocalOK ==
  /\ pc \in [Procs -> PcLabel]
  /\ todo \in [Procs -> SUBSET Orders]
  /\ \A p \in Procs : todo[p] = {} <=> pc[p] = "idle"
  /\ answer \in [Procs -> Answer]
  /\ previous \in [Procs -> Checkpoint]

\* What the broker and the Database Agent hold.
StoresOK ==
  /\ broker \in [Orders -> [state : BrokerState, filled : Amount]]
  /\ row \in [Orders -> [status : OrderStatus, bid : BOOLEAN, executed : Amount, averageOf : Amount]]
  /\ recorded \in [Orders -> [Shares -> Nat]]

\* A set of order ids that is not empty has a least one.
LEMMA LeastOrder ==
  ASSUME NEW S \in SUBSET Nat, S # {}
  PROVE  Min(S) \in S
<1>1. \E x \in S : \A y \in S : ~(<<y, x>> \in OpToRel(<, Nat))
  BY NatLessThanWellFounded, WFMin
<1>2. \E x \in S : \A y \in S : x =< y
  <2>1. PICK x \in S : \A y \in S : ~(<<y, x>> \in OpToRel(<, Nat))
    BY <1>1
  <2>2. ASSUME NEW y \in S
        PROVE  x =< y
    <3>1. <<y, x>> \notin OpToRel(<, Nat)
      BY <2>1, <2>2
    <3>2. ~(y < x)
      BY <3>1, Zenon DEF OpToRel
    <3>3. x \in Nat /\ y \in Nat
      BY <2>2
    <3> QED
      BY <3>2, <3>3
  <2> QED
    BY <2>2
<1> QED
  BY <1>2 DEF Min

\* A process that is not idle has a current order.
LEMMA CurrentOrder ==
  ASSUME LocalOK, NEW p \in Procs, pc[p] # "idle"
  PROVE  Current(p) \in todo[p] /\ Current(p) \in Orders
<1>1. todo[p] \in SUBSET Nat /\ todo[p] # {}
  BY ReconciliationAssumption DEF LocalOK
<1> QED
  BY <1>1, LeastOrder DEF Current, LocalOK

\* A jump to another step keeps the types of the processes.
LEMMA GotoType ==
  ASSUME LocalOK, NEW p \in Procs, pc[p] # "idle", NEW l \in PcLabel \ {"idle"}, Goto(p, l)
  PROVE  LocalOK'
BY DEF LocalOK, Goto

\* So does going on to the next order.
LEMMA NextOrderType ==
  ASSUME LocalOK, NEW p \in Procs, NextOrder(p)
  PROVE  LocalOK'
<1>1. NoAnswer \in Answer /\ NoCheckpoint \in Checkpoint
  BY ReconciliationAssumption DEF NoAnswer, Answer, OrderStatus, Amount, NoCheckpoint, Checkpoint
<1> QED
  BY <1>1 DEF LocalOK, NextOrder, PcLabel

\* And an exception.
LEMMA RaiseType ==
  ASSUME LocalOK, NEW p \in Procs, pc[p] # "idle", Raise(p)
  PROVE  LocalOK'
<1>1. CASE Goto(p, "fail")
  BY <1>1, GotoType DEF PcLabel
<1>2. CASE NextOrder(p)
  BY <1>2, NextOrderType
<1> QED
  BY <1>1, <1>2 DEF Raise

\* And the begin of a request or a sweep.
LEMMA BeginType ==
  ASSUME LocalOK, NEW p \in Procs, NEW orders \in SUBSET Orders, orders # {},
         NEW l \in PcLabel \ {"idle"}, Begin(p, orders, l),
         answer' \in [Procs -> Answer], previous' \in [Procs -> Checkpoint]
  PROVE  LocalOK'
BY DEF LocalOK, Begin

\* What the broker may answer is an answer.
LEMMA AnswerType ==
  ASSUME NEW b \in [state : BrokerState, filled : Amount]
  PROVE  Answers(b) \subseteq Answer
<1>1. Internal(b) \in OrderStatus
  BY DEF Internal, OrderStatus
<1>2. ASSUME NEW a \in Answers(b)
      PROVE  a \in Answer
  <2>1. PICK x \in BOOLEAN : a = [status |-> Internal(b), executed |-> b.filled, priced |-> x]
    BY <1>2 DEF Answers
  <2> QED
    BY <1>1, <2>1 DEF Answer
<1> QED
  BY <1>2

\* What is written over a row is a row.
LEMMA MergedType ==
  ASSUME NEW r \in [status : OrderStatus, bid : BOOLEAN, executed : Amount, averageOf : Amount],
         NEW a \in Answer
  PROVE  Merged(r, a) \in [status : OrderStatus, bid : BOOLEAN, executed : Amount, averageOf : Amount]
BY DEF Merged, Answer

\* Every step keeps every variable in its type.
LEMMA TypeStep == TypeOK /\ [Next]_vars => TypeOK'
<1> SUFFICES ASSUME StoresOK, LocalOK, [Next]_vars
             PROVE  StoresOK' /\ LocalOK'
  BY DEF TypeOK, StoresOK, LocalOK, PcLabel
<1>0. Quantity \in Nat \ {0}
  BY ReconciliationAssumption
<1>1. ASSUME NEW o \in Orders, BrokerFills(o)
      PROVE  StoresOK' /\ LocalOK'
  <2>1. broker[o].filled + 1 \in Amount
    BY <1>0, <1>1 DEF BrokerFills, StoresOK, Amount
  <2>2. broker' \in [Orders -> [state : BrokerState, filled : Amount]]
    BY <1>1, <2>1, ZenonT(60) DEF BrokerFills, StoresOK, BrokerState
  <2> QED
    BY <1>1, <2>2 DEF BrokerFills, StoresOK, LocalOK, local
<1>2. ASSUME NEW o \in Orders, BrokerCloses(o)
      PROVE  StoresOK' /\ LocalOK'
  <2>1. PICK s \in {"closed", "canceled"} : broker' = [broker EXCEPT ![o].state = s]
    BY <1>2 DEF BrokerCloses
  <2>2. broker' \in [Orders -> [state : BrokerState, filled : Amount]]
    BY <1>2, <2>1 DEF StoresOK, BrokerState
  <2> QED
    BY <1>2, <2>2 DEF BrokerCloses, StoresOK, LocalOK, local
<1>3. ASSUME NEW p \in Procs, ListInFlightOrders(p)
      PROVE  StoresOK' /\ LocalOK'
  <2>1. LocalOK'
    BY <1>3, BeginType DEF ListInFlightOrders, Listed, InFlight, PcLabel, LocalOK
  <2> QED
    BY <1>3, <2>1 DEF ListInFlightOrders, StoresOK
<1>4. ASSUME NEW p \in Procs, GetOrderStatus(p)
      PROVE  StoresOK' /\ LocalOK'
  <2>1. Current(p) \in Orders /\ pc[p] # "idle"
    BY <1>4, CurrentOrder DEF GetOrderStatus
  <2>2. Answers(broker[Current(p)]) \subseteq Answer
    BY <2>1, AnswerType DEF StoresOK
  <2>3. LocalOK'
    <3>1. CASE NextOrder(p)
      BY <3>1, NextOrderType
    <3>2. CASE ~NextOrder(p)
      BY <1>4, <2>1, <2>2, <3>2 DEF GetOrderStatus, LocalOK, PcLabel
    <3> QED
      BY <3>1, <3>2
  <2> QED
    BY <1>4, <2>3 DEF GetOrderStatus, StoresOK
<1>5. ASSUME NEW p \in Procs, ReadPreviousOrder(p)
      PROVE  StoresOK' /\ LocalOK'
  <2>1. Current(p) \in Orders /\ pc[p] # "idle"
    BY <1>5, CurrentOrder DEF ReadPreviousOrder
  <2> DEFINE before == [executed |-> row[Current(p)].executed, averageOf |-> row[Current(p)].averageOf]
  <2>2. before \in Checkpoint
    BY <2>1 DEF StoresOK, Checkpoint
  <2>3. LocalOK'
    <3>1. CASE Raise(p)
      BY <2>1, <3>1, RaiseType
    <3>2. CASE ~Raise(p)
      BY <1>5, <2>1, <2>2, <3>2 DEF ReadPreviousOrder, LocalOK, PcLabel
    <3> QED
      BY <3>1, <3>2
  <2> QED
    BY <1>5, <2>3 DEF ReadPreviousOrder, StoresOK
<1>6. ASSUME NEW p \in Procs, UpdateOrder(p)
      PROVE  StoresOK' /\ LocalOK'
  <2>1. Current(p) \in Orders /\ pc[p] # "idle"
    BY <1>6, CurrentOrder DEF UpdateOrder
  <2>2. LocalOK'
    BY <1>6, <2>1, GotoType, RaiseType DEF UpdateOrder, PcLabel
  <2>3. Merged(row[Current(p)], answer[p]) \in
          [status : OrderStatus, bid : BOOLEAN, executed : Amount, averageOf : Amount]
    BY <2>1, MergedType DEF StoresOK, LocalOK
  <2> QED
    BY <1>6, <2>1, <2>2, <2>3 DEF UpdateOrder, StoresOK
<1>7. ASSUME NEW p \in Procs, RecordFill(p)
      PROVE  StoresOK' /\ LocalOK'
  <2>1. Current(p) \in Orders /\ pc[p] # "idle"
    BY <1>7, CurrentOrder DEF RecordFill
  <2>2. LocalOK'
    BY <1>7, <2>1, NextOrderType, RaiseType DEF RecordFill
  <2>3. recorded' \in [Orders -> [Shares -> Nat]]
    <3>1. CASE UNCHANGED recorded
      BY <3>1 DEF StoresOK
    <3>2. CASE RecordedWith(FillInterval(previous[p], answer[p]), Current(p))
      <4> DEFINE o == Current(p)
                 fill == FillInterval(previous[p], answer[p])
                 counts == [i \in Shares |-> IF i \in fill THEN recorded[o][i] + 1 ELSE recorded[o][i]]
      <4>1. counts \in [Shares -> Nat]
        BY <2>1 DEF StoresOK
      <4>2. recorded' = [recorded EXCEPT ![o] = counts]
        BY <3>2 DEF RecordedWith
      <4> HIDE DEF counts, o
      <4> QED
        BY <4>1, <4>2 DEF StoresOK
    <3> QED
      BY <1>7, <3>1, <3>2 DEF RecordFill
  <2> QED
    BY <1>7, <2>2, <2>3 DEF RecordFill, StoresOK
<1>8. ASSUME NEW p \in Procs, MarkOrderFailed(p)
      PROVE  StoresOK' /\ LocalOK'
  <2>1. Current(p) \in Orders
    BY <1>8, CurrentOrder DEF MarkOrderFailed
  <2>2. LocalOK'
    BY <1>8, NextOrderType DEF MarkOrderFailed
  <2> QED
    BY <1>8, <2>1, <2>2, ZenonT(60) DEF MarkOrderFailed, StoresOK, OrderStatus
<1>9. ASSUME NEW p \in Procs, CancelAtBroker(p)
      PROVE  StoresOK' /\ LocalOK'
  <2>1. Current(p) \in Orders /\ pc[p] # "idle"
    BY <1>9, CurrentOrder DEF CancelAtBroker
  <2>2. LocalOK'
    BY <1>9, <2>1, GotoType, NextOrderType DEF CancelAtBroker, PcLabel
  <2> QED
    BY <1>9, <2>1, <2>2 DEF CancelAtBroker, StoresOK, BrokerState
<1>10. ASSUME NEW p \in Procs, WriteCancelled(p)
       PROVE  StoresOK' /\ LocalOK'
  <2>1. Current(p) \in Orders
    BY <1>10, CurrentOrder DEF WriteCancelled
  <2>2. LocalOK'
    BY <1>10, NextOrderType DEF WriteCancelled
  <2> QED
    BY <1>10, <2>1, <2>2, ZenonT(60) DEF WriteCancelled, StoresOK, OrderStatus
<1>11. ASSUME NEW p \in Procs, Crash(p)
       PROVE  StoresOK' /\ LocalOK'
  <2>1. NoAnswer \in Answer /\ NoCheckpoint \in Checkpoint
    BY <1>0 DEF NoAnswer, Answer, OrderStatus, Amount, NoCheckpoint, Checkpoint
  <2> QED
    BY <1>11, <2>1 DEF Crash, StoresOK, LocalOK, PcLabel
<1>12. ASSUME NEW p \in Procs, NEW o \in Orders, PlaceOrder(p, o)
       PROVE  StoresOK' /\ LocalOK'
  <2>1. PICK n \in Amount :
          LET b == [state |-> IF n = Quantity THEN "filled" ELSE "open", filled |-> n] IN
          /\ broker' = [broker EXCEPT ![o] = b]
          /\ \E a \in Answers(b) : answer' = [answer EXCEPT ![p] = a]
    BY <1>12 DEF PlaceOrder
  <2> DEFINE b == [state |-> IF n = Quantity THEN "filled" ELSE "open", filled |-> n]
  <2>2. b \in [state : BrokerState, filled : Amount]
    BY DEF BrokerState
  <2>3. Answers(b) \subseteq Answer
    BY <2>2, AnswerType
  <2>4. answer' \in [Procs -> Answer] /\ broker' \in [Orders -> [state : BrokerState, filled : Amount]]
    BY <2>1, <2>2, <2>3 DEF StoresOK, LocalOK
  <2>5. LocalOK'
    BY <1>12, <2>4, BeginType DEF PlaceOrder, PcLabel, LocalOK
  <2> QED
    BY <1>12, <2>4, <2>5 DEF PlaceOrder, StoresOK
<1>13. ASSUME NEW p \in Procs, NEW o \in Orders, RefreshOrderStatus(p, o)
       PROVE  StoresOK' /\ LocalOK'
  <2>1. LocalOK'
    BY <1>13, BeginType DEF RefreshOrderStatus, PcLabel, LocalOK
  <2> QED
    BY <1>13, <2>1 DEF RefreshOrderStatus, StoresOK
<1>14. ASSUME NEW p \in Procs, NEW o \in Orders, BeginCancel(p, o)
       PROVE  StoresOK' /\ LocalOK'
  <2>1. LocalOK'
    BY <1>14, BeginType DEF BeginCancel, PcLabel, LocalOK
  <2> QED
    BY <1>14, <2>1 DEF BeginCancel, StoresOK
<1>15. CASE UNCHANGED vars
  BY <1>15 DEF vars, local, StoresOK, LocalOK
<1> QED
  BY <1>1, <1>2, <1>3, <1>4, <1>5, <1>6, <1>7, <1>8, <1>9, <1>10, <1>11, <1>12, <1>13, <1>14, <1>15
     DEF Next, Continue, Request

\* The first state is well typed.
LEMMA TypeInit == Init => TypeOK
BY ReconciliationAssumption DEF Init, TypeOK, BrokerState, OrderStatus, Amount, NoAnswer, Answer,
                                NoCheckpoint, Checkpoint

\* Every reachable state is well typed, in both modes and under every failure.
THEOREM ReconciliationTypes == Spec => []TypeOK
BY TypeInit, TypeStep, PTL DEF Spec

----------------------------------------------------------------------------
(* What a step leaves alone. *)

\* Process q is where it was, and carries what it carried.
Same(q) ==
  pc'[q] = pc[q] /\ todo'[q] = todo[q] /\ answer'[q] = answer[q] /\ previous'[q] = previous[q]

Others(p) == \A q \in Procs \ {p} : Same(q)

\* The broker takes no fill back, and a filled order stays filled.
Grows ==
  \A o \in Orders : /\ broker[o].filled <= broker'[o].filled
                    /\ broker[o].state = "filled" => broker'[o].state = "filled"

\* A process that drops its order has no answer to handle.
LEMMA NextOrderLeaves ==
  ASSUME LocalOK, NEW p \in Procs, NextOrder(p)
  PROVE  /\ Others(p) /\ pc'[p] \in {"idle", "ask"} /\ todo'[p] \subseteq todo[p]
         /\ previous'[p] = NoCheckpoint
BY DEF LocalOK, NextOrder, Others, Same

\* A jump keeps what the process carries.
LEMMA GotoLeaves ==
  ASSUME LocalOK, NEW p \in Procs, NEW l, Goto(p, l)
  PROVE  /\ Others(p) /\ pc'[p] = l
         /\ todo'[p] = todo[p] /\ answer'[p] = answer[p] /\ previous'[p] = previous[p]
BY DEF LocalOK, Goto, Others, Same

\* An exception sends a submitter to mark its order failed, and the others on.
LEMMA RaiseLeaves ==
  ASSUME LocalOK, NEW p \in Procs, Raise(p)
  PROVE  /\ Others(p) /\ pc'[p] \in {"idle", "ask", "fail"} /\ todo'[p] \subseteq todo[p]
         /\ pc'[p] = "fail" => p \in Submitters
         /\ previous'[p] \in {previous[p], NoCheckpoint}
BY GotoLeaves, NextOrderLeaves DEF Raise

\* A process that stops has nothing left.
LEMMA CrashLeaves ==
  ASSUME LocalOK, NEW p \in Procs, Crash(p)
  PROVE  /\ Others(p) /\ pc'[p] = "idle" /\ todo'[p] = {} /\ previous'[p] = NoCheckpoint
BY DEF LocalOK, Crash, Others, Same

\* A request or sweep begins without an answer.
LEMMA BeginLeaves ==
  ASSUME LocalOK, NEW p \in Procs, NEW orders, NEW l, Begin(p, orders, l),
         UNCHANGED <<answer, previous>>
  PROVE  /\ Others(p) /\ pc[p] = "idle" /\ pc'[p] = l /\ todo'[p] = orders
         /\ previous'[p] = previous[p]
BY DEF LocalOK, Begin, Others, Same

----------------------------------------------------------------------------
(* The row is never ahead of the broker. *)

\* The quantities of a state are numbers.
NumbersOK ==
  /\ \A o \in Orders : /\ broker[o].filled \in Nat
                        /\ row[o].executed \in Nat /\ row[o].averageOf \in Nat
                        /\ \A i \in Shares : recorded[o][i] \in Nat
  /\ \A p \in Procs : /\ answer[p].executed \in Nat
                       /\ previous[p].executed \in Nat /\ previous[p].averageOf \in Nat

\* So are the numbers of the shares.
LEMMA AmountsAreNumbers == Amount \subseteq Nat /\ Shares \subseteq Nat
BY ReconciliationAssumption DEF Amount, Shares

\* In a well-typed state.
LEMMA Numbers == TypeOK => NumbersOK
<1> SUFFICES ASSUME TypeOK
             PROVE  NumbersOK
  OBVIOUS
<1>1. Amount \subseteq Nat /\ Shares \subseteq Nat
  BY AmountsAreNumbers
<1>2. ASSUME NEW o \in Orders
      PROVE  /\ broker[o].filled \in Nat
             /\ row[o].executed \in Nat /\ row[o].averageOf \in Nat
             /\ \A i \in Shares : recorded[o][i] \in Nat
  <2>1. /\ broker[o] \in [state : BrokerState, filled : Amount]
        /\ row[o] \in [status : OrderStatus, bid : BOOLEAN, executed : Amount, averageOf : Amount]
        /\ recorded[o] \in [Shares -> Nat]
    BY DEF TypeOK
  <2> QED
    BY <1>1, <2>1
<1>3. ASSUME NEW p \in Procs
      PROVE  /\ answer[p].executed \in Nat
             /\ previous[p].executed \in Nat /\ previous[p].averageOf \in Nat
  <2>1. answer[p] \in Answer /\ previous[p] \in Checkpoint
    BY DEF TypeOK
  <2> QED
    BY <1>1, <2>1 DEF Answer, Checkpoint
<1> QED
  BY <1>2, <1>3 DEF NumbersOK

\* After a step to one.
LEMMA NumbersAfter == TypeOK' => NumbersOK'
BY Numbers, PTL

\* What the broker answers about an order is true of it.
LEMMA AnswersTell ==
  ASSUME NEW b \in [state : BrokerState, filled : Amount], NEW a \in Answers(b)
  PROVE  a.executed = b.filled /\ (a.status = "executed" => b.state = "filled")
<1>1. Internal(b) = "executed" => b.state = "filled"
  BY DEF Internal
<1>2. PICK x \in BOOLEAN : a = [status |-> Internal(b), executed |-> b.filled, priced |-> x]
  BY DEF Answers
<1> QED
  BY <1>1, <1>2

\* An answer that was true stays true.
LEMMA TrueStays ==
  ASSUME TypeOK, TypeOK', AnswersWereTrue, Grows,
         \A q \in Procs : HandlesAnswer(q)' => TrueAnswer(q)' \/ (HandlesAnswer(q) /\ Same(q))
  PROVE  AnswersWereTrue'
<1> SUFFICES ASSUME NEW q \in Procs, HandlesAnswer(q)', HandlesAnswer(q), Same(q)
             PROVE  TrueAnswer(q)'
  BY DEF AnswersWereTrue
<1>1. Current(q)' = Current(q) /\ answer'[q] = answer[q]
  BY DEF Same, Current
<1>2. Current(q) \in Orders
  BY CurrentOrder DEF TypeOK, LocalOK, PcLabel, HandlesAnswer
<1>3. TrueAnswer(q)
  BY DEF AnswersWereTrue
<1>4. /\ answer[q].executed \in Nat /\ broker[Current(q)].filled \in Nat
      /\ broker'[Current(q)].filled \in Nat
  BY <1>2, Numbers, NumbersAfter DEF NumbersOK
<1> QED
  BY <1>1, <1>2, <1>3, <1>4 DEF TrueAnswer, Grows

\* A row that says no more than before is not ahead.
LEMMA RowsStay ==
  ASSUME TypeOK, TypeOK', RowNeverAheadOfBroker, Grows, UNCHANGED recorded,
         \A o \in Orders : /\ row'[o].executed = row[o].executed
                           /\ row'[o].status = "executed" => row[o].status = "executed"
  PROVE  RowNeverAheadOfBroker'
<1> SUFFICES ASSUME NEW o \in Orders
             PROVE  /\ row'[o].executed <= broker'[o].filled
                    /\ row'[o].status = "executed" => broker'[o].state = "filled"
                    /\ \A i \in Shares : recorded[o][i] > 0 => i <= broker'[o].filled
  BY DEF RowNeverAheadOfBroker
<1>1. /\ row[o].executed \in Int /\ broker[o].filled \in Int /\ broker'[o].filled \in Int
      /\ \A i \in Shares : i \in Int
  BY ReconciliationAssumption DEF TypeOK, Amount, Shares
<1> QED
  BY <1>1 DEF RowNeverAheadOfBroker, Grows

\* A step of a process after which it handles no answer.
LEMMA TruthStays ==
  ASSUME TypeOK, TypeOK', TruthInv, NEW p \in Procs, Others(p), ~HandlesAnswer(p)',
         UNCHANGED <<broker, recorded>>,
         \A o \in Orders : /\ row'[o].executed = row[o].executed
                           /\ row'[o].status = "executed" => row[o].status = "executed"
  PROVE  TruthInv'
<1>1. Grows
  BY ReconciliationAssumption DEF Grows, TypeOK, Amount
<1>2. \A q \in Procs : HandlesAnswer(q)' => HandlesAnswer(q) /\ Same(q)
  BY DEF Others, Same, HandlesAnswer
<1>3. AnswersWereTrue'
  BY <1>1, <1>2, TrueStays DEF TruthInv
<1>4. RowNeverAheadOfBroker'
  BY <1>1, RowsStay DEF TruthInv
<1> QED
  BY <1>3, <1>4 DEF TruthInv, UnsentIsUnfilled

\* The write of an answer says what the answer says.
LEMMA WriteTruth ==
  ASSUME TypeOK, TypeOK', TruthInv, NEW p \in Procs, UpdateOrder(p)
  PROVE  TruthInv'
<1>0. LocalOK
  BY DEF TypeOK, LocalOK, PcLabel
<1> DEFINE o == Current(p)
<1>1. o \in Orders /\ HandlesAnswer(p) /\ TrueAnswer(p)
  BY <1>0, CurrentOrder DEF UpdateOrder, HandlesAnswer, TruthInv, AnswersWereTrue
<1>2. Grows
  BY ReconciliationAssumption DEF Grows, TypeOK, Amount, UpdateOrder
<1>3. /\ Others(p)
      /\ \/ pc'[p] \in {"idle", "ask", "fail"}
         \/ pc'[p] = "record" /\ todo'[p] = todo[p] /\ answer'[p] = answer[p]
  BY <1>0, GotoLeaves, RaiseLeaves DEF UpdateOrder
<1>4. AnswersWereTrue'
  <2>1. HandlesAnswer(p)' => TrueAnswer(p)'
    BY <1>1, <1>3 DEF HandlesAnswer, TrueAnswer, Current, UpdateOrder
  <2>2. \A q \in Procs : HandlesAnswer(q)' => TrueAnswer(q)' \/ (HandlesAnswer(q) /\ Same(q))
    BY <1>3, <2>1 DEF Others, Same, HandlesAnswer
  <2> QED
    BY <1>2, <2>2, TrueStays DEF TruthInv
<1>5. RowNeverAheadOfBroker'
  <2>1. CASE UNCHANGED row
    BY <1>2, <2>1, RowsStay DEF TruthInv, UpdateOrder
  <2>2. CASE row' = [row EXCEPT ![o] = Merged(@, answer[p])]
    <3>1. row'[o].executed = answer[p].executed /\ row'[o].status = answer[p].status
      BY <1>1, <2>2 DEF TypeOK, Merged
    <3>2. \A x \in Orders \ {o} : row'[x] = row[x]
      BY <1>1, <2>2 DEF TypeOK
    <3> QED
      BY <1>1, <3>1, <3>2 DEF RowNeverAheadOfBroker, TrueAnswer, UpdateOrder, TruthInv
  <2> QED
    BY <2>1, <2>2 DEF UpdateOrder
<1> QED
  BY <1>4, <1>5 DEF TruthInv, UnsentIsUnfilled, UpdateOrder

\* A recorded fill ends at the quantity of a true answer.
LEMMA RecordTruth ==
  ASSUME TypeOK, TypeOK', TruthInv, NEW p \in Procs, RecordFill(p)
  PROVE  TruthInv'
<1>0. LocalOK
  BY DEF TypeOK, LocalOK, PcLabel
<1> DEFINE o == Current(p)
           fill == FillInterval(previous[p], answer[p])
<1>1. o \in Orders /\ HandlesAnswer(p) /\ TrueAnswer(p)
  BY <1>0, CurrentOrder DEF RecordFill, HandlesAnswer, TruthInv, AnswersWereTrue
<1>2. Grows
  BY ReconciliationAssumption DEF Grows, TypeOK, Amount, RecordFill
<1>3. Others(p) /\ ~HandlesAnswer(p)'
  BY <1>0, NextOrderLeaves, RaiseLeaves DEF RecordFill, HandlesAnswer
<1>4. AnswersWereTrue'
  <2>1. \A q \in Procs : HandlesAnswer(q)' => HandlesAnswer(q) /\ Same(q)
    BY <1>3 DEF Others, Same, HandlesAnswer
  <2> QED
    BY <1>2, <2>1, TrueStays DEF TruthInv
<1>5. RowNeverAheadOfBroker'
  <2>1. CASE UNCHANGED recorded
    BY <1>2, <2>1, RowsStay DEF TruthInv, RecordFill
  <2>2. CASE RecordedWith(fill, o)
    <3>1. /\ \A x \in Orders \ {o} : recorded'[x] = recorded[x]
          /\ \A i \in Shares : i \notin fill => recorded'[o][i] = recorded[o][i]
      BY <1>1, <2>2 DEF RecordedWith, TypeOK
    <3>2. \A i \in fill : i <= broker[o].filled
      <4>1. /\ previous[p].executed \in Nat /\ answer[p].executed \in Nat
            /\ broker[o].filled \in Nat
        BY <1>1, Numbers DEF NumbersOK
      <4> QED
        BY <1>1, <4>1 DEF FillInterval, TrueAnswer
    <3> QED
      BY <3>1, <3>2 DEF RowNeverAheadOfBroker, TruthInv, RecordFill
  <2> QED
    BY <2>1, <2>2 DEF RecordFill
<1> QED
  BY <1>4, <1>5 DEF TruthInv, UnsentIsUnfilled, RecordFill

\* Every step keeps the truth of answers and rows.
LEMMA TruthStep == TypeOK /\ TruthInv /\ [Next]_vars => TruthInv'
<1> SUFFICES ASSUME TypeOK, TypeOK', TruthInv, [Next]_vars
             PROVE  TruthInv'
  BY TypeStep
<1>0. LocalOK
  BY DEF TypeOK, LocalOK, PcLabel
<1>1. ASSUME NEW o \in Orders, BrokerFills(o) \/ BrokerCloses(o)
      PROVE  TruthInv'
  <2>1. Grows /\ UnsentIsUnfilled'
    <3>1. /\ broker'[o].filled \in {broker[o].filled, broker[o].filled + 1}
          /\ broker[o].state \in {"open", "pending_cancel"} /\ broker'[o].state # "none"
          /\ \A x \in Orders \ {o} : broker'[x] = broker[x]
      BY <1>1 DEF BrokerFills, BrokerCloses, Open, TypeOK
    <3> QED
      BY <3>1, Numbers DEF NumbersOK, Grows, TruthInv, UnsentIsUnfilled
  <2>2. UNCHANGED <<row, recorded, pc, todo, answer, previous>>
    BY <1>1 DEF BrokerFills, BrokerCloses, local
  <2>3. AnswersWereTrue'
    BY <2>1, <2>2, TrueStays DEF TruthInv, Same, HandlesAnswer
  <2>4. RowNeverAheadOfBroker'
    BY <2>1, <2>2, RowsStay DEF TruthInv
  <2> QED
    BY <2>1, <2>3, <2>4 DEF TruthInv
<1>2. ASSUME NEW p \in Procs, ListInFlightOrders(p)
      PROVE  TruthInv'
  BY <1>0, <1>2, BeginLeaves, TruthStays DEF ListInFlightOrders, HandlesAnswer
<1>3. ASSUME NEW p \in Procs, GetOrderStatus(p)
      PROVE  TruthInv'
  <2>1. CASE NextOrder(p)
    BY <1>0, <1>3, <2>1, NextOrderLeaves, TruthStays DEF GetOrderStatus, HandlesAnswer
  <2>2. CASE ~NextOrder(p)
    <3>1. Current(p) \in Orders /\ broker[Current(p)] \in [state : BrokerState, filled : Amount]
      BY <1>0, <1>3, CurrentOrder DEF GetOrderStatus, TypeOK
    <3>2. /\ Others(p) /\ todo' = todo /\ UNCHANGED <<broker, row, recorded>>
          /\ answer'[p] \in Answers(broker[Current(p)])
      BY <1>0, <1>3, <2>2 DEF GetOrderStatus, LocalOK, Others, Same
    <3>3. TrueAnswer(p)'
      BY <3>1, <3>2, AnswersTell, Numbers DEF TrueAnswer, Current, NumbersOK
    <3>4. Grows
      BY <3>2, Numbers DEF Grows, NumbersOK
    <3>5. AnswersWereTrue'
      BY <3>2, <3>3, <3>4, TrueStays DEF TruthInv, Others, Same, HandlesAnswer
    <3> QED
      BY <3>2, <3>4, <3>5, RowsStay DEF TruthInv, UnsentIsUnfilled
  <2> QED
    BY <2>1, <2>2
<1>4. ASSUME NEW p \in Procs, ReadPreviousOrder(p)
      PROVE  TruthInv'
  <2>1. CASE Raise(p)
    BY <1>0, <1>4, <2>1, RaiseLeaves, TruthStays DEF ReadPreviousOrder, HandlesAnswer
  <2>2. CASE ~Raise(p)
    <3>1. /\ \A q \in Procs \ {p} : Same(q)
          /\ pc[p] = "read" /\ answer' = answer /\ todo' = todo
          /\ UNCHANGED <<broker, row, recorded>>
      BY <1>0, <1>4, <2>2 DEF ReadPreviousOrder, LocalOK, Same
    <3>2. TrueAnswer(p)'
      BY <3>1 DEF TruthInv, AnswersWereTrue, HandlesAnswer, TrueAnswer, Current
    <3>3. Grows
      BY <3>1, Numbers DEF Grows, NumbersOK
    <3>4. AnswersWereTrue'
      BY <3>1, <3>2, <3>3, TrueStays DEF TruthInv, Same, HandlesAnswer
    <3> QED
      BY <3>1, <3>3, <3>4, RowsStay DEF TruthInv, UnsentIsUnfilled
  <2> QED
    BY <2>1, <2>2
<1>5. ASSUME NEW p \in Procs, UpdateOrder(p)
      PROVE  TruthInv'
  BY <1>5, WriteTruth
<1>6. ASSUME NEW p \in Procs, RecordFill(p)
      PROVE  TruthInv'
  BY <1>6, RecordTruth
<1>7. ASSUME NEW p \in Procs, MarkOrderFailed(p) \/ WriteCancelled(p)
      PROVE  TruthInv'
  <2>1. Others(p) /\ ~HandlesAnswer(p)'
    BY <1>0, <1>7, NextOrderLeaves DEF MarkOrderFailed, WriteCancelled, HandlesAnswer
  <2>2. \A o \in Orders : /\ row'[o].executed = row[o].executed
                          /\ row'[o].status = "executed" => row[o].status = "executed"
    <3>1. CASE UNCHANGED row
      BY <3>1
    <3>2. ASSUME NEW s \in {"failed", "cancelled"}, row' = [row EXCEPT ![Current(p)].status = s]
          PROVE  \A o \in Orders : /\ row'[o].executed = row[o].executed
                                   /\ row'[o].status = "executed" => row[o].status = "executed"
      BY <3>2 DEF TypeOK
    <3> QED
      BY <1>7, <3>1, <3>2 DEF MarkOrderFailed, WriteCancelled
  <2> QED
    BY <1>7, <2>1, <2>2, TruthStays DEF MarkOrderFailed, WriteCancelled
<1>8. ASSUME NEW p \in Procs, CancelAtBroker(p)
      PROVE  TruthInv'
  <2>1. Others(p) /\ ~HandlesAnswer(p)'
    BY <1>0, <1>8, GotoLeaves, NextOrderLeaves DEF CancelAtBroker, HandlesAnswer
  <2>2. Grows /\ UnsentIsUnfilled'
    <3>1. CASE UNCHANGED broker
      BY <3>1, Numbers DEF Grows, NumbersOK, TruthInv, UnsentIsUnfilled
    <3>2. CASE /\ broker[Current(p)].state = "open"
               /\ broker' = [broker EXCEPT ![Current(p)].state = "pending_cancel"]
      BY <3>2, Numbers DEF Grows, NumbersOK, TruthInv, UnsentIsUnfilled, TypeOK
    <3> QED
      BY <1>8, <3>1, <3>2 DEF CancelAtBroker
  <2>3. UNCHANGED <<row, recorded>>
    BY <1>8 DEF CancelAtBroker
  <2>4. AnswersWereTrue'
    BY <2>1, <2>2, TrueStays DEF TruthInv, Others, Same, HandlesAnswer
  <2> QED
    BY <2>2, <2>3, <2>4, RowsStay DEF TruthInv
<1>9. ASSUME NEW p \in Procs, Crash(p)
      PROVE  TruthInv'
  BY <1>0, <1>9, CrashLeaves, TruthStays DEF Crash, HandlesAnswer
<1>10. ASSUME NEW p \in Procs, NEW o \in Orders, PlaceOrder(p, o)
       PROVE  TruthInv'
  <2>1. PICK n \in Amount :
          LET b == [state |-> IF n = Quantity THEN "filled" ELSE "open", filled |-> n] IN
          /\ broker' = [broker EXCEPT ![o] = b]
          /\ \E a \in Answers(b) : answer' = [answer EXCEPT ![p] = a]
    BY <1>10 DEF PlaceOrder
  <2> DEFINE b == [state |-> IF n = Quantity THEN "filled" ELSE "open", filled |-> n]
  <2>2. b \in [state : BrokerState, filled : Amount] /\ b.state # "none" /\ b.filled \in Nat
    BY AmountsAreNumbers DEF BrokerState
  <2>3. /\ broker'[o] = b /\ \A x \in Orders \ {o} : broker'[x] = broker[x]
        /\ answer'[p] \in Answers(b)
    BY <2>1 DEF TypeOK
  <2> HIDE DEF b
  <2>4. Grows /\ UnsentIsUnfilled'
    BY <1>10, <2>2, <2>3, Numbers DEF PlaceOrder, Grows, NumbersOK, TruthInv, UnsentIsUnfilled
  <2>5. /\ Others(p) /\ pc'[p] = "read" /\ todo'[p] = {o}
        /\ UNCHANGED <<row, recorded>>
    BY <1>0, <1>10 DEF PlaceOrder, Begin, LocalOK, Others, Same
  <2>6. Current(p)' = o
    <3>1. {o} \in SUBSET Nat
      BY ReconciliationAssumption
    <3> QED
      BY <2>5, <3>1, LeastOrder DEF Current
  <2>7. TrueAnswer(p)'
    BY <2>2, <2>3, <2>6, AnswersTell DEF TrueAnswer
  <2>8. AnswersWereTrue'
    BY <2>4, <2>5, <2>7, TrueStays DEF TruthInv, Others, Same, HandlesAnswer
  <2> QED
    BY <2>4, <2>5, <2>8, RowsStay DEF TruthInv
<1>11. ASSUME NEW p \in Procs, NEW o \in Orders, RefreshOrderStatus(p, o)
       PROVE  TruthInv'
  BY <1>0, <1>11, BeginLeaves, TruthStays DEF RefreshOrderStatus, HandlesAnswer
<1>12. ASSUME NEW p \in Procs, NEW o \in Orders, BeginCancel(p, o)
       PROVE  TruthInv'
  BY <1>0, <1>12, BeginLeaves, TruthStays DEF BeginCancel, HandlesAnswer
<1>13. CASE UNCHANGED vars
  <2>1. Grows /\ \A q \in Procs : Same(q)
    BY <1>13, Numbers DEF vars, Grows, NumbersOK, Same
  <2>2. AnswersWereTrue'
    BY <1>13, <2>1, TrueStays DEF TruthInv, vars, HandlesAnswer
  <2> QED
    BY <1>13, <2>1, <2>2, RowsStay DEF TruthInv, UnsentIsUnfilled, vars
<1> QED
  BY <1>1, <1>2, <1>3, <1>4, <1>5, <1>6, <1>7, <1>8, <1>9, <1>10, <1>11, <1>12, <1>13
     DEF Next, Continue, Request

\* At first nothing was answered, filled or recorded.
LEMMA TruthInit == Init => TruthInv
<1> SUFFICES ASSUME Init
             PROVE  TruthInv
  OBVIOUS
<1>1. AnswersWereTrue
  BY DEF Init, AnswersWereTrue, HandlesAnswer
<1>2. UnsentIsUnfilled /\ RowNeverAheadOfBroker
  BY DEF Init, UnsentIsUnfilled, RowNeverAheadOfBroker
<1> QED
  BY <1>1, <1>2 DEF TruthInv

\* With any number of updaters, stale answers and every failure, the row never claims
\* more than the broker did.
THEOREM RowsNeverAhead == Spec => []RowNeverAheadOfBroker
<1>1. TruthInv => RowNeverAheadOfBroker
  BY DEF TruthInv
<1> QED
  BY <1>1, TruthInit, TruthStep, ReconciliationTypes, PTL DEF Spec

----------------------------------------------------------------------------
(* With one updater no share is recorded twice. *)

Updaters == Sweepers \cup Readers

\* The quantities, the average and the id in every row stay.
RowsKept ==
  \A o \in Orders : /\ row'[o].executed = row[o].executed
                    /\ row'[o].averageOf = row[o].averageOf
                    /\ row'[o].bid = row[o].bid

\* Process q is at a step, suited to its role, at which it handles no answer; the orders
\* it took up have a row.
Retired(q) ==
  /\ pc'[q] \in IF q \in Submitters THEN {"idle", "fail"}
                ELSE IF q \in Cancellers THEN {"idle", "cancel", "confirm"}
                ELSE {"idle", "ask"}
  /\ \A o \in todo'[q] : o \in todo[q] \/ (q \notin Submitters /\ row[o].bid)
  /\ q \in Submitters \cup Cancellers => \A o \in todo'[q] : todo'[q] = {o}
  /\ previous'[q] \in {previous[q], NoCheckpoint}

\* A submitter or canceller is done after its only order.
LEMMA NextOrderRetires ==
  ASSUME TypeOK, Roles, OneSubmitter, NEW p \in Procs, pc[p] # "idle", NextOrder(p)
  PROVE  Others(p) /\ Retired(p)
<1>0. LocalOK
  BY DEF TypeOK, LocalOK, PcLabel
<1>1. /\ Others(p) /\ pc'[p] \in {"idle", "ask"} /\ todo'[p] \subseteq todo[p]
      /\ previous'[p] = NoCheckpoint
  BY <1>0, NextOrderLeaves
<1>2. p \in Submitters \cup Cancellers => pc'[p] = "idle" /\ todo'[p] = {}
  <2>1. Current(p) \in todo[p]
    BY <1>0, CurrentOrder
  <2> QED
    BY <2>1 DEF OneSubmitter, NextOrder, TypeOK
<1> QED
  BY <1>1, <1>2 DEF Retired

\* So is everybody who raises, but for a submitter, who marks the order failed.
LEMMA RaiseRetires ==
  ASSUME TypeOK, Roles, OneSubmitter, NEW p \in Procs, pc[p] # "idle", Raise(p)
  PROVE  Others(p) /\ Retired(p)
<1>0. LocalOK
  BY DEF TypeOK, LocalOK, PcLabel
<1>1. CASE p \in Submitters /\ Goto(p, "fail")
  BY <1>0, <1>1, GotoLeaves DEF Retired, OneSubmitter
<1>2. CASE NextOrder(p)
  BY <1>2, NextOrderRetires
<1> QED
  BY <1>1, <1>2 DEF Raise

\* A step at which nobody takes an answer further leaves the others' answers alone.
LEMMA HandlersStay ==
  ASSUME TypeOK, TypeOK', \A q \in Procs : Same(q) \/ Retired(q)
  PROVE  \A q \in Procs : pc'[q] \in {"read", "write", "record"} =>
           Same(q) /\ Current(q)' = Current(q) /\ Current(q) \in Orders
<1>0. LocalOK /\ LocalOK'
  BY DEF TypeOK, LocalOK, PcLabel
<1> QED
  BY <1>0, CurrentOrder, ReconciliationAssumption DEF Same, Retired, Current, Procs, LocalOK

\* Such a step keeps who works on what, and the checkpoints.
LEMMA WorkStays ==
  ASSUME TypeOK, TypeOK', UpdaterInv, RowsKept,
         \A o \in Orders : broker'[o].state = "none" <=> broker[o].state = "none",
         \A q \in Procs : Same(q) \/ Retired(q)
  PROVE  Roles' /\ OneSubmitter' /\ RowsFirst' /\ CheckpointHeld' /\ AveragesMatch'
<1>0. LocalOK /\ LocalOK' /\ NoCheckpoint.executed = 0
  BY DEF TypeOK, LocalOK, PcLabel, NoCheckpoint
<1>1. \A q \in Procs : pc'[q] \in {"read", "write", "record"} =>
        Same(q) /\ Current(q)' = Current(q) /\ Current(q) \in Orders
  BY HandlersStay
<1>2. Roles'
  BY ReconciliationAssumption DEF UpdaterInv, Roles, Same, Retired, Procs
<1>3. OneSubmitter'
  BY <1>0 DEF UpdaterInv, OneSubmitter, Same, Retired, Procs, LocalOK
<1>4. RowsFirst'
  <2>1. \A q \in Procs \ Submitters : \A o \in todo'[q] : row'[o].bid
    BY <1>0 DEF UpdaterInv, RowsFirst, Same, Retired, RowsKept, LocalOK
  <2>2. \A q \in Submitters : pc'[q] \in {"read", "write"} => ~row'[Current(q)'].bid
    BY <1>1 DEF UpdaterInv, RowsFirst, Same, RowsKept, Procs
  <2> QED
    BY <2>1, <2>2 DEF UpdaterInv, RowsFirst, RowsKept
<1>5. CheckpointHeld'
  BY <1>1 DEF UpdaterInv, CheckpointHeld, CheckpointHeldBy, Same, RowsKept
<1>6. AveragesMatch'
  BY <1>0 DEF UpdaterInv, AveragesMatch, Same, Retired, RowsKept
<1> QED
  BY <1>2, <1>3, <1>4, <1>5, <1>6

\* And the fills, unless one is recorded.
LEMMA UpdaterStays ==
  ASSUME TypeOK, TypeOK', UpdaterInv, RowsKept, UNCHANGED recorded,
         \A o \in Orders : broker'[o].state = "none" <=> broker[o].state = "none",
         \A q \in Procs : Same(q) \/ Retired(q)
  PROVE  UpdaterInv'
<1>1. FillsDisjoint'
  BY HandlersStay DEF UpdaterInv, FillsDisjoint, Fill, Same, RowsKept
<1> QED
  BY <1>1, WorkStays DEF UpdaterInv, NoShareRecordedTwice

\* Who is at an order while somebody reads or writes its checkpoint: at most its
\* submitter, who records the first fill.
LEMMA CheckpointAlone ==
  ASSUME TypeOK, LoneUpdater, Roles, OneSubmitter, RowsFirst, NEW p \in Procs, NEW q \in Procs, p # q,
         pc[p] \in {"read", "write"}, HandlesAnswer(q), Current(p) = Current(q)
  PROVE  p \notin Submitters /\ q \in Submitters /\ pc[q] = "record"
<1>0. LocalOK
  BY DEF TypeOK, LocalOK, PcLabel
<1>1. Current(p) \in todo[p] /\ Current(p) \in todo[q]
  BY <1>0, CurrentOrder DEF HandlesAnswer
<1>2. p \notin Cancellers /\ q \notin Cancellers
  BY DEF Roles, HandlesAnswer
<1>3. ~(p \in Submitters /\ q \in Submitters)
  BY <1>1 DEF OneSubmitter
<1>4. ~(p \notin Submitters /\ q \notin Submitters)
  BY <1>2 DEF LoneUpdater, Procs
<1>5. ~(p \in Submitters /\ q \notin Submitters)
  BY <1>1 DEF RowsFirst
<1>6. p \notin Submitters /\ q \in Submitters => row[Current(q)].bid
  BY <1>1 DEF RowsFirst
<1> QED
  BY <1>3, <1>4, <1>5, <1>6 DEF RowsFirst, HandlesAnswer

\* An answer becomes the row: the checkpoint moves up, past every recorded fill.
LEMMA WriteKeeps ==
  ASSUME TypeOK, TypeOK', LoneUpdater, UpdaterInv, NEW p \in Procs, UpdateOrder(p)
  PROVE  UpdaterInv' /\ \A o \in Orders : row[o].executed <= row'[o].executed
<1>0. LocalOK /\ LocalOK'
  BY DEF TypeOK, LocalOK, PcLabel
<1> DEFINE o == Current(p)
<1>1. o \in Orders /\ o \in todo[p] /\ pc[p] = "write" /\ UNCHANGED <<broker, recorded>>
  BY <1>0, CurrentOrder DEF UpdateOrder
<1>2. CASE Raise(p) /\ UNCHANGED row
  <2>1. Others(p) /\ Retired(p)
    BY <1>1, <1>2, RaiseRetires DEF UpdaterInv
  <2>2. UpdaterInv'
    BY <1>1, <1>2, <2>1, UpdaterStays DEF Others, RowsKept
  <2> QED
    BY <1>2, <2>2, Numbers DEF NumbersOK
<1>3. CASE row' = [row EXCEPT ![o] = Merged(@, answer[p])]
  <2>1. /\ row'[o].executed = answer[p].executed /\ row'[o].bid = TRUE
        /\ row'[o].averageOf = IF answer[p].priced THEN answer[p].executed ELSE row[o].averageOf
        /\ \A x \in Orders \ {o} : row'[x] = row[x]
    BY <1>1, <1>3 DEF TypeOK, Merged
  <2>2. /\ row[o].executed <= answer[p].executed
        /\ previous[p].executed = row[o].executed /\ previous[p].averageOf = row[o].averageOf
        /\ ~EvidenceMissing(previous[p], answer[p])
    BY <1>1 DEF UpdaterInv, CheckpointHeld, CheckpointHeldBy
  <2>3. \A x \in Orders : row[x].executed <= row'[x].executed
    BY <2>1, <2>2, Numbers DEF NumbersOK
  <2>4. /\ Others(p)
        /\ \/ pc'[p] = "record" /\ todo'[p] = todo[p] /\ answer'[p] = answer[p] /\ previous'[p] = previous[p]
           \/ Retired(p)
    BY <1>0, <1>1, GotoLeaves, RaiseRetires DEF UpdateOrder, UpdaterInv
  <2>5. \A q \in Procs \ {p} : HandlesAnswer(q)' => HandlesAnswer(q) /\ Current(q)' = Current(q) /\ Current(q) \in Orders
    BY <1>0, <2>4, CurrentOrder DEF Others, Same, Current, HandlesAnswer
  <2>6. \A q \in Procs \ {p} : HandlesAnswer(q) /\ Current(q) = o => pc[q] = "record"
    BY <1>1, CheckpointAlone DEF UpdaterInv
  <2>7. Roles'
    BY <2>4, ReconciliationAssumption DEF UpdaterInv, Roles, Others, Same, Retired, Procs, HandlesAnswer, UpdateOrder
  <2>8. OneSubmitter'
    <3>1. \A q \in Procs : todo'[q] \subseteq todo[q]
      <4>1. CASE Retired(p)
        BY <1>0, <1>1, <2>4, <4>1, GotoLeaves, RaiseLeaves DEF UpdateOrder, Others, Same
      <4>2. CASE ~Retired(p)
        BY <2>4, <4>2 DEF Others, Same
      <4> QED
        BY <4>1, <4>2
    <3> QED
      BY <1>1, <3>1 DEF UpdaterInv, OneSubmitter, Procs
  <2>9. RowsFirst'
    <3>1. \A x \in Orders : row[x].bid => row'[x].bid
      BY <2>1
    <3>2. \A q \in Procs \ Submitters : \A x \in todo'[q] : row'[x].bid
      BY <1>0, <2>4, <3>1 DEF UpdaterInv, RowsFirst, Others, Same, Retired, LocalOK
    <3>3. ASSUME NEW q \in Submitters, pc'[q] \in {"read", "write"}
          PROVE  ~row'[Current(q)'].bid
      <4>1. q \in Procs /\ q # p
        BY <2>4, <3>3 DEF Procs, Retired
      <4>2. pc[q] \in {"read", "write"} /\ Current(q)' = Current(q) /\ Current(q) \in Orders
        BY <2>4, <2>5, <3>3, <4>1 DEF Others, Same, HandlesAnswer
      <4>3. Current(q) # o
        BY <2>6, <4>1, <4>2 DEF HandlesAnswer
      <4> QED
        BY <2>1, <3>3, <4>2, <4>3 DEF UpdaterInv, RowsFirst
    <3>4. \A x \in Orders : ~row'[x].bid => row'[x].executed = 0
      BY <2>1 DEF UpdaterInv, RowsFirst
    <3>5. broker[o].state # "none"
      BY <1>1 DEF UpdaterInv, OneSubmitter, RowsFirst
    <3> QED
      BY <1>1, <2>1, <3>2, <3>3, <3>4, <3>5 DEF UpdaterInv, RowsFirst
  <2>10. CheckpointHeld'
    <3> SUFFICES ASSUME NEW q \in Procs, pc'[q] \in {"read", "write"}
                 PROVE  CheckpointHeldBy(q)'
      BY DEF CheckpointHeld, CheckpointHeldBy
    <3>1. q # p
      BY <2>4 DEF Retired
    <3>2. Same(q) /\ HandlesAnswer(q) /\ Current(q)' = Current(q) /\ Current(q) \in Orders
      BY <2>4, <2>5, <3>1 DEF Others, HandlesAnswer
    <3>3. Current(q) # o
      BY <2>6, <3>1, <3>2 DEF Same
    <3> QED
      BY <2>1, <3>2, <3>3 DEF UpdaterInv, CheckpointHeld, CheckpointHeldBy, Same
  <2>11. AveragesMatch'
    <3>1. row'[o].executed \in {0, row'[o].averageOf}
      <4>1. CASE answer[p].priced
        BY <2>1, <4>1
      <4>2. CASE ~answer[p].priced
        <5>1. ~(answer[p].executed > previous[p].executed)
          BY <2>2, <4>2 DEF EvidenceMissing, HasFill
        <5>2. row'[o].executed = row[o].executed
          BY <1>1, <2>1, <2>2, <5>1, Numbers DEF NumbersOK
        <5> QED
          BY <1>1, <2>1, <4>2, <5>2 DEF UpdaterInv, AveragesMatch
      <4> QED
        BY <4>1, <4>2
    <3>2. \A q \in Procs : previous'[q].executed \in {0, previous'[q].averageOf}
      BY <2>4 DEF UpdaterInv, AveragesMatch, Others, Same, Retired, NoCheckpoint
    <3> QED
      BY <2>1, <3>1, <3>2 DEF UpdaterInv, AveragesMatch
  <2>12. FillsDisjoint'
    <3>1. \A x \in Orders : \A i \in Shares : recorded'[x][i] > 0 => i <= row'[x].executed
      BY <1>1, <2>3, Numbers, NumbersAfter, AmountsAreNumbers DEF UpdaterInv, FillsDisjoint, NumbersOK
    <3>2. \A q \in Procs \ {p} : pc'[q] = "record" =>
            /\ pc[q] = "record" /\ Fill(q)' = Fill(q)
            /\ Current(q)' = Current(q) /\ Current(q) \in Orders /\ answer'[q] = answer[q]
      BY <2>4, <2>5 DEF Others, Same, Fill, HandlesAnswer
    <3>3. \A q \in Procs : pc[q] = "record" /\ Current(q) = o =>
            \A i \in Shares : i \in Fill(q) => i <= row[o].executed
      BY <1>1, Numbers, AmountsAreNumbers DEF UpdaterInv, FillsDisjoint, Fill, FillInterval, NumbersOK
    <3>4. pc'[p] = "record" => Fill(p)' = Fill(p) /\ Current(p)' = o /\ answer'[p] = answer[p]
      BY <2>4 DEF Retired, Fill, Current
    <3>5. \A i \in Shares : i \in Fill(p) => i > row[o].executed
      BY <1>1, <2>2, Numbers, AmountsAreNumbers DEF Fill, FillInterval, NumbersOK
    <3>6. ASSUME NEW q \in Procs, pc'[q] = "record"
          PROVE  /\ answer'[q].executed <= row'[Current(q)'].executed
                 /\ \A i \in Shares : i \in Fill(q)' => recorded'[Current(q)'][i] = 0
      <4>1. CASE q = p
        <5>1. answer[p].executed <= row'[o].executed
          BY <2>1, Numbers DEF NumbersOK
        <5>2. \A i \in Shares : i \in Fill(p) => recorded[o][i] = 0
          BY <1>1, <3>5, Numbers, AmountsAreNumbers DEF UpdaterInv, FillsDisjoint, NumbersOK
        <5> QED
          BY <1>1, <3>4, <3>6, <4>1, <5>1, <5>2
      <4>2. CASE q # p
        <5>1. /\ answer[q].executed <= row[Current(q)].executed
              /\ \A i \in Shares : i \in Fill(q) => recorded[Current(q)][i] = 0
          BY <3>2, <3>6, <4>2 DEF UpdaterInv, FillsDisjoint
        <5>2. answer[q].executed <= row'[Current(q)].executed
          BY <2>3, <3>2, <3>6, <4>2, <5>1, Numbers, NumbersAfter DEF NumbersOK
        <5> QED
          BY <1>1, <3>2, <3>6, <4>2, <5>1, <5>2
      <4> QED
        BY <4>1, <4>2
    <3>7. ASSUME NEW q \in Procs \ {p}, pc'[p] = "record", pc'[q] = "record", Current(p)' = Current(q)'
          PROVE  \A i \in Shares : ~(i \in Fill(p)' /\ i \in Fill(q)')
      <4> SUFFICES ASSUME NEW i \in Shares, i \in Fill(p)', i \in Fill(q)'
                   PROVE  FALSE
        OBVIOUS
      <4>1. i > row[o].executed
        BY <3>4, <3>5, <3>7
      <4>2. i <= row[o].executed
        BY <3>2, <3>3, <3>4, <3>7
      <4> QED
        BY <1>1, <4>1, <4>2, Numbers, AmountsAreNumbers DEF NumbersOK
    <3>8. ASSUME NEW q \in Procs \ {p}, NEW x \in Procs \ {p}, q # x,
                 pc'[x] = "record", pc'[q] = "record", Current(x)' = Current(q)'
          PROVE  \A i \in Shares : ~(i \in Fill(x)' /\ i \in Fill(q)')
      BY <3>2, <3>8 DEF UpdaterInv, FillsDisjoint
    <3>9. \A x, q \in Procs : pc'[x] = "record" /\ pc'[q] = "record" /\ Current(x)' = Current(q)' /\ x # q =>
            \A i \in Shares : ~(i \in Fill(x)' /\ i \in Fill(q)')
      BY <3>7, <3>8
    <3> QED
      BY <3>1, <3>6, <3>9 DEF FillsDisjoint
  <2> QED
    BY <1>1, <2>3, <2>7, <2>8, <2>9, <2>10, <2>11, <2>12 DEF UpdaterInv, NoShareRecordedTwice
<1> QED
  BY <1>2, <1>3 DEF UpdateOrder

\* A recorded fill is of shares that no fill had, and no other one will have.
LEMMA RecordKeeps ==
  ASSUME TypeOK, TypeOK', UpdaterInv, NEW p \in Procs, RecordFill(p)
  PROVE  UpdaterInv'
<1>0. LocalOK
  BY DEF TypeOK, LocalOK, PcLabel
<1> DEFINE o == Current(p)
<1>1. /\ o \in Orders /\ pc[p] = "record" /\ UNCHANGED <<broker, row>>
      /\ Others(p) /\ Retired(p)
  BY <1>0, CurrentOrder, NextOrderRetires, RaiseRetires DEF RecordFill, UpdaterInv
<1>2. CASE UNCHANGED recorded
  BY <1>1, <1>2, UpdaterStays DEF Others, RowsKept
<1>3. CASE RecordedWith(Fill(p), o)
  <2>1. /\ \A x \in Orders \ {o} : recorded'[x] = recorded[x]
        /\ \A i \in Shares : recorded'[o][i] = IF i \in Fill(p) THEN recorded[o][i] + 1 ELSE recorded[o][i]
    BY <1>1, <1>3 DEF RecordedWith, TypeOK
  <2>2. /\ answer[p].executed <= row[o].executed
        /\ \A i \in Shares : i \in Fill(p) => recorded[o][i] = 0
    BY <1>1 DEF UpdaterInv, FillsDisjoint
  <2>3. Roles' /\ OneSubmitter' /\ RowsFirst' /\ CheckpointHeld' /\ AveragesMatch'
    BY <1>1, WorkStays DEF Others, RowsKept
  <2>4. \A i \in Shares : i \in Fill(p) => i <= row[o].executed
    BY <1>1, <2>2, Numbers, AmountsAreNumbers DEF Fill, FillInterval, NumbersOK
  <2>5. \A q \in Procs : pc'[q] = "record" =>
          /\ q # p /\ pc[q] = "record" /\ Fill(q)' = Fill(q) /\ answer'[q] = answer[q]
          /\ Current(q)' = Current(q) /\ Current(q) \in Orders
    BY <1>1, HandlersStay DEF Others, Same, Retired, Fill
  <2>6. \A x \in Orders : \A i \in Shares : recorded'[x][i] > 0 => i <= row[x].executed
    BY <1>1, <2>1, <2>4 DEF UpdaterInv, FillsDisjoint
  <2>7. ASSUME NEW q \in Procs, pc'[q] = "record"
        PROVE  /\ answer'[q].executed <= row'[Current(q)'].executed
               /\ \A i \in Shares : i \in Fill(q)' => recorded'[Current(q)'][i] = 0
    <3>1. CASE Current(q) = o
      BY <1>1, <2>1, <2>5, <2>7, <3>1 DEF UpdaterInv, FillsDisjoint
    <3>2. CASE Current(q) # o
      BY <1>1, <2>1, <2>5, <2>7, <3>2 DEF UpdaterInv, FillsDisjoint
    <3> QED
      BY <3>1, <3>2
  <2>8. \A x, q \in Procs : pc'[x] = "record" /\ pc'[q] = "record" /\ Current(x)' = Current(q)' /\ x # q =>
          \A i \in Shares : ~(i \in Fill(x)' /\ i \in Fill(q)')
    BY <2>5 DEF UpdaterInv, FillsDisjoint
  <2>9. FillsDisjoint'
    BY <1>1, <2>6, <2>7, <2>8 DEF FillsDisjoint
  <2>10. NoShareRecordedTwice'
    <3>1. \A i \in Shares : recorded'[o][i] <= 1
      BY <1>1, <2>1, <2>2 DEF UpdaterInv, NoShareRecordedTwice
    <3> QED
      BY <2>1, <3>1 DEF UpdaterInv, NoShareRecordedTwice
  <2> QED
    BY <2>3, <2>9, <2>10 DEF UpdaterInv
<1> QED
  BY <1>2, <1>3 DEF RecordFill, Fill

\* Every step keeps the invariant.
LEMMA UpdaterStep ==
  ASSUME LoneUpdater, TypeOK, TruthInv, UpdaterInv, [Next]_vars
  PROVE  UpdaterInv'
<1>0. TypeOK' /\ LocalOK
  BY TypeStep DEF TypeOK, LocalOK, PcLabel
<1>1. ASSUME NEW o \in Orders, BrokerFills(o) \/ BrokerCloses(o)
      PROVE  UpdaterInv'
  <2>1. \A x \in Orders : broker'[x].state = "none" <=> broker[x].state = "none"
    <3>1. /\ broker[o].state # "none" /\ broker'[o].state # "none"
          /\ \A x \in Orders \ {o} : broker'[x] = broker[x]
      BY <1>1 DEF BrokerFills, BrokerCloses, Open, TypeOK
    <3> QED
      BY <3>1
  <2> QED
    BY <1>0, <1>1, <2>1, UpdaterStays DEF BrokerFills, BrokerCloses, local, Same, RowsKept
<1>2. ASSUME NEW p \in Procs, ListInFlightOrders(p)
      PROVE  UpdaterInv'
  <2>1. Others(p) /\ UNCHANGED <<broker, row, recorded>>
    BY <1>0, <1>2, BeginLeaves DEF ListInFlightOrders
  <2>2. Retired(p)
    BY <1>0, <1>2, BeginLeaves, ReconciliationAssumption DEF ListInFlightOrders, Retired
  <2> QED
    BY <1>0, <2>1, <2>2, UpdaterStays DEF Others, RowsKept
<1>3. ASSUME NEW p \in Procs, GetOrderStatus(p)
      PROVE  UpdaterInv'
  <2>1. CASE NextOrder(p)
    <3>1. Others(p) /\ Retired(p)
      BY <1>3, <2>1, NextOrderRetires DEF GetOrderStatus, UpdaterInv
    <3> QED
      BY <1>0, <1>3, <3>1, UpdaterStays DEF GetOrderStatus, Others, RowsKept
  <2>2. CASE ~NextOrder(p)
    <3>1. /\ Current(p) \in Orders /\ Current(p) \in todo[p]
          /\ broker[Current(p)] \in [state : BrokerState, filled : Amount]
      BY <1>0, <1>3, CurrentOrder DEF GetOrderStatus, TypeOK
    <3>2. /\ Others(p) /\ UNCHANGED <<broker, row, recorded, todo, previous>>
          /\ pc[p] = "ask" /\ pc'[p] = "read" /\ Current(p)' = Current(p)
          /\ answer'[p] \in Answers(broker[Current(p)])
      BY <1>0, <1>3, <2>2 DEF GetOrderStatus, LocalOK, Others, Same, Current
    <3>3. p \notin Submitters /\ p \notin Cancellers
      BY <3>2 DEF UpdaterInv, Roles
    <3>4. row[Current(p)].executed <= answer'[p].executed
      BY <3>1, <3>2, AnswersTell DEF TruthInv, RowNeverAheadOfBroker
    <3>5. \A q \in Procs \ {p} : Same(q) /\ Current(q)' = Current(q) /\ Fill(q)' = Fill(q)
      BY <3>2 DEF Others, Same, Current, Fill
    <3>6. Roles' /\ OneSubmitter' /\ RowsFirst'
      BY <3>2, <3>3, <3>5 DEF UpdaterInv, Roles, OneSubmitter, RowsFirst, Same, Procs
    <3>7. CheckpointHeld'
      BY <3>2, <3>4, <3>5 DEF UpdaterInv, CheckpointHeld, CheckpointHeldBy, Same
    <3>8. AveragesMatch' /\ FillsDisjoint'
      BY <3>2, <3>5 DEF UpdaterInv, AveragesMatch, FillsDisjoint, Same
    <3> QED
      BY <3>2, <3>6, <3>7, <3>8 DEF UpdaterInv, NoShareRecordedTwice
  <2> QED
    BY <2>1, <2>2
<1>4. ASSUME NEW p \in Procs, ReadPreviousOrder(p)
      PROVE  UpdaterInv'
  <2>1. CASE Raise(p)
    <3>1. Others(p) /\ Retired(p)
      BY <1>4, <2>1, RaiseRetires DEF ReadPreviousOrder, UpdaterInv
    <3> QED
      BY <1>0, <1>4, <3>1, UpdaterStays DEF ReadPreviousOrder, Others, RowsKept
  <2>2. CASE ~Raise(p)
    <3> DEFINE o == Current(p)
               before == [executed |-> row[o].executed, averageOf |-> row[o].averageOf]
    <3>1. o \in Orders
      BY <1>0, <1>4, CurrentOrder DEF ReadPreviousOrder
    <3>2. /\ Others(p) /\ UNCHANGED <<broker, row, recorded, todo, answer>>
          /\ pc[p] = "read" /\ pc'[p] = "write" /\ Current(p)' = o
          /\ previous'[p] = before /\ ~EvidenceMissing(before, answer[p])
      BY <1>0, <1>4, <2>2 DEF ReadPreviousOrder, LocalOK, Others, Same, Current
    <3>3. \A q \in Procs \ {p} : Same(q) /\ Current(q)' = Current(q) /\ Fill(q)' = Fill(q)
      BY <3>2 DEF Others, Same, Current, Fill
    <3>4. Roles' /\ OneSubmitter' /\ RowsFirst'
      BY <3>2, <3>3 DEF UpdaterInv, Roles, OneSubmitter, RowsFirst, Same, Procs
    <3>5. CheckpointHeld'
      <4>1. row[o].executed <= answer[p].executed
        BY <3>2 DEF UpdaterInv, CheckpointHeld, CheckpointHeldBy
      <4>2. CheckpointHeldBy(p)'
        BY <3>2, <4>1 DEF CheckpointHeldBy, EvidenceMissing, HasFill
      <4> QED
        BY <3>2, <3>3, <4>2 DEF UpdaterInv, CheckpointHeld, CheckpointHeldBy, Same
    <3>6. AveragesMatch' /\ FillsDisjoint'
      BY <3>1, <3>2, <3>3 DEF UpdaterInv, AveragesMatch, FillsDisjoint, Same
    <3> QED
      BY <3>2, <3>4, <3>5, <3>6 DEF UpdaterInv, NoShareRecordedTwice
  <2> QED
    BY <2>1, <2>2
<1>5. ASSUME NEW p \in Procs, UpdateOrder(p)
      PROVE  UpdaterInv'
  BY <1>0, <1>5, WriteKeeps
<1>6. ASSUME NEW p \in Procs, RecordFill(p)
      PROVE  UpdaterInv'
  BY <1>0, <1>6, RecordKeeps
<1>7. ASSUME NEW p \in Procs, MarkOrderFailed(p) \/ WriteCancelled(p)
      PROVE  UpdaterInv'
  <2>1. Others(p) /\ Retired(p)
    BY <1>7, NextOrderRetires DEF MarkOrderFailed, WriteCancelled, UpdaterInv
  <2>2. RowsKept
    <3>1. CASE UNCHANGED row
      BY <3>1 DEF RowsKept
    <3>2. ASSUME NEW s \in {"failed", "cancelled"}, row' = [row EXCEPT ![Current(p)].status = s]
          PROVE  RowsKept
      BY <3>2 DEF TypeOK, RowsKept
    <3> QED
      BY <1>7, <3>1, <3>2 DEF MarkOrderFailed, WriteCancelled
  <2> QED
    BY <1>0, <1>7, <2>1, <2>2, UpdaterStays DEF MarkOrderFailed, WriteCancelled, Others
<1>8. ASSUME NEW p \in Procs, CancelAtBroker(p)
      PROVE  UpdaterInv'
  <2>1. p \in Cancellers /\ p \notin Submitters
    BY <1>8, ReconciliationAssumption DEF CancelAtBroker, UpdaterInv, Roles, Procs
  <2>2. Others(p) /\ Retired(p)
    <3>1. CASE NextOrder(p)
      BY <1>8, <3>1, NextOrderRetires DEF CancelAtBroker, UpdaterInv
    <3>2. CASE Goto(p, "confirm")
      BY <1>0, <2>1, <3>2, GotoLeaves DEF Retired, UpdaterInv, OneSubmitter
    <3> QED
      BY <1>8, <3>1, <3>2 DEF CancelAtBroker
  <2>3. \A x \in Orders : broker'[x].state = "none" <=> broker[x].state = "none"
    BY <1>8 DEF CancelAtBroker, TypeOK
  <2> QED
    BY <1>0, <1>8, <2>2, <2>3, UpdaterStays DEF CancelAtBroker, Others, RowsKept
<1>9. ASSUME NEW p \in Procs, Crash(p)
      PROVE  UpdaterInv'
  <2>1. Others(p) /\ Retired(p)
    BY <1>0, <1>9, CrashLeaves DEF Retired
  <2> QED
    BY <1>0, <1>9, <2>1, UpdaterStays DEF Crash, Others, RowsKept
<1>10. ASSUME NEW p \in Procs, NEW o \in Orders, PlaceOrder(p, o)
       PROVE  UpdaterInv'
  <2>1. /\ p \in Submitters /\ broker[o].state = "none"
        /\ Others(p) /\ pc'[p] = "read" /\ todo'[p] = {o} /\ pc[p] = "idle"
        /\ UNCHANGED <<row, recorded, previous>>
    BY <1>0, <1>10 DEF PlaceOrder, Begin, LocalOK, Others, Same
  <2>2. \A x \in Orders : /\ broker'[x].state = "none" => broker[x].state = "none"
                          /\ broker'[o].state # "none"
    BY <1>10 DEF PlaceOrder, TypeOK
  <2>3. Current(p)' = o
    <3>1. {o} \in SUBSET Nat
      BY ReconciliationAssumption
    <3> QED
      BY <2>1, <3>1, LeastOrder DEF Current
  <2>4. ~row[o].bid /\ row[o].executed = 0 /\ \A q \in Procs : o \notin todo[q]
    BY <2>1 DEF UpdaterInv, RowsFirst, OneSubmitter
  <2>5. \A q \in Procs \ {p} : Same(q) /\ Current(q)' = Current(q) /\ Fill(q)' = Fill(q)
    BY <2>1 DEF Others, Same, Current, Fill
  <2>6. Roles'
    BY <2>1, <2>5, ReconciliationAssumption DEF UpdaterInv, Roles, Same, Procs
  <2>7. OneSubmitter'
    <3>1. \A q \in Submitters \cup Cancellers : \A x \in todo'[q] : todo'[q] = {x}
      BY <2>1, <2>5 DEF UpdaterInv, OneSubmitter, Same, Procs
    <3>2. ASSUME NEW q \in Submitters, NEW x \in todo'[q]
          PROVE  broker'[x].state # "none"
      <4>1. CASE q = p
        BY <2>1, <2>2, <4>1
      <4>2. CASE q # p
        <5>1. x \in todo[q] /\ x \in Orders
          BY <1>0, <2>5, <3>2, <4>2 DEF Same, Procs, LocalOK
        <5> QED
          BY <2>2, <5>1 DEF UpdaterInv, OneSubmitter
      <4> QED
        BY <4>1, <4>2
    <3>3. \A q, x \in Submitters : todo'[q] \cap todo'[x] # {} => q = x
      BY <2>1, <2>4, <2>5 DEF UpdaterInv, OneSubmitter, Same, Procs
    <3> QED
      BY <3>1, <3>2, <3>3 DEF OneSubmitter
  <2>8. RowsFirst'
    BY <2>1, <2>2, <2>3, <2>4, <2>5 DEF UpdaterInv, RowsFirst, Same, Procs
  <2>9. CheckpointHeld'
    <3>1. CheckpointHeldBy(p)'
      BY <1>0, <2>1, <2>3, <2>4, NumbersAfter DEF CheckpointHeldBy, NumbersOK
    <3> QED
      BY <2>1, <2>5, <3>1 DEF UpdaterInv, CheckpointHeld, CheckpointHeldBy, Same
  <2>10. AveragesMatch' /\ FillsDisjoint'
    BY <2>1, <2>5 DEF UpdaterInv, AveragesMatch, FillsDisjoint, Same
  <2> QED
    BY <2>1, <2>6, <2>7, <2>8, <2>9, <2>10 DEF UpdaterInv, NoShareRecordedTwice
<1>11. ASSUME NEW p \in Procs, NEW o \in Orders, RefreshOrderStatus(p, o) \/ BeginCancel(p, o)
       PROVE  UpdaterInv'
  <2>1. Others(p) /\ UNCHANGED <<broker, row, recorded>>
    BY <1>0, <1>11, BeginLeaves DEF RefreshOrderStatus, BeginCancel
  <2>2. Retired(p)
    BY <1>0, <1>11, BeginLeaves, ReconciliationAssumption
       DEF RefreshOrderStatus, BeginCancel, Retired, Refreshable
  <2> QED
    BY <1>0, <2>1, <2>2, UpdaterStays DEF Others, RowsKept
<1>12. CASE UNCHANGED vars
  BY <1>0, <1>12, UpdaterStays DEF vars, Same, RowsKept
<1> QED
  BY <1>1, <1>2, <1>3, <1>4, <1>5, <1>6, <1>7, <1>8, <1>9, <1>10, <1>11, <1>12
     DEF Next, Continue, Request

\* In every behaviour with one updater.
LEMMA UpdaterInvariant == LoneUpdater /\ Spec => [](TypeOK /\ TruthInv /\ UpdaterInv)
<1>1. Init => UpdaterInv
  <2> SUFFICES ASSUME Init
               PROVE  UpdaterInv
    OBVIOUS
  <2>1. Roles /\ OneSubmitter /\ RowsFirst
    BY DEF Init, Roles, OneSubmitter, RowsFirst, Procs
  <2>2. CheckpointHeld /\ AveragesMatch
    BY DEF Init, CheckpointHeld, CheckpointHeldBy, AveragesMatch, NoCheckpoint
  <2>3. FillsDisjoint /\ NoShareRecordedTwice
    BY DEF Init, FillsDisjoint, NoShareRecordedTwice
  <2> QED
    BY <2>1, <2>2, <2>3 DEF UpdaterInv
<1>2. ASSUME LoneUpdater
      PROVE  Spec => [](TypeOK /\ TruthInv /\ UpdaterInv)
  <2>1. TypeOK /\ TruthInv /\ UpdaterInv /\ [Next]_vars => UpdaterInv'
    BY <1>2, UpdaterStep
  <2> QED
    BY <1>1, <2>1, TypeInit, TypeStep, TruthInit, TruthStep, PTL DEF Spec
<1> QED
  BY <1>2

\* With one updater no share is recorded in two fills: not when a call fails with the
\* checkpoint moved, not beside the submitter's first fill, not after a crash.
THEOREM SharesRecordedOnce == LoneUpdater /\ Spec => []NoShareRecordedTwice
<1>1. UpdaterInv => NoShareRecordedTwice
  BY DEF UpdaterInv
<1> QED
  BY <1>1, UpdaterInvariant, PTL

\* With one updater a fill is priced with the average of the quantity it starts from,
\* although an answer without an average leaves the old average in the row.
THEOREM FillsPricedFromCheckpoint == LoneUpdater /\ Spec => []FillIsPricedFromItsCheckpoint
<1>1. UpdaterInv => FillIsPricedFromItsCheckpoint
  BY DEF UpdaterInv, AveragesMatch, FillIsPricedFromItsCheckpoint
<1> QED
  BY <1>1, UpdaterInvariant, PTL

\* With one updater no older answer is written over a newer one.
THEOREM CheckpointsAdvance == LoneUpdater /\ Spec => CheckpointNeverMovesBack
<1>1. ASSUME LoneUpdater
      PROVE  TypeOK /\ TruthInv /\ UpdaterInv /\ [Next]_vars
               => [\A o \in Orders : row'[o].executed >= row[o].executed]_vars
  <2> SUFFICES ASSUME TypeOK, TruthInv, UpdaterInv, Next
               PROVE  \A o \in Orders : row'[o].executed >= row[o].executed
    OBVIOUS
  <2>0. TypeOK'
    BY TypeStep
  <2>1. CASE \E p \in Procs : UpdateOrder(p)
    <3>1. \A o \in Orders : row[o].executed <= row'[o].executed
      BY <1>1, <2>0, <2>1, WriteKeeps
    <3> QED
      BY <2>0, <3>1, Numbers, NumbersAfter DEF NumbersOK
  <2>2. ASSUME NEW p \in Procs, MarkOrderFailed(p) \/ WriteCancelled(p)
        PROVE  \A o \in Orders : row'[o].executed = row[o].executed
    <3>1. CASE UNCHANGED row
      BY <3>1
    <3>2. ASSUME NEW s \in {"failed", "cancelled"}, row' = [row EXCEPT ![Current(p)].status = s]
          PROVE  \A o \in Orders : row'[o].executed = row[o].executed
      BY <3>2 DEF TypeOK
    <3> QED
      BY <2>2, <3>1, <3>2 DEF MarkOrderFailed, WriteCancelled
  <2>3. CASE UNCHANGED row
    BY <2>3, Numbers DEF NumbersOK
  <2>4. \/ UNCHANGED row
        \/ \E p \in Procs : UpdateOrder(p)
        \/ \E p \in Procs : MarkOrderFailed(p) \/ WriteCancelled(p)
    BY DEF Next, Continue, Request, BrokerFills, BrokerCloses, ListInFlightOrders, GetOrderStatus,
           ReadPreviousOrder, RecordFill, CancelAtBroker, Crash, PlaceOrder, RefreshOrderStatus, BeginCancel
  <2> QED
    BY <2>1, <2>2, <2>3, <2>4, Numbers DEF NumbersOK
<1>2. ASSUME LoneUpdater
      PROVE  Spec => CheckpointNeverMovesBack
  <2>1. TypeOK /\ TruthInv /\ UpdaterInv /\ [Next]_vars
          => [\A o \in Orders : row'[o].executed >= row[o].executed]_vars
    BY <1>1, <1>2
  <2>2. Spec => [](TypeOK /\ TruthInv /\ UpdaterInv)
    BY <1>2, UpdaterInvariant
  <2> QED
    BY <2>1, <2>2, PTL DEF Spec, CheckpointNeverMovesBack
<1> QED
  BY <1>2

----------------------------------------------------------------------------
(* Every share below the checkpoint is recorded, with any number of updaters. *)

\* A share that is covered stays so while nobody with a fill to record moves.
LEMMA CoveredStays ==
  ASSUME UNCHANGED recorded, \A q \in Procs : pc[q] = "record" => Same(q), NEW o, NEW i, Covered(o, i)
  PROVE  Covered(o, i)'
BY DEF Covered, Same, Current

\* So the invariant stays if, moreover, the checkpoints stay.
LEMMA CoverageStays ==
  ASSUME CoverageInv, UNCHANGED recorded,
         \A q \in Procs : pc[q] = "record" \/ pc'[q] = "write" => Same(q),
         \A o \in Orders : row'[o].executed = row[o].executed
  PROVE  CoverageInv'
<1>1. \A o \in Orders : \A i \in 1 .. row'[o].executed : Covered(o, i)'
  BY CoveredStays DEF CoverageInv, CheckpointIsRecorded
<1>2. ASSUME NEW p \in Procs, pc'[p] = "write"
      PROVE  \A i \in 1 .. previous'[p].executed : Covered(Current(p), i)'
  <2>1. pc[p] = "write" /\ previous'[p] = previous[p] /\ Current(p)' = Current(p)
    BY <1>2 DEF Same, Current
  <2> QED
    BY <2>1, CoveredStays DEF CoverageInv
<1> QED
  BY <1>1, <1>2 DEF CoverageInv, CheckpointIsRecorded

\* A process that writes its answer has the difference to record: its own checkpoint
\* covers the rest.
LEMMA WriteCovers ==
  ASSUME TypeOK, CoverageInv, NEW p \in Procs, UpdateOrder(p), "db_call" \notin Faults
  PROVE  CoverageInv'
<1> DEFINE o == Current(p)
<1>1. o \in Orders
  BY CurrentOrder DEF UpdateOrder, TypeOK, LocalOK, PcLabel
<1>2. /\ Others(p) /\ pc[p] = "write" /\ pc'[p] = "record" /\ Current(p)' = o
      /\ answer'[p] = answer[p] /\ previous'[p] = previous[p] /\ UNCHANGED recorded
  BY GotoLeaves DEF UpdateOrder, TypeOK, LocalOK, PcLabel, Current
<1>3. /\ \A x \in Orders \ {o} : row'[x] = row[x]
      /\ row'[o].executed = answer[p].executed
  BY <1>1 DEF UpdateOrder, Merged, TypeOK
<1>4. \A q \in Procs : pc[q] = "record" \/ pc'[q] = "write" => Same(q)
  BY <1>2 DEF Others
<1>5. ASSUME NEW i \in 1 .. row'[o].executed
      PROVE  Covered(o, i)'
  <2>1. i \in 1 .. previous[p].executed \/ i \in FillInterval(previous[p], answer[p])
    BY <1>3, <1>5, Numbers DEF NumbersOK, FillInterval
  <2>2. CASE i \in 1 .. previous[p].executed
    BY <1>2, <1>4, <2>2, CoveredStays DEF CoverageInv
  <2>3. CASE i \in FillInterval(previous[p], answer[p])
    BY <1>2, <2>3 DEF Covered
  <2> QED
    BY <2>1, <2>2, <2>3
<1>6. \A x \in Orders : \A i \in 1 .. row'[x].executed : Covered(x, i)'
  BY <1>2, <1>3, <1>4, <1>5, CoveredStays DEF CoverageInv, CheckpointIsRecorded
<1>7. ASSUME NEW q \in Procs, pc'[q] = "write"
      PROVE  \A i \in 1 .. previous'[q].executed : Covered(Current(q), i)'
  <2>1. pc[q] = "write" /\ previous'[q] = previous[q] /\ Current(q)' = Current(q)
    BY <1>4, <1>7 DEF Same, Current
  <2> QED
    BY <1>2, <1>4, <2>1, CoveredStays DEF CoverageInv
<1> QED
  BY <1>6, <1>7 DEF CoverageInv, CheckpointIsRecorded

\* A fill that is recorded covers what it covered while it was to be recorded.
LEMMA RecordCovers ==
  ASSUME TypeOK, TypeOK', CoverageInv, NEW p \in Procs, RecordFill(p), "db_call" \notin Faults
  PROVE  CoverageInv'
<1> DEFINE o == Current(p)
<1>1. o \in Orders
  BY CurrentOrder DEF RecordFill, TypeOK, LocalOK, PcLabel
<1>2. /\ Others(p) /\ pc[p] = "record" /\ pc'[p] # "write" /\ UNCHANGED row
      /\ RecordedWith(FillInterval(previous[p], answer[p]), o)
  BY NextOrderLeaves DEF RecordFill, TypeOK, LocalOK, PcLabel
<1>3. /\ \A x \in Orders \ {o} : recorded'[x] = recorded[x]
      /\ \A i \in Shares : recorded'[o][i] =
            IF i \in FillInterval(previous[p], answer[p]) THEN recorded[o][i] + 1 ELSE recorded[o][i]
  BY <1>1, <1>2 DEF RecordedWith, TypeOK
<1>4. \A q \in Procs \ {p} : Same(q) /\ Current(q)' = Current(q)
  BY <1>2 DEF Others, Same, Current
<1>5. ASSUME NEW x \in Orders, NEW i \in Shares, Covered(x, i)
      PROVE  Covered(x, i)'
  <2>1. CASE recorded[x][i] > 0
    <3>1. recorded'[x][i] > 0
      BY <1>3, <1>5, <2>1, Numbers DEF NumbersOK
    <3> QED
      BY <3>1 DEF Covered
  <2>2. CASE x = o /\ i \in FillInterval(previous[p], answer[p])
    <3>1. recorded'[o][i] > 0
      BY <1>1, <1>3, <1>5, <2>2, Numbers DEF NumbersOK
    <3> QED
      BY <2>2, <3>1 DEF Covered
  <2>3. ASSUME NEW q \in Procs \ {p}, pc[q] = "record", Current(q) = x,
               i \in FillInterval(previous[q], answer[q])
        PROVE  Covered(x, i)'
    BY <1>4, <2>3 DEF Covered, Same
  <2> QED
    BY <1>5, <2>1, <2>2, <2>3 DEF Covered
<1>6. ASSUME NEW x \in Orders, NEW i \in 1 .. row'[x].executed
      PROVE  Covered(x, i)'
  <2>1. row[x].executed \in Amount /\ i \in 1 .. row[x].executed
    BY <1>2, <1>6 DEF TypeOK
  <2>2. i \in Shares
    BY <2>1, ReconciliationAssumption DEF Amount, Shares
  <2> QED
    BY <1>5, <2>1, <2>2 DEF CoverageInv, CheckpointIsRecorded
<1>7. ASSUME NEW q \in Procs, pc'[q] = "write", NEW i \in 1 .. previous'[q].executed
      PROVE  Covered(Current(q), i)'
  <2>1. /\ pc[q] = "write" /\ previous'[q] = previous[q] /\ Current(q)' = Current(q)
        /\ Current(q) \in Orders /\ previous[q].executed \in Amount
    BY <1>2, <1>4, <1>7, CurrentOrder DEF Same, TypeOK, LocalOK, PcLabel, Checkpoint
  <2>2. i \in Shares
    BY <1>7, <2>1, ReconciliationAssumption DEF Amount, Shares
  <2> QED
    BY <1>5, <1>7, <2>1, <2>2 DEF CoverageInv
<1> QED
  BY <1>6, <1>7 DEF CoverageInv, CheckpointIsRecorded

\* Every step keeps the shares covered.
LEMMA CoverageStep ==
  ASSUME ReliableDatabase, TypeOK, CoverageInv, [Next]_vars
  PROVE  CoverageInv'
<1>0. /\ TypeOK' /\ LocalOK
      /\ "db_call" \notin Faults /\ "crash" \notin Faults
  BY TypeStep DEF TypeOK, LocalOK, PcLabel, ReliableDatabase
<1>1. ASSUME NEW o \in Orders, BrokerFills(o) \/ BrokerCloses(o)
      PROVE  CoverageInv'
  BY <1>1, CoverageStays DEF BrokerFills, BrokerCloses, local, Same
<1>2. ASSUME NEW p \in Procs, ListInFlightOrders(p)
      PROVE  CoverageInv'
  <2>1. Others(p) /\ pc[p] = "idle" /\ pc'[p] = "ask" /\ UNCHANGED <<row, recorded>>
    BY <1>0, <1>2, BeginLeaves DEF ListInFlightOrders
  <2> QED
    BY <2>1, CoverageStays DEF Others
<1>3. ASSUME NEW p \in Procs, GetOrderStatus(p)
      PROVE  CoverageInv'
  <2>1. Others(p) /\ pc[p] = "ask" /\ pc'[p] # "write" /\ UNCHANGED <<row, recorded>>
    BY <1>0, <1>3, NextOrderLeaves DEF GetOrderStatus, LocalOK, Others, Same
  <2> QED
    BY <2>1, CoverageStays DEF Others
<1>4. ASSUME NEW p \in Procs, ReadPreviousOrder(p)
      PROVE  CoverageInv'
  <2>1. CASE Raise(p)
    <3>1. Others(p) /\ pc[p] = "read" /\ pc'[p] # "write" /\ UNCHANGED <<row, recorded>>
      BY <1>0, <1>4, <2>1, RaiseLeaves DEF ReadPreviousOrder
    <3> QED
      BY <3>1, CoverageStays DEF Others
  <2>2. CASE ~Raise(p)
    <3> DEFINE o == Current(p)
    <3>1. o \in Orders
      BY <1>0, <1>4, CurrentOrder DEF ReadPreviousOrder
    <3>2. /\ Others(p) /\ pc[p] = "read" /\ UNCHANGED <<row, recorded>>
          /\ previous'[p].executed = row[o].executed /\ Current(p)' = o
      BY <1>0, <1>4, <2>2 DEF ReadPreviousOrder, LocalOK, Others, Same, Current
    <3>3. \A x, i : Covered(x, i) => Covered(x, i)'
      BY <3>2, CoveredStays DEF Others
    <3>4. CheckpointIsRecorded'
      BY <3>2, <3>3 DEF CoverageInv, CheckpointIsRecorded
    <3>5. ASSUME NEW q \in Procs, pc'[q] = "write"
          PROVE  \A i \in 1 .. previous'[q].executed : Covered(Current(q), i)'
      <4>1. CASE q = p
        BY <3>1, <3>2, <3>3, <4>1 DEF CoverageInv, CheckpointIsRecorded
      <4>2. CASE q # p
        <5>1. pc[q] = "write" /\ previous'[q] = previous[q] /\ Current(q)' = Current(q)
          BY <3>2, <3>5, <4>2 DEF Others, Same, Current
        <5> QED
          BY <3>3, <5>1 DEF CoverageInv
      <4> QED
        BY <4>1, <4>2
    <3> QED
      BY <3>4, <3>5 DEF CoverageInv
  <2> QED
    BY <2>1, <2>2
<1>5. ASSUME NEW p \in Procs, UpdateOrder(p)
      PROVE  CoverageInv'
  BY <1>0, <1>5, WriteCovers
<1>6. ASSUME NEW p \in Procs, RecordFill(p)
      PROVE  CoverageInv'
  BY <1>0, <1>6, RecordCovers
<1>7. ASSUME NEW p \in Procs, MarkOrderFailed(p) \/ WriteCancelled(p)
      PROVE  CoverageInv'
  <2>1. Others(p) /\ pc[p] # "record" /\ pc'[p] # "write" /\ UNCHANGED recorded
    BY <1>0, <1>7, NextOrderLeaves DEF MarkOrderFailed, WriteCancelled
  <2>2. PICK s \in {"failed", "cancelled"} :
          \/ UNCHANGED row
          \/ row' = [row EXCEPT ![Current(p)].status = s]
    BY <1>7 DEF MarkOrderFailed, WriteCancelled
  <2>3. \A o \in Orders : row'[o].executed = row[o].executed
    BY <2>2, SMTT(40) DEF TypeOK
  <2> QED
    BY <2>1, <2>3, CoverageStays DEF Others
<1>8. ASSUME NEW p \in Procs, CancelAtBroker(p)
      PROVE  CoverageInv'
  <2>1. Others(p) /\ pc[p] = "cancel" /\ pc'[p] # "write" /\ UNCHANGED <<row, recorded>>
    BY <1>0, <1>8, NextOrderLeaves, GotoLeaves DEF CancelAtBroker
  <2> QED
    BY <2>1, CoverageStays DEF Others
<1>9. ASSUME NEW p \in Procs, NEW o \in Orders, PlaceOrder(p, o)
      PROVE  CoverageInv'
  <2>1. Others(p) /\ pc[p] = "idle" /\ pc'[p] = "read" /\ UNCHANGED <<row, recorded>>
    BY <1>0, <1>9 DEF PlaceOrder, Begin, LocalOK, Others, Same
  <2> QED
    BY <2>1, CoverageStays DEF Others
<1>10. ASSUME NEW p \in Procs, NEW o \in Orders, RefreshOrderStatus(p, o) \/ BeginCancel(p, o)
       PROVE  CoverageInv'
  <2>1. Others(p) /\ pc[p] = "idle" /\ pc'[p] # "write" /\ UNCHANGED <<row, recorded>>
    BY <1>0, <1>10, BeginLeaves DEF RefreshOrderStatus, BeginCancel
  <2> QED
    BY <2>1, CoverageStays DEF Others
<1>11. CASE UNCHANGED vars
  BY <1>11, CoverageStays DEF vars, Same
<1> QED
  BY <1>0, <1>1, <1>2, <1>3, <1>4, <1>5, <1>6, <1>7, <1>8, <1>9, <1>10, <1>11
     DEF Next, Continue, Request, Crash

\* While calls to the Database Agent succeed and no process stops, no share between
\* two checkpoints is lost: not when older answers are written over newer ones, not
\* when the broker fails or leaves the average out.
THEOREM CheckpointsRecorded == ReliableDatabase /\ Spec => []CheckpointIsRecorded
<1>1. Init => CoverageInv
  BY DEF Init, CoverageInv, CheckpointIsRecorded
<1>2. ASSUME ReliableDatabase
      PROVE  Spec => []CheckpointIsRecorded
  <2>1. TypeOK /\ CoverageInv /\ [Next]_vars => CoverageInv'
    BY <1>2, CoverageStep
  <2>2. CoverageInv => CheckpointIsRecorded
    BY DEF CoverageInv
  <2> QED
    BY <1>1, <2>1, <2>2, TypeInit, TypeStep, PTL DEF Spec
<1> QED
  BY <1>2
=============================================================================
