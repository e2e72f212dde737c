------------------------- MODULE AccountTrafficProofs -------------------------
(***************************************************************************)
(* Proofs about AccountTraffic, for any sets of orders, deals, executors,  *)
(* cleanups and reports: what the account itself may do to a deal, and why *)
(* each of the three users of the account may rely on what it read before. *)
(***************************************************************************)
EXTENDS AccountTraffic, FiniteSetTheorems, TLAPS

----------------------------------------------------------------------------
(* Types. *)

Deal == [phase : Phase, age : Ages, cancelling : BOOLEAN]

\* Every deal has a cost and a symbol.
LEMMA Priced ==
  ASSUME NEW d \in Deals
  PROVE  Cost[d] \in Nat /\ SymbolOf[d] \in Symbols
BY AccountAssumption

\* The first state is well typed.
LEMMA InitialTypes == Init => TypeOK
<1> SUFFICES ASSUME Init PROVE TypeOK
  OBVIOUS
<1>1. AccountOK
  <2>1. deal \in [Deals -> Deal]
    BY DEF Init, AccountInit, Deal
  <2>2. \A d \in Deals : deal[d].phase \notin OpenPhase => deal[d].age = 0 /\ ~deal[d].cancelling
    BY DEF Init, AccountInit, Deals, OpenPhase
  <2> QED
    BY <2>1, <2>2, AccountAssumption DEF Init, AccountInit, AccountOK, Deal
<1>2. AdmissionOK
  BY DEF Init, AdmissionInit, AdmissionOK
<1>3. CleanupOK
  BY DEF Init, CleanupInit, CleanupOK
<1>4. ReportOK
  BY DEF Init, ReportInit, ReportOK, Empty, Snapshot
<1> QED
  BY <1>1, <1>2, <1>3, <1>4 DEF TypeOK

\* A deal that enters a phase stays a deal.
LEMMA EnterTypes ==
  ASSUME AccountOK, NEW d \in Deals, NEW p \in Phase, NEW a \in Ages, Enter(d, p, a),
         p \notin OpenPhase => a = 0, buyingPower' \in Nat
  PROVE  AccountOK'
BY DEF AccountOK, Enter

\* So does every move the account makes by itself.
LEMMA MovesKeepTypes ==
  ASSUME AccountOK, AccountMoves
  PROVE  AccountOK'
<1>1. PICK d \in Deals : OrderAges(d) \/ EntryFills(d) \/ ExitFills(d) \/ OrderEnds(d)
  BY DEF AccountMoves
<1>2. deal[d] \in Deal /\ deal[d] = [phase |-> deal[d].phase, age |-> deal[d].age, cancelling |-> deal[d].cancelling]
  BY DEF AccountOK, Deal
<1>3. buyingPower \in Nat /\ buyingPower + Cost[d] \in Nat
  BY Priced DEF AccountOK
<1>4. {"exits", "bare", "closed"} \subseteq Phase /\ 0 \in Ages /\ deal[d].age \in Ages
  BY <1>2, AccountAssumption DEF Phase, Deal
<1>5. CASE OrderAges(d)
  BY <1>5 DEF OrderAges, OpenDeals, AccountOK
<1>6. CASE EntryFills(d)
  BY <1>3, <1>4, <1>6, EnterTypes DEF EntryFills, OpenPhase
<1>7. CASE ExitFills(d)
  BY <1>3, <1>4, <1>7, EnterTypes DEF ExitFills
<1>8. CASE OrderEnds(d)
  BY <1>3, <1>4, <1>8, EnterTypes DEF OrderEnds
<1> QED
  BY <1>1, <1>5, <1>6, <1>7, <1>8

\* An accepted order costs no more than there is.
LEMMA AcceptKeepsTypes ==
  ASSUME AccountOK, NEW o \in Orders, Accept(o)
  PROVE  AccountOK'
<1>1. o \in Deals /\ Cost[o] \in Nat
  BY Priced DEF Deals
<1>2. buyingPower' \in Nat
  BY <1>1 DEF Accept, Affordable, AccountOK
<1> QED
  BY <1>1, <1>2, EnterTypes, AccountAssumption DEF Accept, Phase, OpenPhase

\* A cancellation leaves the phase alone.
LEMMA CancelKeepsTypes ==
  ASSUME AccountOK, NEW d \in Deals, deal[d].phase \in OpenPhase, Cancel(d)
  PROVE  AccountOK'
BY DEF Cancel, AccountOK

\* An order is executed by one who is not idle.
LEMMA ExecutedOrder ==
  ASSUME AdmissionOK, NEW e \in Executors, step[e] # "idle"
  PROVE  executing[e] \in asked /\ executing[e] \in Orders /\ executing[e] \in Deals
BY DEF AdmissionOK, Deals

\* Steps of batches, workers and the preflight keep the types.
LEMMA AdmissionKeepsTypes ==
  ASSUME AccountOK, AdmissionOK, AdmissionNext
  PROVE  AccountOK' /\ AdmissionOK'
<1> USE AdmissionAssumption
<1>1. Batches \subseteq Executors /\ Workers \subseteq Executors
  BY DEF Executors
<1>2. running.batches \subseteq Batches /\ running.workers \subseteq Workers
  BY DEF AdmissionOK, Deployment
<1>3. UNCHANGED account => AccountOK'
  BY DEF AccountOK, account
<1>4. ASSUME NEW b \in running.batches, AcceptBatch(b)
      PROVE  AccountOK' /\ AdmissionOK'
  BY <1>2, <1>3, <1>4 DEF AcceptBatch, AdmissionOK
<1>5. ASSUME NEW b \in running.batches, CreateNext(b)
      PROVE  AccountOK' /\ AdmissionOK'
  <2>1. PICK o \in toCreate[b] :
          /\ toCreate' = [toCreate EXCEPT ![b] = @ \ {o}]
          /\ \/ UNCHANGED <<queue, executing, step>>
             \/ Begin(b, o) /\ UNCHANGED queue
             \/ queue' = queue \cup {o} /\ UNCHANGED <<executing, step>>
    BY <1>5 DEF CreateNext
  <2>2. b \in Executors /\ b \in Batches /\ o \in asked /\ o # NoOrder
    BY <1>1, <1>2 DEF AdmissionOK
  <2>3. UNCHANGED <<account, running, asked, power>>
    BY <1>5 DEF CreateNext
  <2> QED
    BY <1>3, <2>1, <2>2, <2>3 DEF AdmissionOK, Begin
<1>6. ASSUME NEW w \in running.workers, TakeJob(w)
      PROVE  AccountOK' /\ AdmissionOK'
  <2>1. PICK o \in queue : queue' = queue \ {o} /\ Begin(w, o)
    BY <1>6 DEF TakeJob
  <2>2. w \in Executors /\ o \in asked /\ o # NoOrder
    BY <1>1, <1>2 DEF AdmissionOK
  <2>3. UNCHANGED <<account, running, asked, toCreate, power>>
    BY <1>6 DEF TakeJob
  <2> QED
    BY <1>3, <2>1, <2>2, <2>3 DEF AdmissionOK, Begin
<1>7. ASSUME NEW e \in Executors, step[e] # "idle", Refuse(e), UNCHANGED <<account, running, asked, toCreate>>
      PROVE  AccountOK' /\ AdmissionOK'
  BY <1>3, <1>7, ExecutedOrder DEF Refuse, AdmissionOK
<1>8. ASSUME NEW e \in Executors, ReadAccount(e)
      PROVE  AccountOK' /\ AdmissionOK'
  <2>1. CASE Refuse(e)
    BY <1>7, <1>8, <2>1 DEF ReadAccount
  <2>2. CASE step' = [step EXCEPT ![e] = "open_orders"] /\ power' = [power EXCEPT ![e] = buyingPower]
             /\ UNCHANGED <<queue, executing>>
    BY <1>3, <1>8, <2>2 DEF ReadAccount, AdmissionOK, AccountOK
  <2> QED
    BY <1>8, <2>1, <2>2 DEF ReadAccount
<1>9. ASSUME NEW e \in Executors, ReadOpenOrders(e)
      PROVE  AccountOK' /\ AdmissionOK'
  <2>1. CASE Refuse(e)
    BY <1>7, <1>9, <2>1 DEF ReadOpenOrders
  <2>2. CASE step' = [step EXCEPT ![e] = "submit"] /\ power' = [power EXCEPT ![e] = 0]
             /\ UNCHANGED <<queue, executing>>
    BY <1>3, <1>9, <2>2 DEF ReadOpenOrders, AdmissionOK
  <2> QED
    BY <1>9, <2>1, <2>2 DEF ReadOpenOrders
<1>10. ASSUME NEW e \in Executors, Submit(e)
       PROVE  AccountOK' /\ AdmissionOK'
  <2>1. AccountOK'
    BY <1>3, <1>10, ExecutedOrder, AcceptKeepsTypes DEF Submit
  <2>2. AdmissionOK'
    BY <1>10 DEF Submit, AdmissionOK
  <2> QED
    BY <2>1, <2>2
<1> QED
  BY <1>4, <1>5, <1>6, <1>8, <1>9, <1>10 DEF AdmissionNext

\* A cleanup goes on with fewer targets, or ends.
LEMMA FinishKeepsTypes ==
  ASSUME CleanupOK, NEW c \in Cleanups, NEW remaining \in SUBSET OpenOrder,
         NEW limit \in MaxAges \cup {0}, NEW include \in BOOLEAN, FinishWith(c, remaining, limit, include)
  PROVE  CleanupOK'
BY DEF CleanupOK, FinishWith

\* What is listed is open.
LEMMA ListedAreOpen ==
  ASSUME NEW held, NEW limit, NEW include
  PROVE  Listed(held, limit, include) \in SUBSET OpenOrder
BY DEF Listed, OpenDeals, OpenOrder

\* Steps of the cleanup keep the types.
LEMMA CleanupKeepsTypes ==
  ASSUME AccountOK, CleanupOK, CleanupNext
  PROVE  AccountOK' /\ CleanupOK'
<1>1. UNCHANGED account => AccountOK'
  BY DEF AccountOK, account
<1>2. ASSUME NEW c \in Cleanups, ReadPositions(c)
      PROVE  AccountOK' /\ CleanupOK'
  <2>1. {SymbolOf[d] : d \in HeldDeals} \in SUBSET Symbols
    BY Priced DEF HeldDeals
  <2> QED
    BY <1>1, <1>2, <2>1 DEF ReadPositions, CleanupOK
<1>3. ASSUME NEW c \in Cleanups, ClassifyOpenOrders(c)
      PROVE  AccountOK' /\ CleanupOK'
  <2>1. PICK limit \in MaxAges, include \in BOOLEAN :
          FinishWith(c, Listed(sawHeld[c], limit, include), limit, include)
    BY <1>3 DEF ClassifyOpenOrders
  <2>2. Listed(sawHeld[c], limit, include) \in SUBSET OpenOrder
    BY ListedAreOpen
  <2> QED
    BY <1>1, <1>3, <2>1, <2>2, FinishKeepsTypes DEF ClassifyOpenOrders
<1>4. ASSUME NEW c \in Cleanups, CancelTarget(c)
      PROVE  AccountOK' /\ CleanupOK'
  <2>1. PICK target \in targets[c] :
          /\ FinishWith(c, targets[c] \ {target}, maxAge[c], thorough[c])
          /\ \/ CancelsListed(target) /\ Cancel(target[1])
             \/ UNCHANGED account
    BY <1>4 DEF CancelTarget
  <2>2. /\ targets[c] \ {target} \in SUBSET OpenOrder /\ target[1] \in Deals /\ target[2] \in OpenPhase
        /\ maxAge[c] \in MaxAges \cup {0} /\ thorough[c] \in BOOLEAN
    BY DEF CleanupOK, OpenOrder
  <2> QED
    BY <1>1, <2>1, <2>2, FinishKeepsTypes, CancelKeepsTypes DEF CancelsListed, Cancellable
<1> QED
  BY <1>2, <1>3, <1>4 DEF CleanupNext

\* The two parts of a snapshot, in their order.
LEMMA Collected ==
  ASSUME ReportOK, NEW r \in Reports, Collect(r)
  PROVE  /\ UNCHANGED account
         /\ \/ /\ reporting[r] = 1
               /\ snapshot' = [snapshot EXCEPT ![r] = [positions |-> HeldDeals, entries |-> snapshot[r].entries]]
            \/ /\ reporting[r] = 2
               /\ snapshot' = [snapshot EXCEPT ![r] = [positions |-> snapshot[r].positions,
                                                       entries |-> {d \in OpenDeals : deal[d].phase = "entry"}]]
         /\ reporting' = [reporting EXCEPT ![r] = reporting[r] + 1]
<1>1. snapshot[r] = [positions |-> snapshot[r].positions, entries |-> snapshot[r].entries]
  BY DEF ReportOK, Snapshot
<1>2. DOMAIN CollectionOrder = {1, 2} /\ CollectionOrder[1] = "positions" /\ CollectionOrder[2] = "entries"
  BY DEF CollectionOrder
<1>3. CASE reporting[r] = 1
  <2>1. snapshot' = [snapshot EXCEPT ![r]["positions"] = HeldDeals]
    BY <1>2, <1>3 DEF Collect, Answered
  <2> QED
    BY <1>1, <1>3, <2>1 DEF Collect, ReportOK, Snapshot
<1>4. CASE reporting[r] = 2
  <2>1. snapshot' = [snapshot EXCEPT ![r]["entries"] = {d \in OpenDeals : deal[d].phase = "entry"}]
    BY <1>2, <1>4 DEF Collect, Answered
  <2> QED
    BY <1>1, <1>4, <2>1 DEF Collect, ReportOK, Snapshot
<1> QED
  BY <1>2, <1>3, <1>4 DEF Collect

\* A report changes its snapshot only.
LEMMA ReportKeepsTypes ==
  ASSUME ReportOK, ReportNext
  PROVE  UNCHANGED account /\ ReportOK'
<1>1. ASSUME NEW r \in Reports, Collect(r)
      PROVE  UNCHANGED account /\ ReportOK'
  <2>1. HeldDeals \in SUBSET Deals /\ {d \in OpenDeals : deal[d].phase = "entry"} \in SUBSET Deals
    BY DEF HeldDeals, OpenDeals
  <2> QED
    BY <1>1, <2>1, Collected DEF ReportOK, Snapshot
<1>2. ASSUME NEW r \in Reports, PushToDatabase(r)
      PROVE  UNCHANGED account /\ ReportOK'
  BY <1>2 DEF PushToDatabase, ReportOK, Snapshot, Empty
<1> QED
  BY <1>1, <1>2 DEF ReportNext

\* Every step keeps the types.
LEMMA NextTypes == TypeOK /\ [Next]_vars => TypeOK'
<1> SUFFICES ASSUME TypeOK, [Next]_vars PROVE TypeOK'
  OBVIOUS
<1> USE DEF TypeOK
<1>1. /\ UNCHANGED account => AccountOK'
      /\ UNCHANGED admission => AdmissionOK'
      /\ UNCHANGED cleanup => CleanupOK'
      /\ UNCHANGED report => ReportOK'
  BY DEF account, admission, cleanup, report, AccountOK, AdmissionOK, CleanupOK, ReportOK
<1>2. CASE AccountMoves /\ UNCHANGED <<admission, cleanup, report>>
  BY <1>1, <1>2, MovesKeepTypes
<1>3. CASE AdmissionNext /\ UNCHANGED <<cleanup, report>>
  BY <1>1, <1>3, AdmissionKeepsTypes
<1>4. CASE CleanupNext /\ UNCHANGED <<admission, report>>
  BY <1>1, <1>4, CleanupKeepsTypes
<1>5. CASE ReportNext /\ UNCHANGED <<admission, cleanup>>
  BY <1>1, <1>5, ReportKeepsTypes
<1>6. CASE UNCHANGED vars
  BY <1>1, <1>6 DEF vars
<1> QED
  BY <1>2, <1>3, <1>4, <1>5, <1>6 DEF Next

\* Type correctness of the account and of its three users: the account never spends more
\* than it has, an executor that is not idle has an order, a cleanup cancels only what it
\* listed.
THEOREM TrafficTypes == Spec => []TypeOK
BY InitialTypes, NextTypes, PTL DEF Spec

----------------------------------------------------------------------------
(* What a step may do to a deal. *)

\* A deal only goes forward, and an order that stays open does not get younger.
Forward(d) ==
  /\ deal'[d].phase = "new" => deal[d].phase = "new"
  /\ deal'[d].phase = "entry" => deal[d].phase \in {"new", "entry"}
  /\ deal'[d].phase = "exits" => deal[d].phase \in {"entry", "exits"}
  /\ deal'[d].phase = "stop" => deal[d].phase = "stop"
  /\ deal'[d].phase = deal[d].phase => deal'[d].age = deal[d].age \/ deal'[d].age > deal[d].age

\* Nobody begins to cancel it.
NotCancelled(d) == deal'[d].cancelling => deal[d].cancelling /\ deal'[d].phase = deal[d].phase

\* What is open was open.
NotOpened(d) == deal'[d].phase \in OpenPhase => deal[d].phase \in OpenPhase

\* By itself a deal opens no orders and binds no buying power.
LEMMA MovesGoForward ==
  ASSUME AccountOK, AccountMoves
  PROVE  /\ \A d \in Deals : Forward(d) /\ NotCancelled(d) /\ NotOpened(d)
         /\ buyingPower' >= buyingPower
<1>1. PICK x \in Deals : OrderAges(x) \/ EntryFills(x) \/ ExitFills(x) \/ OrderEnds(x)
  BY DEF AccountMoves
<1>2. Cost[x] \in Nat /\ buyingPower \in Nat
  BY Priced DEF AccountOK
<1>3. CASE OrderAges(x)
  BY <1>2, <1>3 DEF OrderAges, OpenDeals, AccountOK, Forward, NotCancelled, NotOpened
<1>4. CASE EntryFills(x)
  BY <1>2, <1>4 DEF EntryFills, Enter, AccountOK, Forward, NotCancelled, NotOpened, OpenPhase
<1>5. CASE ExitFills(x)
  BY <1>2, <1>5 DEF ExitFills, Enter, AccountOK, Forward, NotCancelled, NotOpened, OpenPhase
<1>6. CASE OrderEnds(x)
  BY <1>2, <1>6 DEF OrderEnds, Enter, AccountOK, Forward, NotCancelled, NotOpened, OpenPhase
<1> QED
  BY <1>1, <1>3, <1>4, <1>5, <1>6

\* Deals that do not change go forward.
LEMMA StandStill ==
  ASSUME UNCHANGED account
  PROVE  \A d \in Deals : Forward(d) /\ NotCancelled(d) /\ NotOpened(d)
BY DEF account, Forward, NotCancelled, NotOpened

\* Placing an order opens that order's deal.
LEMMA AcceptGoesForward ==
  ASSUME AccountOK, NEW o \in Orders, Accept(o)
  PROVE  /\ \A d \in Deals : Forward(d) /\ NotCancelled(d)
         /\ \A d \in Deals \ {o} : deal'[d] = deal[d]
         /\ buyingPower' = buyingPower - Cost[o]
BY DEF Accept, Enter, AccountOK, Deals, Forward, NotCancelled

\* Of all that admission does, only a submission touches the account.
LEMMA AdmissionSubmits ==
  ASSUME AdmissionNext
  PROVE  UNCHANGED account \/ \E e \in Executors : Submit(e) /\ Accept(executing[e])
BY DEF AdmissionNext, AcceptBatch, CreateNext, TakeJob, ReadAccount, ReadOpenOrders, Submit

\* Nobody who creates or executes orders moves a deal backwards or cancels one.
LEMMA AdmissionGoesForward ==
  ASSUME TypeOK, AdmissionNext
  PROVE  \A d \in Deals : Forward(d) /\ NotCancelled(d)
<1>1. CASE UNCHANGED account
  BY <1>1, StandStill
<1>2. ASSUME NEW e \in Executors, Submit(e), Accept(executing[e])
      PROVE  \A d \in Deals : Forward(d) /\ NotCancelled(d)
  BY <1>2, ExecutedOrder, AcceptGoesForward DEF TypeOK, Submit
<1> QED
  BY <1>1, <1>2, AdmissionSubmits

\* A cancellation is only noted on the order.
LEMMA CancelGoesForward ==
  ASSUME AccountOK, NEW x \in Deals, Cancel(x)
  PROVE  /\ \A d \in Deals : Forward(d) /\ deal'[d].phase = deal[d].phase /\ deal'[d].age = deal[d].age
         /\ \A d \in Deals \ {x} : deal'[d] = deal[d]
         /\ buyingPower' = buyingPower
BY DEF Cancel, AccountOK, Forward

\* Of all that a cleanup does, only the cancellation of a listed order touches the account.
LEMMA CleanupCancels ==
  ASSUME CleanupOK, CleanupNext
  PROVE  \/ UNCHANGED account
         \/ \E c \in Cleanups : \E target \in targets[c] :
              /\ target[1] \in Deals /\ target \in OpenOrder /\ target \notin targets'[c]
              /\ CancelsListed(target) /\ Cancel(target[1])
<1>1. ASSUME NEW c \in Cleanups, CancelTarget(c), ~UNCHANGED account
      PROVE  \E target \in targets[c] :
               /\ target[1] \in Deals /\ target \in OpenOrder /\ target \notin targets'[c]
               /\ CancelsListed(target) /\ Cancel(target[1])
  <2>1. targets[c] \subseteq OpenOrder /\ targets \in [Cleanups -> SUBSET OpenOrder]
    BY DEF CleanupOK
  <2>2. PICK target \in targets[c] :
          /\ FinishWith(c, targets[c] \ {target}, maxAge[c], thorough[c])
          /\ CancelsListed(target) /\ Cancel(target[1])
    BY <1>1 DEF CancelTarget
  <2>3. targets'[c] = targets[c] \ {target}
    BY <2>1, <2>2 DEF FinishWith
  <2>4. target \in OpenOrder /\ target[1] \in Deals
    BY <2>1 DEF OpenOrder
  <2> QED
    BY <2>2, <2>3, <2>4
<1> QED
  BY <1>1 DEF CleanupNext, ReadPositions, ClassifyOpenOrders

\* A cleanup opens nothing and spends nothing.
LEMMA CleanupGoesForward ==
  ASSUME TypeOK, CleanupNext
  PROVE  /\ \A d \in Deals : Forward(d) /\ NotOpened(d)
         /\ buyingPower' = buyingPower
<1>1. CASE UNCHANGED account
  BY <1>1, StandStill DEF account
<1>2. ASSUME NEW x \in Deals, Cancel(x)
      PROVE  /\ \A d \in Deals : Forward(d) /\ NotOpened(d)
             /\ buyingPower' = buyingPower
  BY <1>2, CancelGoesForward DEF TypeOK, NotOpened
<1> QED
  BY <1>1, <1>2, CleanupCancels DEF TypeOK

\* So every step moves deals forward.
LEMMA EveryStepGoesForward ==
  ASSUME TypeOK, [Next]_vars
  PROVE  \A d \in Deals : Forward(d)
<1>1. CASE UNCHANGED account
  BY <1>1, StandStill
<1>2. CASE AccountMoves
  BY <1>2, MovesGoForward DEF TypeOK
<1>3. CASE AdmissionNext
  BY <1>3, AdmissionGoesForward
<1>4. CASE CleanupNext
  BY <1>4, CleanupGoesForward
<1>5. CASE ReportNext
  BY <1>1, <1>5, ReportKeepsTypes DEF TypeOK
<1> QED
  BY <1>1, <1>2, <1>3, <1>4, <1>5 DEF Next, vars

----------------------------------------------------------------------------
(* Reports. *)

SnapshotInv == TypeOK /\ PositionsCameFirst /\ NoDealCountedTwice

SnapshotOrdered(r) ==
  /\ reporting[r] = 1 => snapshot[r].positions = {}
  /\ reporting[r] # 3 => snapshot[r].entries = {}
  /\ \A d \in snapshot[r].positions : deal[d].phase \in HeldPhase \cup {"closed"}
  /\ snapshot[r].positions \cap snapshot[r].entries = {}

\* Every step keeps the positions of a snapshot apart from its entries.
LEMMA SnapshotsKeepOrder == SnapshotInv /\ [Next]_vars => SnapshotInv'
<1> SUFFICES ASSUME SnapshotInv, [Next]_vars PROVE SnapshotInv'
  OBVIOUS
<1>0. TypeOK'
  BY NextTypes DEF SnapshotInv
<1> SUFFICES ASSUME NEW r \in Reports PROVE SnapshotOrdered(r)'
  BY <1>0 DEF SnapshotInv, PositionsCameFirst, NoDealCountedTwice, SnapshotOrdered
<1> DEFINE Past(d) == deal[d].phase \in HeldPhase \cup {"closed"}
<1>1. TypeOK /\ SnapshotOrdered(r)
  BY DEF SnapshotInv, PositionsCameFirst, NoDealCountedTwice, SnapshotOrdered
<1>2. TypeOK' /\ snapshot[r].positions \subseteq Deals
  BY <1>1, NextTypes DEF TypeOK, ReportOK, Snapshot
<1>3. \A d \in Deals : Past(d) => Past(d)'
  <2> SUFFICES ASSUME NEW d \in Deals, Past(d) PROVE Past(d)'
    OBVIOUS
  <2>1. deal'[d].phase \in Phase
    BY <1>2 DEF TypeOK, AccountOK
  <2>2. deal'[d].phase \notin {"new", "entry"}
    BY <1>1, EveryStepGoesForward DEF Forward, HeldPhase
  <2> QED
    BY <2>1, <2>2 DEF Phase, HeldPhase
<1>4. CASE reporting'[r] = reporting[r] /\ snapshot'[r] = snapshot[r]
  BY <1>1, <1>2, <1>3, <1>4 DEF SnapshotOrdered
<1>5. ASSUME NEW x \in Reports, Collect(x)
      PROVE  SnapshotOrdered(r)'
  <2>1. CASE x # r
    BY <1>1, <1>4, <1>5, <2>1, Collected DEF TypeOK, ReportOK
  <2>2. CASE x = r /\ reporting[r] = 1
    <3>1. /\ reporting'[r] = 2 /\ deal' = deal
          /\ snapshot'[r] = [positions |-> HeldDeals, entries |-> snapshot[r].entries]
      BY <1>1, <1>5, <2>2, Collected DEF TypeOK, ReportOK, account
    <3> QED
      BY <1>1, <2>2, <3>1 DEF HeldDeals, SnapshotOrdered
  <2>3. CASE x = r /\ reporting[r] = 2
    <3>1. /\ reporting'[r] = 3
          /\ snapshot'[r].positions = snapshot[r].positions
          /\ snapshot'[r].entries = {d \in OpenDeals : deal[d].phase = "entry"}
      BY <1>1, <1>5, <2>3, Collected DEF TypeOK, ReportOK
    <3> QED
      BY <1>1, <1>2, <1>3, <3>1 DEF SnapshotOrdered, HeldPhase
  <2> QED
    BY <1>1, <1>5, <2>1, <2>2, <2>3, Collected DEF TypeOK
<1>6. ASSUME NEW x \in Reports, PushToDatabase(x)
      PROVE  SnapshotOrdered(r)'
  <2>1. CASE x # r
    BY <1>1, <1>4, <1>6, <2>1 DEF PushToDatabase, TypeOK, ReportOK
  <2>2. CASE x = r
    <3>1. snapshot'[r] = Empty
      BY <1>1, <1>6, <2>2 DEF PushToDatabase, TypeOK, ReportOK
    <3> QED
      BY <3>1 DEF Empty, SnapshotOrdered
  <2> QED
    BY <2>1, <2>2
<1>7. CASE UNCHANGED report
  BY <1>4, <1>7 DEF report
<1> QED
  BY <1>5, <1>6, <1>7 DEF Next, ReportNext, vars

\* No snapshot that any report pushes shows a deal both as a position and as an open
\* entry, whatever fills between its requests: positions are asked for first, and a deal
\* that has shares never has its entry open again (collect_broker_state).
THEOREM DealsCountedOnce == Spec => []NoDealCountedTwice
<1>1. Init => SnapshotInv
  BY InitialTypes DEF Init, ReportInit, SnapshotInv, PositionsCameFirst, NoDealCountedTwice, Empty
<1>2. SnapshotInv => NoDealCountedTwice
  BY DEF SnapshotInv
<1> QED
  BY <1>1, <1>2, SnapshotsKeepOrder, PTL DEF Spec

----------------------------------------------------------------------------
(* Cleanups. *)

\* What ListedStaysStale says of one target of one cleanup.
TargetIsStale(c, target) ==
  /\ deal[target[1]].phase # "new"
  /\ target[2] # "entry" => deal[target[1]].phase # "entry"
  /\ deal[target[1]].phase = target[2] =>
       OlderThan(target[1], maxAge[c]) \/ (target[2] = "stop" /\ thorough[c])

CleanupInv == TypeOK /\ ListedStaysStale /\ CancelledEntriesAreStale

\* An order that stays open stays older than what it was older than.
LEMMA OlderStays ==
  ASSUME AccountOK, AccountOK', NEW d \in Deals, Forward(d), deal'[d].phase = deal[d].phase,
         NEW limit \in Int, OlderThan(d, limit)
  PROVE  OlderThan(d, limit)'
<1>1. deal[d].age \in Nat /\ deal'[d].age \in Nat
  BY AccountAssumption DEF AccountOK
<1> QED
  BY <1>1 DEF Forward, OlderThan

\* Whatever happens to the account, a target that stays listed stays what it was.
LEMMA TargetStaysStale ==
  ASSUME CleanupOK, \A d \in Deals : Forward(d), NEW c \in Cleanups, NEW target \in OpenOrder,
         AccountOK, AccountOK', maxAge[c] \in Int,
         TargetIsStale(c, target), maxAge'[c] = maxAge[c], thorough'[c] = thorough[c]
  PROVE  TargetIsStale(c, target)'
<1> DEFINE x == target[1]
<1>1. x \in Deals /\ target[2] \in OpenPhase
  BY DEF OpenOrder
<1>2. Forward(x)
  BY <1>1
<1>3. deal'[x].phase # "new"
  BY <1>2 DEF Forward, TargetIsStale
<1>4. target[2] # "entry" => deal'[x].phase # "entry"
  BY <1>2 DEF Forward, TargetIsStale
<1>5. deal'[x].phase = target[2] => deal[x].phase = target[2]
  BY <1>1, <1>2 DEF Forward, TargetIsStale, OpenPhase
<1>6. deal'[x].phase = target[2] /\ OlderThan(x, maxAge[c]) => OlderThan(x, maxAge[c])'
  BY <1>1, <1>2, <1>5, OlderStays
<1> QED
  BY <1>2, <1>3, <1>4, <1>5, <1>6 DEF Forward, TargetIsStale

\* What a cleanup lists is older than its limit, or a stop that it is to take.
LEMMA ClassifiedAreStale ==
  ASSUME NEW c \in Cleanups, UNCHANGED account, NEW held,
         NEW d \in OpenDeals, Targeted(d, held, maxAge'[c], thorough'[c]), NEW p, p = deal[d].phase
  PROVE  TargetIsStale(c, <<d, p>>)'
BY DEF account, TargetIsStale, OpenDeals, OpenPhase, Targeted, StaleOrder, ProtectiveExit, OlderThan

\* A cleanup that goes on does so with the parameters it is given.
LEMMA FinishKeepsRequest ==
  ASSUME CleanupOK, NEW c \in Cleanups, NEW remaining \in SUBSET OpenOrder,
         NEW limit \in MaxAges \cup {0}, NEW include \in BOOLEAN, FinishWith(c, remaining, limit, include)
  PROVE  /\ targets'[c] = remaining
         /\ remaining # {} => maxAge'[c] = limit /\ thorough'[c] = include
         /\ \A x \in Cleanups \ {c} : targets'[x] = targets[x] /\ maxAge'[x] = maxAge[x] /\ thorough'[x] = thorough[x]
BY DEF CleanupOK, FinishWith

\* Every step keeps the listed orders stale, or gone.
LEMMA ListsStayStale ==
  ASSUME CleanupInv, [Next]_vars
  PROVE  ListedStaysStale'
<1>1. /\ CleanupOK /\ AccountOK /\ AccountOK' /\ \A d \in Deals : Forward(d)
      /\ \A x \in Cleanups : /\ targets[x] \subseteq OpenOrder /\ targets'[x] \subseteq OpenOrder
                            /\ maxAge[x] \in MaxAges \cup {0} /\ maxAge[x] \in Int /\ thorough[x] \in BOOLEAN
  <2>1. TypeOK /\ TypeOK' /\ \A d \in Deals : Forward(d)
    BY EveryStepGoesForward, NextTypes DEF CleanupInv
  <2>2. CleanupOK /\ CleanupOK' /\ AccountOK /\ AccountOK'
    BY <2>1 DEF TypeOK
  <2>3. MaxAges \cup {0} \subseteq Int
    BY CleanupAssumption
  <2>4. /\ targets \in [Cleanups -> SUBSET OpenOrder] /\ targets' \in [Cleanups -> SUBSET OpenOrder]
        /\ maxAge \in [Cleanups -> MaxAges \cup {0}] /\ thorough \in [Cleanups -> BOOLEAN]
    BY <2>2 DEF CleanupOK
  <2>5. \A x \in Cleanups : targets[x] \subseteq OpenOrder /\ targets'[x] \subseteq OpenOrder
    BY <2>4
  <2>6. \A x \in Cleanups : maxAge[x] \in MaxAges \cup {0} /\ maxAge[x] \in Int
    BY <2>3, <2>4
  <2> QED
    BY <2>1, <2>2, <2>4, <2>5, <2>6
<1>2. \A x \in Cleanups : \A target \in targets[x] : TargetIsStale(x, target)
  BY DEF CleanupInv, ListedStaysStale, TargetIsStale
<1> SUFFICES ASSUME NEW x \in Cleanups, NEW target \in targets'[x]
             PROVE  TargetIsStale(x, target)'
  BY DEF ListedStaysStale, TargetIsStale
<1>3. CASE target \in targets[x] /\ maxAge'[x] = maxAge[x] /\ thorough'[x] = thorough[x]
  BY <1>1, <1>2, <1>3, TargetStaysStale
<1>4. ASSUME NEW c \in Cleanups, ReadPositions(c)
      PROVE  TargetIsStale(x, target)'
  BY <1>3, <1>4 DEF ReadPositions
<1>5. ASSUME NEW c \in Cleanups, ClassifyOpenOrders(c)
      PROVE  TargetIsStale(x, target)'
  <2>1. UNCHANGED account
    BY <1>5 DEF ClassifyOpenOrders
  <2>2. PICK limit \in MaxAges, include \in BOOLEAN :
          FinishWith(c, Listed(sawHeld[c], limit, include), limit, include)
    BY <1>5 DEF ClassifyOpenOrders
  <2> DEFINE listed == Listed(sawHeld[c], limit, include)
  <2>3. listed \in SUBSET OpenOrder
    BY ListedAreOpen
  <2> HIDE DEF listed
  <2>4. /\ targets'[c] = listed
        /\ listed # {} => maxAge'[c] = limit /\ thorough'[c] = include
        /\ \A y \in Cleanups \ {c} : targets'[y] = targets[y] /\ maxAge'[y] = maxAge[y] /\ thorough'[y] = thorough[y]
    BY <1>1, <2>2, <2>3, FinishKeepsRequest DEF listed
  <2>5. CASE x # c
    BY <1>3, <2>4, <2>5
  <2>6. CASE x = c
    <3>1. PICK d \in OpenDeals : Targeted(d, sawHeld[c], limit, include) /\ target = <<d, deal[d].phase>>
      BY <2>4, <2>6 DEF listed, Listed
    <3>2. Targeted(d, sawHeld[c], maxAge'[c], thorough'[c])
      BY <2>4, <2>6, <3>1
    <3>3. PICK p : p = deal[d].phase
      OBVIOUS
    <3>4. TargetIsStale(c, <<d, p>>)'
      BY <2>1, <3>1, <3>2, <3>3, ClassifiedAreStale
    <3> QED
      BY <2>6, <3>1, <3>3, <3>4
  <2> QED
    BY <2>5, <2>6
<1>6. ASSUME NEW c \in Cleanups, CancelTarget(c)
      PROVE  TargetIsStale(x, target)'
  <2>1. PICK done \in targets[c] : FinishWith(c, targets[c] \ {done}, maxAge[c], thorough[c])
    BY <1>6 DEF CancelTarget
  <2>2. targets[c] \ {done} \in SUBSET OpenOrder
    BY <1>1
  <2>3. /\ targets'[c] = targets[c] \ {done}
        /\ targets'[c] # {} => maxAge'[c] = maxAge[c] /\ thorough'[c] = thorough[c]
        /\ \A y \in Cleanups \ {c} : targets'[y] = targets[y] /\ maxAge'[y] = maxAge[y] /\ thorough'[y] = thorough[y]
    BY <1>1, <2>1, <2>2, FinishKeepsRequest
  <2> QED
    BY <1>3, <2>3
<1>7. CASE UNCHANGED cleanup
  BY <1>3, <1>7 DEF cleanup
<1> QED
  BY <1>4, <1>5, <1>6, <1>7 DEF Next, CleanupNext, vars

\* Every step keeps cancelled entries older than some request's limit.
LEMMA CancelledStayStale ==
  ASSUME CleanupInv, [Next]_vars
  PROVE  CancelledEntriesAreStale'
<1> DEFINE Stale(d) == \E limit \in MaxAges : OlderThan(d, limit)
<1>1. TypeOK /\ CleanupOK /\ AccountOK /\ AccountOK' /\ \A d \in Deals : Forward(d)
  BY EveryStepGoesForward, NextTypes DEF CleanupInv, TypeOK
<1> SUFFICES ASSUME NEW d \in Deals, deal'[d].phase = "entry", deal'[d].cancelling
             PROVE  Stale(d)'
  BY DEF CancelledEntriesAreStale
<1>a. ASSUME deal[d].phase = "entry", Stale(d)
      PROVE  Stale(d)'
  <2>1. PICK limit \in MaxAges : OlderThan(d, limit)
    BY <1>a
  <2>2. OlderThan(d, limit)'
    BY <1>1, <1>a, <2>1, OlderStays, CleanupAssumption
  <2> QED
    BY <2>2
<1> HIDE DEF Stale
<1>2. CASE NotCancelled(d)
  <2>1. deal[d].cancelling /\ deal[d].phase = "entry"
    BY <1>2 DEF NotCancelled
  <2> QED
    BY <1>a, <2>1 DEF CleanupInv, CancelledEntriesAreStale, Stale
<1>3. ASSUME NEW c \in Cleanups, NEW target \in targets[c], target[1] \in Deals,
             CancelsListed(target), Cancel(target[1])
      PROVE  Stale(d)'
  <2>1. CASE d = target[1]
    <3>1. deal[d].phase = "entry"
      BY <1>1, <1>3, CancelGoesForward
    <3>2. target[2] = "entry"
      BY <1>3, <2>1, <3>1 DEF CancelsListed, Cancellable
    <3>3. OlderThan(d, maxAge[c])
      BY <1>3, <2>1, <3>1, <3>2 DEF CleanupInv, ListedStaysStale
    <3>4. maxAge[c] \in MaxAges
      BY <1>1, <3>3 DEF CleanupOK, OlderThan
    <3> QED
      BY <1>a, <3>1, <3>3, <3>4 DEF Stale
  <2>2. CASE d # target[1]
    BY <1>1, <1>2, <1>3, <2>2, CancelGoesForward DEF NotCancelled
  <2> QED
    BY <2>1, <2>2
<1>4. CASE AccountMoves
  BY <1>1, <1>2, <1>4, MovesGoForward
<1>5. CASE AdmissionNext
  BY <1>1, <1>2, <1>5, AdmissionGoesForward
<1>6. CASE UNCHANGED account
  BY <1>2, <1>6, StandStill
<1>7. CASE CleanupNext
  BY <1>1, <1>3, <1>6, <1>7, CleanupCancels
<1>8. CASE ReportNext
  BY <1>1, <1>6, <1>8, ReportKeepsTypes DEF TypeOK
<1> QED
  BY <1>4, <1>5, <1>6, <1>7, <1>8 DEF Next, vars

\* So both always hold.
LEMMA CleanupInvariant == Spec => []CleanupInv
<1>1. Init => CleanupInv
  <2> SUFFICES ASSUME Init PROVE CleanupInv
    OBVIOUS
  <2>1. \A d \in Deals : ~deal[d].cancelling
    BY DEF Init, AccountInit
  <2>2. \A c \in Cleanups : targets[c] = {}
    BY DEF Init, CleanupInit
  <2> QED
    BY <2>1, <2>2, InitialTypes DEF CleanupInv, ListedStaysStale, CancelledEntriesAreStale
<1>2. CleanupInv /\ [Next]_vars => CleanupInv'
  BY ListsStayStale, CancelledStayStale, NextTypes DEF CleanupInv
<1> QED
  BY <1>1, <1>2, PTL DEF Spec

\* Of all that executors do, only the preflight's second read lets an order pass.
LEMMA PassingIsReading ==
  ASSUME TypeOK, [Next]_vars, NEW e \in Executors, Passes(e)
  PROVE  ~Obstructed(executing[e])
<1>1. running.batches \subseteq Executors /\ running.workers \subseteq Executors
  BY AdmissionAssumption DEF TypeOK, AdmissionOK, Deployment, Executors
<1>2. step \in [Executors -> {"idle", "account", "open_orders", "submit"}] /\ step'[e] # step[e]
  BY DEF TypeOK, AdmissionOK, Passes
<1>3. AdmissionNext
  BY <1>2 DEF Next, vars, admission
<1>4. ASSUME NEW x \in Executors, ReadOpenOrders(x)
      PROVE  ~Obstructed(executing[e])
  BY <1>2, <1>4 DEF ReadOpenOrders, Refuse, Passes
<1>5. ASSUME NEW x \in Executors, ReadAccount(x) \/ Submit(x)
      PROVE  FALSE
  BY <1>2, <1>5 DEF ReadAccount, Submit, Refuse, Passes
<1>6. ASSUME NEW x \in running.batches \cup running.workers, AcceptBatch(x) \/ CreateNext(x) \/ TakeJob(x)
      PROVE  FALSE
  BY <1>1, <1>2, <1>6 DEF AcceptBatch, CreateNext, TakeJob, Begin, Passes
<1> QED
  BY <1>3, <1>4, <1>5, <1>6 DEF AdmissionNext

\* For any limits of the requests and of the preflight: when the preflight lets an order
\* pass, an entry of its symbol that is being cancelled is younger than the preflight's
\* limit and older than one that a cleanup may name; so nothing passes beside it unless a
\* cleanup may name a lower limit.  This is about the moment of the preflight's read; a
\* cancellation that begins between it and the submission is not excluded.
THEOREM CancelledEntriesBlock == Spec => CancelledEntryStillBlocks
<1> DEFINE Blocked == \A e \in Executors, d \in Deals :
             Passes(e) /\ deal[d].phase = "entry" /\ deal[d].cancelling /\ SymbolOf[d] = SymbolOf[executing[e]] =>
               ~OlderThan(d, MaxStaleAge) /\ \E limit \in MaxAges : OlderThan(d, limit)
<1>1. CleanupInv /\ [Next]_vars => Blocked
  <2> SUFFICES ASSUME CleanupInv, [Next]_vars, NEW e \in Executors, NEW d \in Deals,
                      Passes(e), deal[d].phase = "entry", deal[d].cancelling, SymbolOf[d] = SymbolOf[executing[e]]
               PROVE  ~OlderThan(d, MaxStaleAge) /\ \E limit \in MaxAges : OlderThan(d, limit)
    OBVIOUS
  <2>1. ~Obstructed(executing[e])
    BY PassingIsReading DEF CleanupInv
  <2>2. ~OlderThan(d, MaxStaleAge)
    BY <2>1 DEF Obstructed, OpenDeals, OpenPhase
  <2> QED
    BY <2>2 DEF CleanupInv, CancelledEntriesAreStale
<1>2. Blocked => [Blocked]_vars
  OBVIOUS
<1> QED
  BY <1>1, CleanupInvariant, PTL DEF Spec, CancelledEntryStillBlocks

\* No step begins to cancel an order that is not, at that moment, older than the limit of
\* the very request that cancels it, however long ago it was listed and whatever its deal
\* has open by now; only include_protective takes the stop of a held position
\* (cancel_stale_open_orders).
THEOREM FreshOrdersSpared == Spec => CleanupSparesFreshOrders
<1> DEFINE Spared(d) == \E c \in Cleanups :
                          /\ <<d, deal[d].phase>> \in targets[c] \ targets'[c]
                          /\ OlderThan(d, maxAge[c]) \/ (deal[d].phase = "stop" /\ thorough[c])
           AllSpared == \A d \in Deals : deal'[d].cancelling /\ ~deal[d].cancelling => Spared(d)
<1>1. CleanupInv /\ [Next]_vars => AllSpared
  <2> SUFFICES ASSUME CleanupInv, [Next]_vars, NEW d \in Deals, deal'[d].cancelling, ~deal[d].cancelling
               PROVE  Spared(d)
    OBVIOUS
  <2>1. TypeOK /\ CleanupOK /\ AccountOK /\ ~NotCancelled(d)
    BY DEF CleanupInv, NotCancelled, TypeOK
  <2>2. CleanupNext /\ ~UNCHANGED account
    BY <2>1, MovesGoForward, AdmissionGoesForward, StandStill, ReportKeepsTypes DEF Next, vars, TypeOK
  <2>3. PICK c \in Cleanups : \E target \in targets[c] :
          /\ target[1] \in Deals /\ target \in OpenOrder /\ target \notin targets'[c]
          /\ CancelsListed(target) /\ Cancel(target[1])
    BY <2>1, <2>2, CleanupCancels
  <2>4. PICK target \in targets[c] :
          /\ target[1] \in Deals /\ target \in OpenOrder /\ target \notin targets'[c]
          /\ CancelsListed(target) /\ Cancel(target[1])
    BY <2>3
  <2>5. d = target[1]
    BY <2>1, <2>4, CancelGoesForward
  <2>6. deal[d].phase = target[2] /\ target = <<d, deal[d].phase>>
    BY <2>4, <2>5 DEF CancelsListed, Cancellable, OpenOrder
  <2>7. OlderThan(d, maxAge[c]) \/ (deal[d].phase = "stop" /\ thorough[c])
    BY <2>4, <2>5, <2>6 DEF CleanupInv, ListedStaysStale
  <2> QED
    BY <2>4, <2>6, <2>7
<1>2. AllSpared => [AllSpared]_vars
  OBVIOUS
<1> QED
  BY <1>1, CleanupInvariant, PTL DEF Spec, CleanupSparesFreshOrders

----------------------------------------------------------------------------
(* Executors. *)

\* Two elements of a set with one element at most are equal.
LEMMA AtMostOne ==
  ASSUME NEW S, IsFiniteSet(S), Cardinality(S) <= 1, NEW a \in S, NEW b \in S
  PROVE  a = b
<1>1. IsFiniteSet(S \ {a}) /\ Cardinality(S \ {a}) = Cardinality(S) - 1
  BY FS_RemoveElement
<1>2. Cardinality(S) \in Nat /\ Cardinality(S \ {a}) \in Nat
  BY <1>1, FS_CardinalityType
<1>3. Cardinality(S \ {a}) = 0
  BY <1>1, <1>2
<1>4. S \ {a} = {}
  BY <1>1, <1>3, FS_EmptySet
<1> QED
  BY <1>4

\* With one executor nobody else spends.
LEMMA OneSpender ==
  ASSUME AdmissionOK, OneExecutor, NEW a \in Spenders, NEW b \in Spenders
  PROVE  a = b
<1>1. IsFiniteSet(running.batches) /\ IsFiniteSet(running.workers)
  BY AdmissionAssumption DEF AdmissionOK
<1>2. IsFiniteSet(IF running.processNow THEN running.batches ELSE {})
  BY <1>1, FS_EmptySet
<1>3. IsFiniteSet(Spenders)
  BY <1>1, <1>2, FS_Union DEF Spenders
<1> QED
  BY <1>3, AtMostOne DEF OneExecutor

\* A lone batch is the only executor.
LEMMA LoneBatchIsOneExecutor ==
  ASSUME LoneBatch
  PROVE  OneExecutor /\ Spenders = running.batches
<1>1. Spenders = running.batches
  BY DEF LoneBatch, Spenders
<1> QED
  BY <1>1 DEF LoneBatch, OneExecutor

\* Nobody changes what runs together.
LEMMA DeploymentKept ==
  ASSUME [Next]_vars
  PROVE  running' = running
BY DEF Next, vars, admission, AdmissionNext, AcceptBatch, CreateNext, TakeJob, ReadAccount,
       ReadOpenOrders, Submit

\* As long as the deployment is the same, so are the terms about it.
LEMMA DeploymentTermsKept ==
  ASSUME running' = running
  PROVE  Spenders' = Spenders /\ (OneExecutor' <=> OneExecutor) /\ (LoneBatch' <=> LoneBatch)
BY DEF Spenders, OneExecutor, LoneBatch

\* What a step of admission may mean to one executor.
Stays(e) == step'[e] = step[e] /\ executing'[e] = executing[e] /\ power'[e] = power[e]
Takes(e) == step[e] = "idle" /\ step'[e] = "account" /\ e \in Spenders /\ UNCHANGED account
Reads(e) == step'[e] = "open_orders" /\ step[e] # "idle" /\ power'[e] = buyingPower
            /\ executing'[e] = executing[e] /\ UNCHANGED account
Decides(e) == step[e] = "open_orders" /\ step'[e] = "submit" /\ executing'[e] = executing[e]
              /\ Funded(executing[e], power[e]) /\ UNCHANGED account
Ends(e) == step[e] # "idle" /\ step'[e] = "idle" /\ executing'[e] = NoOrder

\* A refused execution ends, and the others do not notice.
LEMMA RefuseEnds ==
  ASSUME AdmissionOK, NEW x \in Executors, step[x] # "idle", Refuse(x)
  PROVE  Ends(x) /\ \A e \in Executors \ {x} : Stays(e)
BY DEF Refuse, AdmissionOK, Ends, Stays

\* There are no other ways for a step of admission.
LEMMA ExecutorSteps ==
  ASSUME AdmissionOK, AdmissionNext, NEW e \in Executors
  PROVE  Stays(e) \/ Takes(e) \/ Reads(e) \/ Decides(e) \/ Ends(e)
<1>1. running.batches \subseteq Executors /\ running.workers \subseteq Executors
  BY AdmissionAssumption DEF AdmissionOK, Deployment, Executors
<1>2. CASE UNCHANGED <<executing, step, power>>
  BY <1>2 DEF Stays
<1>3. ASSUME NEW b \in running.batches, AcceptBatch(b) PROVE Stays(e)
  BY <1>3 DEF AcceptBatch, Stays
<1>4. ASSUME NEW b \in running.batches, CreateNext(b) PROVE Stays(e) \/ Takes(e)
  BY <1>1, <1>4 DEF CreateNext, Begin, AdmissionOK, Stays, Takes, Spenders
<1>5. ASSUME NEW w \in running.workers, TakeJob(w) PROVE Stays(e) \/ Takes(e)
  BY <1>1, <1>5 DEF TakeJob, Begin, AdmissionOK, Stays, Takes, Spenders
<1>6. ASSUME NEW x \in Executors, ReadAccount(x) PROVE Stays(e) \/ Reads(e) \/ Ends(e)
  <2>1. CASE Refuse(x)
    BY <1>6, <2>1, RefuseEnds DEF ReadAccount
  <2>2. CASE step' = [step EXCEPT ![x] = "open_orders"] /\ power' = [power EXCEPT ![x] = buyingPower]
             /\ UNCHANGED <<queue, executing>>
    BY <1>6, <2>2 DEF ReadAccount, AdmissionOK, Stays, Reads
  <2> QED
    BY <1>6, <2>1, <2>2 DEF ReadAccount
<1>7. ASSUME NEW x \in Executors, ReadOpenOrders(x) PROVE Stays(e) \/ Decides(e) \/ Ends(e)
  <2>1. CASE Refuse(x)
    BY <1>7, <2>1, RefuseEnds DEF ReadOpenOrders
  <2>2. CASE Funded(executing[x], power[x]) /\ step' = [step EXCEPT ![x] = "submit"]
             /\ power' = [power EXCEPT ![x] = 0] /\ UNCHANGED <<queue, executing>>
    BY <1>7, <2>2 DEF ReadOpenOrders, AdmissionOK, Stays, Decides
  <2> QED
    BY <1>7, <2>1, <2>2 DEF ReadOpenOrders
<1>8. ASSUME NEW x \in Executors, Submit(x) PROVE Stays(e) \/ Ends(e)
  BY <1>8 DEF Submit, AdmissionOK, Stays, Ends
<1> QED
  BY <1>3, <1>4, <1>5, <1>6, <1>7, <1>8 DEF AdmissionNext

\* Orders that a batch still has to create come with an accepted batch and go one by one.
LEMMA BatchSteps ==
  ASSUME AdmissionOK, AdmissionNext, NEW b \in Batches
  PROVE  \/ b \in running.batches /\ AcceptBatch(b)
         \/ b \in running.batches /\ CreateNext(b)
         \/ toCreate'[b] = toCreate[b]
<1>1. running.batches \subseteq Batches
  BY AdmissionAssumption DEF AdmissionOK, Deployment
<1>2. ASSUME NEW x \in running.batches, AcceptBatch(x) \/ CreateNext(x), x # b
      PROVE  toCreate'[b] = toCreate[b]
  BY <1>1, <1>2 DEF AcceptBatch, CreateNext, AdmissionOK
<1> QED
  BY <1>2 DEF AdmissionNext, TakeJob, ReadAccount, ReadOpenOrders, Submit

\* Who is not deployed stays idle.
LEMMA OthersStayIdle == TypeOK /\ IdleBeyondDeployment /\ [Next]_vars => IdleBeyondDeployment'
<1> SUFFICES ASSUME TypeOK, IdleBeyondDeployment, [Next]_vars PROVE IdleBeyondDeployment'
  OBVIOUS
<1>1. Spenders' = Spenders /\ running' = running
  BY DeploymentKept, DeploymentTermsKept
<1>2. CASE UNCHANGED admission
  BY <1>1, <1>2 DEF admission, IdleBeyondDeployment
<1>3. CASE AdmissionNext
  <2>1. ASSUME NEW e \in Executors, step'[e] # "idle" PROVE e \in Spenders
    BY <1>3, <2>1, ExecutorSteps DEF TypeOK, IdleBeyondDeployment, Stays, Takes, Reads, Decides, Ends
  <2>2. ASSUME NEW b \in Batches \ running.batches PROVE toCreate'[b] = {}
    BY <1>3, BatchSteps DEF TypeOK, IdleBeyondDeployment
  <2> QED
    BY <1>1, <2>1, <2>2 DEF IdleBeyondDeployment
<1> QED
  BY <1>2, <1>3 DEF Next, vars

----------------------------------------------------------------------------
(* The reserve. *)

ReserveInv == TypeOK /\ IdleBeyondDeployment /\ JudgedByEnough /\ ReserveKept

\* What JudgedByEnough says of one executor.
Enough(e) ==
  /\ step[e] = "open_orders" => power[e] <= buyingPower
  /\ step[e] = "submit" => buyingPower - Notional(executing[e]) >= Reserve

\* An executor that stands still has enough, as long as the others only add to it.
LEMMA EnoughStaysEnough ==
  ASSUME TypeOK, TypeOK', NEW e \in Executors, Enough(e), Stays(e), buyingPower' >= buyingPower
  PROVE  Enough(e)'
<1>1. buyingPower \in Nat /\ buyingPower' \in Nat /\ power[e] \in Nat /\ Reserve \in Nat
  BY AdmissionAssumption DEF TypeOK, AccountOK, AdmissionOK
<1>2. step[e] = "submit" => Notional(executing[e]) \in Nat
  BY ExecutedOrder, Priced DEF TypeOK, Notional
<1> QED
  BY <1>1, <1>2 DEF Enough, Stays, Notional

\* Every step leaves the only executor judging by enough.
LEMMA JudgementHolds ==
  ASSUME ReserveInv, TypeOK', [Next]_vars, OneExecutor, NEW e \in Executors
  PROVE  Enough(e)'
<1>1. TypeOK /\ Enough(e) /\ \A x \in Executors : step[x] # "idle" => x \in Spenders
  BY DEF ReserveInv, JudgedByEnough, IdleBeyondDeployment, Enough
<1>2. buyingPower \in Nat /\ power[e] \in Nat /\ Reserve \in Nat
  BY <1>1, AdmissionAssumption DEF TypeOK, AccountOK, AdmissionOK
<1>3. CASE UNCHANGED admission /\ buyingPower' >= buyingPower
  BY <1>1, <1>3, EnoughStaysEnough DEF admission, Stays
<1>4. CASE AdmissionNext
  <2>1. CASE Takes(e) \/ Ends(e)
    BY <2>1 DEF Takes, Ends, Enough
  <2>2. CASE Reads(e)
    BY <1>2, <2>2 DEF Reads, Enough, account
  <2>3. CASE Decides(e)
    <3>1. Notional(executing[e]) \in Nat
      BY <1>1, <2>3, ExecutedOrder, Priced DEF TypeOK, Notional, Decides
    <3>2. power[e] <= buyingPower /\ power[e] - Notional(executing[e]) >= Reserve
      BY <1>1, <2>3 DEF Enough, Decides, Funded
    <3>3. buyingPower - Notional(executing[e]) >= Reserve
      BY <1>2, <3>1, <3>2
    <3> QED
      BY <2>3, <3>3 DEF Decides, Enough, Notional, account
  <2>4. CASE Stays(e)
    <3>1. CASE UNCHANGED account
      BY <1>1, <1>2, <2>4, <3>1, EnoughStaysEnough DEF account
    <3>2. ASSUME NEW x \in Executors, Submit(x), Accept(executing[x]) PROVE Enough(e)'
      <4>1. x \in Spenders /\ step[x] = "submit"
        BY <1>1, <3>2 DEF Submit
      <4>2. step'[x] = "idle"
        BY <1>1, <3>2 DEF Submit, TypeOK, AdmissionOK
      <4>3. step'[e] = "idle"
        BY <1>1, <2>4, <4>1, <4>2, OneSpender DEF Stays, TypeOK
      <4> QED
        BY <4>3 DEF Enough
    <3> QED
      BY <1>4, <3>1, <3>2, AdmissionSubmits
  <2> QED
    BY <1>1, <1>4, <2>1, <2>2, <2>3, <2>4, ExecutorSteps DEF TypeOK
<1>5. CASE AccountMoves /\ UNCHANGED admission
  BY <1>1, <1>3, <1>5, MovesGoForward DEF TypeOK
<1>6. CASE CleanupNext /\ UNCHANGED admission
  BY <1>1, <1>2, <1>3, <1>6, CleanupGoesForward
<1>7. CASE UNCHANGED <<account, admission>>
  BY <1>2, <1>3, <1>7 DEF account
<1> QED
  BY <1>1, <1>4, <1>5, <1>6, <1>7, ReportKeepsTypes DEF Next, vars, TypeOK

\* Every step leaves the reserve.
LEMMA ReserveStays ==
  ASSUME ReserveInv, TypeOK', [Next]_vars, OneExecutor, Funds >= Reserve
  PROVE  buyingPower' >= Reserve
<1>1. TypeOK /\ buyingPower >= Reserve
  BY DEF ReserveInv, ReserveKept
<1>2. buyingPower \in Nat /\ buyingPower' \in Nat /\ Reserve \in Nat
  BY <1>1, AdmissionAssumption DEF TypeOK, AccountOK
<1>3. CASE UNCHANGED account
  BY <1>1, <1>3 DEF account
<1>4. CASE AccountMoves
  BY <1>1, <1>2, <1>4, MovesGoForward DEF TypeOK
<1>5. CASE CleanupNext
  BY <1>1, <1>5, CleanupGoesForward
<1>6. ASSUME NEW x \in Executors, Submit(x), Accept(executing[x]) PROVE buyingPower' >= Reserve
  <2>1. buyingPower - Notional(executing[x]) >= Reserve
    BY <1>6 DEF ReserveInv, JudgedByEnough, Submit
  <2>2. executing[x] \in Orders
    BY <1>1, <1>6, ExecutedOrder DEF TypeOK, Submit
  <2> QED
    BY <1>1, <1>6, <2>1, <2>2, AcceptGoesForward DEF TypeOK, Notional
<1> QED
  BY <1>1, <1>3, <1>4, <1>5, <1>6, AdmissionSubmits, ReportKeepsTypes DEF Next, vars, TypeOK

\* With one executor the reserve is never touched, whatever the account, the cleanups and
\* other batches do between its reads and its submission: they only ever add buying power
\* (insufficient_buying_power_after_order).
THEOREM ReserveUntouched == Spec => []ReserveKept
<1>1. Init => ReserveInv
  <2> SUFFICES ASSUME Init PROVE ReserveInv
    OBVIOUS
  <2>1. /\ \A e \in Executors : step[e] = "idle"
        /\ \A b \in Batches : toCreate[b] = {}
        /\ buyingPower = Funds
    BY DEF Init, AdmissionInit, AccountInit
  <2> QED
    BY <2>1, InitialTypes DEF ReserveInv, IdleBeyondDeployment, JudgedByEnough, ReserveKept
<1>2. ReserveInv /\ [Next]_vars => ReserveInv'
  <2> SUFFICES ASSUME ReserveInv, [Next]_vars PROVE ReserveInv'
    OBVIOUS
  <2>1. TypeOK' /\ IdleBeyondDeployment'
    BY NextTypes, OthersStayIdle DEF ReserveInv
  <2>2. OneExecutor' <=> OneExecutor
    BY DeploymentKept, DeploymentTermsKept
  <2>3. OneExecutor => \A e \in Executors : Enough(e)'
    BY <2>1, JudgementHolds
  <2>4. JudgedByEnough'
    BY <2>2, <2>3 DEF JudgedByEnough, Enough
  <2>5. ReserveKept'
    BY <2>1, <2>2, ReserveStays DEF ReserveKept
  <2> QED
    BY <2>1, <2>4, <2>5 DEF ReserveInv
<1>3. ReserveInv => ReserveKept
  BY DEF ReserveInv
<1> QED
  BY <1>1, <1>2, <1>3, PTL DEF Spec

----------------------------------------------------------------------------
(* The lone batch. *)

BatchInv == TypeOK /\ IdleBeyondDeployment /\ PendingIsClear /\ OneOpenDealPerSymbol

\* What PendingIsClear says of one batch.
Clear(b) ==
  /\ executing[b] \notin toCreate[b]
  /\ OneSymbolEach(Pending(b))
  /\ \A o \in Pending(b) : SymbolOf[o] \notin OpenSymbols

\* A deal whose symbol is not among the open ones is not open.
LEMMA NoneOpenOf ==
  ASSUME NEW s, s \notin OpenSymbols, NEW d \in Deals, SymbolOf[d] = s
  PROVE  deal[d].phase \notin OpenPhase
BY DEF OpenSymbols, OpenDeals

\* A batch stays clear while it loses orders and the open symbols do not grow.
LEMMA ClearStaysClear ==
  ASSUME NEW b \in Batches, Clear(b), \A d \in Deals : NotOpened(d),
         Pending(b)' \subseteq Pending(b), executing'[b] \notin toCreate'[b]
  PROVE  Clear(b)'
<1>1. OpenSymbols' \subseteq OpenSymbols
  BY DEF OpenSymbols, OpenDeals, NotOpened
<1> QED
  BY <1>1 DEF Clear, OneSymbolEach

\* Who is idle executes nothing.
LEMMA IdleHasNoOrder ==
  ASSUME AdmissionOK, NEW e \in Executors, step[e] = "idle"
  PROVE  executing[e] = NoOrder /\ executing[e] \notin Orders
BY AdmissionAssumption DEF AdmissionOK

\* An accepted batch is clear: it was judged by the orders that are open now.
LEMMA AcceptedIsClear ==
  ASSUME AdmissionOK, NEW b \in Batches, AcceptBatch(b)
  PROVE  Clear(b)'
<1>1. PICK batch \in SUBSET (Orders \ asked) \ {{}} :
        ValidBatch(batch) /\ toCreate' = [toCreate EXCEPT ![b] = batch]
  BY DEF AcceptBatch
<1>2. UNCHANGED account /\ executing' = executing /\ b \in Executors /\ step[b] = "idle"
  BY DEF AcceptBatch, Executors
<1>3. toCreate'[b] = batch /\ executing'[b] \notin Orders
  BY <1>1, <1>2, IdleHasNoOrder DEF AdmissionOK
<1>4. Pending(b)' = batch
  BY <1>3 DEF Pending
<1>5. OpenSymbols' = OpenSymbols
  BY <1>2 DEF OpenSymbols, OpenDeals, account
<1> QED
  BY <1>1, <1>3, <1>4, <1>5 DEF Clear, ValidBatch, OneSymbolEach

\* Creating an order only makes fewer orders pending.
LEMMA CreatingLosesOrders ==
  ASSUME AdmissionOK, NEW b \in Batches, CreateNext(b)
  PROVE  Pending(b)' \subseteq Pending(b) /\ executing'[b] \notin toCreate'[b] /\ UNCHANGED account
<1>1. PICK o \in toCreate[b] :
        /\ toCreate' = [toCreate EXCEPT ![b] = @ \ {o}]
        /\ executing' = executing \/ Begin(b, o)
  BY DEF CreateNext
<1>2. b \in Executors /\ step[b] = "idle" /\ UNCHANGED account
  BY DEF CreateNext, Executors
<1>3. toCreate'[b] = toCreate[b] \ {o} /\ toCreate[b] \subseteq Orders
  BY <1>1 DEF AdmissionOK
<1>4. executing[b] \notin Orders
  BY <1>2, IdleHasNoOrder
<1>5. CASE executing' = executing
  BY <1>2, <1>3, <1>4, <1>5 DEF Pending
<1>6. CASE Begin(b, o)
  <2>1. executing'[b] = o
    BY <1>2, <1>6 DEF Begin, AdmissionOK
  <2> QED
    BY <1>2, <1>3, <2>1 DEF Pending
<1> QED
  BY <1>1, <1>5, <1>6

\* A submission opens an order's symbol, which no other pending order has.
LEMMA SubmissionStaysClear ==
  ASSUME BatchInv, TypeOK', IdleBeyondDeployment', LoneBatch, LoneBatch', running' = running,
         NEW x \in Executors, Submit(x), Accept(executing[x]), NEW b \in Batches
  PROVE  Clear(b)'
<1>1. TypeOK /\ b \in Executors /\ Clear(b)
  BY DEF BatchInv, PendingIsClear, Clear, Executors
<1>2. CASE b \notin running.batches
  <2>1. Spenders' = running.batches
    BY DeploymentTermsKept, LoneBatchIsOneExecutor
  <2>2. toCreate'[b] = {} /\ step'[b] = "idle"
    BY <1>1, <1>2, <2>1 DEF IdleBeyondDeployment
  <2>3. executing'[b] = NoOrder
    BY <1>1, <2>2 DEF TypeOK, AdmissionOK
  <2> QED
    BY <2>2, <2>3, AdmissionAssumption DEF Pending, Clear, OneSymbolEach
<1>3. CASE b \in running.batches
  <2> DEFINE o == executing[x]
  <2>1. x \in Spenders /\ b \in Spenders
    BY <1>3, LoneBatchIsOneExecutor DEF BatchInv, IdleBeyondDeployment, Submit
  <2>2. x = b
    BY <1>1, <2>1, OneSpender, LoneBatchIsOneExecutor DEF TypeOK
  <2>3. o \in Orders /\ o \in Pending(b) /\ o \notin toCreate[b]
    BY <1>1, <2>2, ExecutedOrder DEF TypeOK, Submit, Pending, Clear
  <2>4. toCreate'[b] = toCreate[b] /\ executing'[b] = NoOrder
    BY <1>1, <2>2 DEF Submit, TypeOK, AdmissionOK
  <2>5. Pending(b)' = toCreate[b] /\ toCreate[b] \subseteq Pending(b)
    BY <2>4, AdmissionAssumption DEF Pending
  <2>6. \A p \in toCreate[b] : SymbolOf[p] # SymbolOf[o]
    BY <1>1, <2>3, <2>5 DEF Clear, OneSymbolEach
  <2>7. OpenSymbols' \subseteq OpenSymbols \cup {SymbolOf[o]}
    BY <1>1, <2>3, AcceptGoesForward DEF TypeOK, OpenSymbols, OpenDeals
  <2>8. executing'[b] \notin toCreate'[b]
    BY <1>1, <2>4, AdmissionAssumption DEF TypeOK, AdmissionOK
  <2> QED
    BY <1>1, <2>5, <2>6, <2>7, <2>8 DEF Clear, OneSymbolEach
<1> QED
  BY <1>2, <1>3

\* Every step keeps what is pending of the lone batch clear.
LEMMA PendingStaysClear ==
  ASSUME BatchInv, TypeOK', IdleBeyondDeployment', [Next]_vars, LoneBatch, NEW b \in Batches
  PROVE  Clear(b)'
<1>1. TypeOK /\ AdmissionOK /\ AdmissionOK' /\ Clear(b) /\ b \in Executors
  BY DEF BatchInv, PendingIsClear, Clear, TypeOK, Executors
<1>2. running' = running /\ LoneBatch'
  BY DeploymentKept, DeploymentTermsKept
<1>3. CASE UNCHANGED admission /\ \A d \in Deals : NotOpened(d)
  <2>1. Pending(b)' = Pending(b) /\ executing'[b] \notin toCreate'[b]
    BY <1>1, <1>3 DEF admission, Pending, Clear
  <2> QED
    BY <1>1, <1>3, <2>1, ClearStaysClear
<1>4. CASE AdmissionNext
  <2>1. ASSUME NEW x \in Executors, Submit(x), Accept(executing[x]) PROVE Clear(b)'
    BY <1>2, <2>1, SubmissionStaysClear
  <2>2. CASE UNCHANGED account
    <3>1. \A d \in Deals : NotOpened(d)
      BY <2>2, StandStill
    <3>2. CASE AcceptBatch(b)
      BY <1>1, <3>2, AcceptedIsClear
    <3>3. CASE CreateNext(b)
      BY <1>1, <3>1, <3>3, CreatingLosesOrders, ClearStaysClear
    <3>4. CASE toCreate'[b] = toCreate[b] /\ (executing'[b] = executing[b] \/ executing'[b] = NoOrder)
      <4>1. NoOrder \notin Orders /\ toCreate[b] \subseteq Orders
        BY <1>1, AdmissionAssumption DEF AdmissionOK
      <4>2. Pending(b)' \subseteq Pending(b) /\ executing'[b] \notin toCreate'[b]
        BY <1>1, <3>4, <4>1 DEF Pending, Clear
      <4> QED
        BY <1>1, <3>1, <4>2, ClearStaysClear
    <3>5. CASE toCreate'[b] = toCreate[b] /\ Takes(b)
      <4>1. b \in running.batches /\ step[b] = "idle"
        BY <3>5, LoneBatchIsOneExecutor DEF Takes
      <4>2. CASE CreateNext(b)
        BY <3>3, <4>2
      <4>3. ASSUME NEW y \in running.batches, AcceptBatch(y) \/ CreateNext(y), y # b PROVE FALSE
        BY <1>1, <4>1, <4>3, LoneBatchIsOneExecutor, OneSpender
      <4>4. ASSUME NEW y \in Executors, step[y] # "idle" PROVE y = b
        BY <1>1, <4>1, <4>4, LoneBatchIsOneExecutor, OneSpender DEF BatchInv, IdleBeyondDeployment
      <4>5. CASE AcceptBatch(b)
        BY <3>2, <4>5
      <4>6. running.workers = {}
        BY DEF LoneBatch
      <4> QED
        BY <1>4, <4>1, <4>2, <4>3, <4>4, <4>5, <4>6 DEF AdmissionNext, ReadAccount, ReadOpenOrders, Submit
    <3> QED
      BY <1>1, <1>4, <3>2, <3>3, <3>4, <3>5, BatchSteps, ExecutorSteps DEF Stays, Reads, Decides, Ends
  <2> QED
    BY <1>4, <2>1, <2>2, AdmissionSubmits
<1>5. CASE AccountMoves /\ UNCHANGED admission
  BY <1>1, <1>3, <1>5, MovesGoForward DEF TypeOK
<1>6. CASE CleanupNext /\ UNCHANGED admission
  BY <1>1, <1>3, <1>6, CleanupGoesForward
<1>7. CASE UNCHANGED <<account, admission>>
  BY <1>3, <1>7, StandStill
<1> QED
  BY <1>1, <1>4, <1>5, <1>6, <1>7, ReportKeepsTypes DEF Next, vars, TypeOK

\* Two open deals of a symbol stay apart unless a submission makes a second one.
LEMMA OpenDealsStayApart ==
  ASSUME BatchInv, [Next]_vars, LoneBatch,
         NEW d \in OpenDeals', NEW e \in OpenDeals', SymbolOf[d] = SymbolOf[e], {d, e} \cap Orders # {}
  PROVE  d = e
<1>1. TypeOK /\ d \in Deals /\ e \in Deals /\ deal'[d].phase \in OpenPhase /\ deal'[e].phase \in OpenPhase
  BY DEF BatchInv, OpenDeals
<1>2. CASE NotOpened(d) /\ NotOpened(e)
  BY <1>1, <1>2 DEF NotOpened, OpenDeals, BatchInv, OneOpenDealPerSymbol
<1>3. CASE \A y \in Deals : NotOpened(y)
  BY <1>1, <1>2, <1>3
<1>4. ASSUME NEW x \in Executors, Submit(x), Accept(executing[x]) PROVE d = e
  <2> DEFINE o == executing[x]
  <2>1. x \in running.batches /\ x \in Batches /\ o \in Orders
    <3>1. x \in running.batches
      BY <1>4, LoneBatchIsOneExecutor DEF BatchInv, IdleBeyondDeployment, Submit
    <3>2. running.batches \subseteq Batches
      BY <1>1, AdmissionAssumption DEF TypeOK, AdmissionOK, Deployment
    <3> QED
      BY <1>1, <1>4, <3>1, <3>2, ExecutedOrder DEF TypeOK, Submit
  <2>2. SymbolOf[o] \notin OpenSymbols
    BY <2>1 DEF BatchInv, PendingIsClear, Pending
  <2>3. \A y \in Deals : SymbolOf[y] = SymbolOf[o] => deal[y].phase \notin OpenPhase
    BY <2>2, NoneOpenOf
  <2>4. \A y \in Deals \ {o} : deal'[y] = deal[y]
    BY <1>1, <1>4, <2>1, AcceptGoesForward DEF TypeOK
  <2>5. CASE d # o /\ e # o
    BY <1>1, <1>2, <2>4, <2>5 DEF NotOpened
  <2>6. CASE d = o \/ e = o
    BY <1>1, <2>3, <2>4, <2>6
  <2> QED
    BY <2>5, <2>6
<1>5. CASE UNCHANGED account
  BY <1>3, <1>5, StandStill
<1>6. CASE AccountMoves
  BY <1>1, <1>3, <1>6, MovesGoForward DEF TypeOK
<1>7. CASE AdmissionNext
  BY <1>4, <1>5, <1>7, AdmissionSubmits
<1>8. CASE CleanupNext
  BY <1>1, <1>3, <1>8, CleanupGoesForward
<1> QED
  BY <1>1, <1>5, <1>6, <1>7, <1>8, ReportKeepsTypes DEF Next, vars, TypeOK

\* Batches that run one at a time and execute their own orders never let two deals of a
\* symbol have open orders, whatever fills, ends or is cancelled between the one read of
\* the open orders and the last submission (SYMBOL_ALREADY_HAS_OPEN_ORDER).
THEOREM OneOpenDeal == Spec => []OneOpenDealPerSymbol
<1>1. Init => BatchInv
  <2> SUFFICES ASSUME Init PROVE BatchInv
    OBVIOUS
  <2>1. /\ \A e \in Executors : step[e] = "idle" /\ executing[e] = NoOrder
        /\ \A b \in Batches : toCreate[b] = {}
    BY DEF Init, AdmissionInit
  <2>2. \A o \in Orders : o \notin OpenDeals
    BY DEF Init, AccountInit, OpenDeals, OpenPhase
  <2>3. \A b \in Batches : Pending(b) = {} /\ executing[b] \notin toCreate[b]
    BY <2>1, AdmissionAssumption DEF Pending, Executors
  <2>4. IdleBeyondDeployment
    BY <2>1 DEF IdleBeyondDeployment
  <2>5. PendingIsClear
    BY <2>3 DEF PendingIsClear, OneSymbolEach
  <2>6. OneOpenDealPerSymbol
    BY <2>2 DEF OneOpenDealPerSymbol
  <2> QED
    BY <2>4, <2>5, <2>6, InitialTypes DEF BatchInv
<1>2. BatchInv /\ [Next]_vars => BatchInv'
  <2> SUFFICES ASSUME BatchInv, [Next]_vars PROVE BatchInv'
    OBVIOUS
  <2>1. TypeOK' /\ IdleBeyondDeployment'
    BY NextTypes, OthersStayIdle DEF BatchInv
  <2>2. LoneBatch' <=> LoneBatch
    BY DeploymentKept, DeploymentTermsKept
  <2>3. LoneBatch => \A b \in Batches : Clear(b)'
    BY <2>1, PendingStaysClear
  <2>4. PendingIsClear'
    BY <2>2, <2>3 DEF PendingIsClear, Clear
  <2>5. OneOpenDealPerSymbol'
    BY <2>2, OpenDealsStayApart DEF OneOpenDealPerSymbol
  <2> QED
    BY <2>1, <2>4, <2>5 DEF BatchInv
<1>3. BatchInv => OneOpenDealPerSymbol
  BY DEF BatchInv
<1> QED
  BY <1>1, <1>2, <1>3, PTL DEF Spec
=============================================================================
