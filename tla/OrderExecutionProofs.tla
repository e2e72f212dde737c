------------------------ MODULE OrderExecutionProofs ------------------------
(***************************************************************************)
(* Proofs about OrderExecution, for any number of orders, executors and    *)
(* attempts.                                                               *)
(***************************************************************************)
EXTENDS OrderExecution, TLAPS

----------------------------------------------------------------------------
(* Types.  The steps of a process and the writes to a table first. *)

\* A jump to another step of an execution keeps the types of the processes.
LEMMA GotoType ==
  ASSUME ProcessesOK, NEW p \in Procs, pc[p] # "idle",
         NEW l \in PcLabel \ {"idle", "report"}, Goto(p, l)
  PROVE  ProcessesOK'
BY DEF ProcessesOK, Goto

\* Returning a status, or raising, keeps the types of the processes.
LEMMA ReturnType ==
  ASSUME ProcessesOK, NEW p \in Procs, pc[p] # "idle",
         NEW s \in Outcome, Return(p, s)
  PROVE  ProcessesOK'
BY DEF ProcessesOK, Return, PcLabel

\* What the adapter tells its callback is well typed.
LEMMA TellType ==
  ASSUME ProcessesOK, NEW p \in Procs, pc[p] # "idle",
         NEW s \in BrokerStatus, NEW id \in BOOLEAN, Tell(p, s, id)
  PROVE  ProcessesOK'
BY DEF ProcessesOK, Tell, PcLabel, Outcome, BrokerStatus

\* A process that lets go of its order is well typed.
LEMMA IdleType ==
  ASSUME ProcessesOK, NEW p \in Procs, BecomeIdle(p)
  PROVE  ProcessesOK'
BY ExecutionAssumption DEF ProcessesOK, BecomeIdle, PcLabel, Outcome

\* Writing a status keeps the orders table well typed.
LEMMA StatusType ==
  ASSUME order \in [Orders -> OrderRow], NEW o \in Orders, NEW s \in OrderStatus, SetStatus(o, s)
  PROVE  order' \in [Orders -> OrderRow]
BY DEF SetStatus, OrderRow

\* Writing, or erasing, a submission claim keeps the orders table well typed.
LEMMA ClaimType ==
  ASSUME order \in [Orders -> OrderRow], NEW o \in Orders, NEW c \in Procs \cup {NoClaim},
         order' = [order EXCEPT ![o].claim = c]
  PROVE  order' \in [Orders -> OrderRow]
BY DEF OrderRow

\* The adapter's report keeps the orders table well typed.
LEMMA UpdateType ==
  ASSUME order \in [Orders -> OrderRow], ProcessesOK, NEW p \in Procs, target[p] \in Orders,
         pc[p] = "report", MergeUpdate(p)
  PROVE  order' \in [Orders -> OrderRow]
BY DEF MergeUpdate, OrderRow, ProcessesOK, BrokerStatus

\* A job write keeps the jobs table well typed.
LEMMA JobType ==
  ASSUME job \in [Orders -> JobRow], NEW o \in Orders, NEW s \in JobStatus, SetJob(o, s)
  PROVE  job' \in [Orders -> JobRow]
BY DEF SetJob, JobRow

\* An executing process has an order.
LEMMA Executing ==
  ASSUME ProcessesOK, NEW p \in Procs, pc[p] # "idle"
  PROVE  target[p] \in Orders
BY DEF ProcessesOK

\* Every step keeps every variable in its type.
LEMMA TypeStep == TypeOK /\ [Next]_vars => TypeOK'
<1> SUFFICES ASSUME TypeOK, [Next]_vars
             PROVE  TypeOK'
  OBVIOUS
<1> USE DEF TypeOK
<1>1. ASSUME NEW p \in Procs, NEW o \in Orders, ClaimNextExecutionJob(p, o)
      PROVE  TypeOK'
  <2>1. job' \in [Orders -> JobRow] /\ job[o].attempts + 1 \in 0 .. MaxAttempts
    BY <1>1, ExecutionAssumption DEF ClaimNextExecutionJob, ClaimableJob, TablesOK, JobRow, JobStatus
  <2>2. ProcessesOK'
    BY <1>1, <2>1, ExecutionAssumption DEF ClaimNextExecutionJob, ProcessesOK, PcLabel
  <2> QED
    BY <1>1, <2>1, <2>2 DEF ClaimNextExecutionJob, TablesOK, RequestsOK, broker
<1>2. ASSUME NEW p \in Procs, NEW o \in Orders, ProcessOrderNow(p, o)
      PROVE  TypeOK'
  <2>1. ProcessesOK'
    BY <1>2, ExecutionAssumption DEF ProcessOrderNow, ProcessesOK, PcLabel
  <2> QED
    BY <1>2, <2>1 DEF ProcessOrderNow, TablesOK, RequestsOK, db, broker
<1>3. ASSUME NEW p \in Procs, ConsultPersistedOrder(p)
      PROVE  TypeOK'
  <2>1. pc[p] # "idle" /\ target[p] \in Orders
    BY <1>3, Executing DEF ConsultPersistedOrder
  <2>2. order[target[p]].status \in Outcome
    BY <2>1 DEF TablesOK, OrderRow, Outcome
  <2>3. ProcessesOK'
    BY <1>3, <2>1, <2>2, GotoType, ReturnType DEF ConsultPersistedOrder, Raise, PcLabel, Outcome
  <2> QED
    BY <1>3, <2>3 DEF ConsultPersistedOrder, TablesOK, RequestsOK, db, broker
<1>4. ASSUME NEW p \in Procs, RunBrokerPreflight(p)
      PROVE  TypeOK'
  <2>1. ProcessesOK'
    BY <1>4, GotoType DEF RunBrokerPreflight, PcLabel
  <2> QED
    BY <1>4, <2>1 DEF RunBrokerPreflight, TablesOK, RequestsOK, db, broker
<1>5. ASSUME NEW p \in Procs, WriteSubmissionClaim(p)
      PROVE  TypeOK'
  <2>1. pc[p] # "idle" /\ target[p] \in Orders
    BY <1>5, Executing DEF WriteSubmissionClaim
  <2>2. order' \in [Orders -> OrderRow]
    BY <1>5, <2>1, ClaimType DEF WriteSubmissionClaim, TablesOK
  <2>3. ProcessesOK'
    BY <1>5, <2>1, GotoType DEF WriteSubmissionClaim, PcLabel
  <2> QED
    BY <1>5, <2>2, <2>3 DEF WriteSubmissionClaim, TablesOK, RequestsOK, broker
<1>6. ASSUME NEW p \in Procs, ConfirmSubmissionClaim(p)
      PROVE  TypeOK'
  <2>1. ProcessesOK'
    BY <1>6, GotoType DEF ConfirmSubmissionClaim, PcLabel
  <2> QED
    BY <1>6, <2>1 DEF ConfirmSubmissionClaim, TablesOK, RequestsOK, db, broker
<1>7. ASSUME NEW p \in Procs, PlaceOrder(p)
      PROVE  TypeOK'
  <2>1. pc[p] # "idle" /\ target[p] \in Orders
    BY <1>7, Executing DEF PlaceOrder
  <2>2. ProcessesOK'
    BY <1>7, <2>1, TellType DEF PlaceOrder, RequestForbidden, RequestRefused,
       RequestAccepted, BrokerStatus, OrderStatus
  <2>3. /\ sent' = sent \/ sent' = [sent EXCEPT ![target[p]] = @ + 1]
        /\ accepted' = accepted \/ accepted' = [accepted EXCEPT ![target[p]] = @ + 1]
    BY <1>7 DEF PlaceOrder, RequestForbidden, RequestRefused, RequestAccepted, broker
  <2>4. RequestsOK'
    BY <2>1, <2>3 DEF RequestsOK
  <2> QED
    BY <1>7, <2>2, <2>4 DEF PlaceOrder, TablesOK, db
<1>8. ASSUME NEW p \in Procs, HandleBrokerUpdates(p)
      PROVE  TypeOK'
  <2>1. pc[p] # "idle" /\ target[p] \in Orders
    BY <1>8, Executing DEF HandleBrokerUpdates
  <2>2. order' \in [Orders -> OrderRow]
    BY <1>8, <2>1, UpdateType DEF HandleBrokerUpdates, TablesOK
  <2>3. ProcessesOK'
    BY <1>8, <2>1, GotoType DEF HandleBrokerUpdates, PcLabel
  <2> QED
    BY <1>8, <2>2, <2>3 DEF HandleBrokerUpdates, TablesOK, RequestsOK, broker
<1>9. ASSUME NEW p \in Procs, RereadOrder(p)
      PROVE  TypeOK'
  <2>1. pc[p] # "idle" /\ target[p] \in Orders
    BY <1>9, Executing DEF RereadOrder
  <2>2. order[target[p]].status \in Outcome
    BY <2>1 DEF TablesOK, OrderRow, Outcome
  <2>3. ProcessesOK'
    BY <1>9, <2>1, <2>2, GotoType, ReturnType DEF RereadOrder, PcLabel
  <2> QED
    BY <1>9, <2>3 DEF RereadOrder, TablesOK, RequestsOK, db, broker
<1>10. ASSUME NEW p \in Procs, MarkOrderFailed(p)
       PROVE  TypeOK'
  <2>1. pc[p] # "idle" /\ target[p] \in Orders
    BY <1>10, Executing DEF MarkOrderFailed
  <2>2. order' \in [Orders -> OrderRow]
    BY <1>10, <2>1, StatusType DEF MarkOrderFailed, TablesOK, OrderStatus
  <2>3. ProcessesOK'
    BY <1>10, <2>1, ReturnType DEF MarkOrderFailed, Raise, Outcome, OrderStatus
  <2> QED
    BY <1>10, <2>2, <2>3 DEF MarkOrderFailed, TablesOK, RequestsOK, broker
<1>11. ASSUME NEW p \in Procs, SettleJob(p)
       PROVE  TypeOK'
  <2>1. pc[p] # "idle" /\ target[p] \in Orders
    BY <1>11, Executing DEF SettleJob
  <2>2. JobStatusAfter(outcome[p], tries[p]) \in JobStatus
    BY DEF JobStatusAfter, JobStatus
  <2>3. job' \in [Orders -> JobRow]
    BY <1>11, <2>1, <2>2, JobType DEF SettleJob, TablesOK
  <2>4. ProcessesOK'
    BY <1>11, <2>1, IdleType, ReturnType DEF SettleJob, Outcome
  <2> QED
    BY <1>11, <2>3, <2>4 DEF SettleJob, TablesOK, RequestsOK, broker
<1>12. ASSUME NEW p \in Procs, SettleBatchJob(p)
       PROVE  TypeOK'
  <2>1. pc[p] # "idle" /\ target[p] \in Orders
    BY <1>12, Executing DEF SettleBatchJob
  <2>2. job' \in [Orders -> JobRow]
    BY <1>12, <2>1, JobType DEF SettleBatchJob, TablesOK, JobStatus
  <2>3. ProcessesOK'
    BY <1>12, IdleType DEF SettleBatchJob
  <2> QED
    BY <1>12, <2>2, <2>3 DEF SettleBatchJob, TablesOK, RequestsOK, broker
<1>13. ASSUME NEW p \in Procs, Crash(p)
       PROVE  TypeOK'
  BY <1>13, IdleType DEF Crash, TablesOK, RequestsOK, db, broker
<1>14. ASSUME NEW o \in Orders, EnqueueOrderExecution(o)
       PROVE  TypeOK'
  <2>1. job' \in [Orders -> JobRow]
    BY <1>14, ExecutionAssumption DEF EnqueueOrderExecution, TablesOK, JobRow, JobStatus
  <2> QED
    BY <1>14, <2>1 DEF EnqueueOrderExecution, TablesOK, ProcessesOK, RequestsOK, local, broker
<1>15. ASSUME NEW o \in Orders, EnsureProtectionMetadata(o)
       PROVE  TypeOK'
  <2>1. order' \in [Orders -> OrderRow]
    BY <1>15, ClaimType DEF EnsureProtectionMetadata, TablesOK
  <2> QED
    BY <1>15, <2>1 DEF EnsureProtectionMetadata, TablesOK, ProcessesOK, RequestsOK, local, broker
<1>16. ASSUME NEW o \in Orders, RefreshOrderStatus(o)
       PROVE  TypeOK'
  <2>1. order' \in [Orders -> OrderRow]
    BY <1>16, StatusType DEF RefreshOrderStatus, TablesOK, BrokerStatus
  <2> QED
    BY <1>16, <2>1 DEF RefreshOrderStatus, TablesOK, ProcessesOK, RequestsOK, local, broker
<1>17. CASE UNCHANGED vars
  BY <1>17 DEF vars, TablesOK, ProcessesOK, RequestsOK
<1> QED
  BY <1>1, <1>2, <1>3, <1>4, <1>5, <1>6, <1>7, <1>8, <1>9, <1>10, <1>11, <1>12, <1>13,
     <1>14, <1>15, <1>16, <1>17 DEF Next, Take, ProcessBatch, Execute, Environment

\* Statuses, labels and counters always keep their types: in particular no job uses
\* more than max_attempts attempts.
THEOREM TypeCorrect == Spec => []TypeOK
<1>1. Init => TypeOK
  BY ExecutionAssumption DEF Init, TypeOK, TablesOK, ProcessesOK, RequestsOK, OrderRow,
     JobRow, OrderStatus, JobStatus, PcLabel, Outcome
<1> QED
  BY <1>1, TypeStep, PTL DEF Spec

----------------------------------------------------------------------------
(* What a write leaves alone. *)

\* A status write changes the status of one order and nothing else.
LEMMA StatusEffect ==
  ASSUME order \in [Orders -> OrderRow], NEW o \in Orders, NEW s, SetStatus(o, s)
  PROVE  \A x \in Orders :
           /\ order'[x].bid = order[x].bid
           /\ order'[x].claim = order[x].claim
           /\ order'[x].status = IF x = o THEN s ELSE order[x].status
BY DEF SetStatus, OrderRow

\* A claim write changes the claim of one order and nothing else.
LEMMA ClaimEffect ==
  ASSUME order \in [Orders -> OrderRow], NEW o \in Orders, NEW c,
         order' = [order EXCEPT ![o].claim = c]
  PROVE  \A x \in Orders :
           /\ order'[x].bid = order[x].bid
           /\ order'[x].status = order[x].status
           /\ order'[x].claim = IF x = o THEN c ELSE order[x].claim
BY DEF OrderRow

\* The adapter's report changes the status of one order and may set its id.
LEMMA UpdateEffect ==
  ASSUME order \in [Orders -> OrderRow], NEW p \in Procs, target[p] \in Orders, MergeUpdate(p)
  PROVE  \A x \in Orders :
           /\ order'[x].claim = order[x].claim
           /\ order'[x].bid = IF x = target[p] THEN order[x].bid \/ hasId[p] ELSE order[x].bid
           /\ order'[x].status = IF x = target[p] THEN outcome[p] ELSE order[x].status
BY DEF MergeUpdate, OrderRow

\* A job write changes the status of one job and nothing else.
LEMMA JobEffect ==
  ASSUME job \in [Orders -> JobRow], NEW o \in Orders, NEW s, SetJob(o, s)
  PROVE  \A x \in Orders : job'[x].status = IF x = o THEN s ELSE job[x].status
BY DEF SetJob, JobRow

\* A request leaves for one order, the broker accepts no more than left, and an id
\* comes with an acceptance only.
LEMMA RequestEffect ==
  ASSUME ProcessesOK, RequestsOK, NEW p \in Procs, target[p] \in Orders, PlaceOrder(p)
  PROVE  /\ \A x \in Orders :
              /\ x # target[p] => sent'[x] = sent[x] /\ accepted'[x] = accepted[x]
              /\ sent'[x] \in {sent[x], sent[x] + 1}
              /\ accepted'[x] = accepted[x] \/ (accepted'[x] = accepted[x] + 1 /\ sent'[x] = sent[x] + 1)
         /\ pc' = [pc EXCEPT ![p] = "report"]
         /\ hasId'[p] => accepted'[target[p]] > 0
         /\ outcome'[p] \in Submitted => hasId'[p]
         /\ \A q \in Procs \ {p} : hasId'[q] = hasId[q] /\ outcome'[q] = outcome[q]
         /\ UNCHANGED <<order, job, creating, target>>
<1>1. UNCHANGED <<order, job, creating>>
  BY DEF PlaceOrder, db
<1>2. CASE RequestForbidden(p)
  BY <1>1, <1>2 DEF RequestForbidden, Tell, broker, ProcessesOK, RequestsOK, Submitted
<1>3. CASE RequestRefused(p)
  BY <1>1, <1>3 DEF RequestRefused, Tell, ProcessesOK, RequestsOK, Submitted
<1>4. CASE RequestAccepted(p)
  <2>1. /\ accepted' = [accepted EXCEPT ![target[p]] = @ + 1]
        /\ sent' = [sent EXCEPT ![target[p]] = @ + 1]
    BY <1>4 DEF RequestAccepted
  <2>2. CASE Tell(p, "failed", FALSE)
    BY <1>1, <2>1, <2>2 DEF Tell, ProcessesOK, RequestsOK, Submitted
  <2>3. ASSUME NEW s \in BrokerStatus, Tell(p, s, TRUE)
        PROVE  /\ pc' = [pc EXCEPT ![p] = "report"] /\ hasId'[p]
               /\ \A q \in Procs \ {p} : hasId'[q] = hasId[q] /\ outcome'[q] = outcome[q]
               /\ UNCHANGED target
    BY <2>3 DEF Tell, ProcessesOK
  <2>4. CASE \E s \in BrokerStatus : Tell(p, s, TRUE)
    <3>1. \A x \in Orders :
            /\ x # target[p] => sent'[x] = sent[x] /\ accepted'[x] = accepted[x]
            /\ sent'[x] \in {sent[x], sent[x] + 1}
            /\ accepted'[x] = accepted[x] \/ (accepted'[x] = accepted[x] + 1 /\ sent'[x] = sent[x] + 1)
      BY <2>1 DEF RequestsOK
    <3>2. accepted'[target[p]] > 0
      BY <2>1 DEF RequestsOK
    <3> QED
      BY <1>1, <2>3, <2>4, <3>1, <3>2, Zenon
  <2> QED
    BY <1>4, <2>2, <2>4 DEF RequestAccepted
<1> QED
  BY <1>2, <1>3, <1>4 DEF PlaceOrder

----------------------------------------------------------------------------
(* Tracking: every mode, every failure. *)

\* Every step keeps the tracking invariant: one case per action.
LEMMA TrackedStep == TypeOK /\ TrackedInv /\ [Next]_vars => TrackedInv'
<1> SUFFICES ASSUME TypeOK, TrackedInv, [Next]_vars
             PROVE  TrackedInv'
  OBVIOUS
<1>0. TablesOK /\ ProcessesOK /\ RequestsOK
  BY DEF TypeOK
<1> USE <1>0 DEF TrackedInv, RowsTracked, ProcessesTracked, Submitted
<1>1. ASSUME NEW p \in Procs, NEW o \in Orders, ClaimNextExecutionJob(p, o)
      PROVE  TrackedInv'
  BY <1>1 DEF ClaimNextExecutionJob, ClaimableJob, TablesOK, ProcessesOK, RequestsOK, OrderRow, JobRow, db, local, broker
<1>2. ASSUME NEW p \in Procs, NEW o \in Orders, ProcessOrderNow(p, o)
      PROVE  TrackedInv'
  BY <1>2 DEF ProcessOrderNow, TablesOK, ProcessesOK, RequestsOK, OrderRow, JobRow, db, local, broker
<1>3. ASSUME NEW p \in Procs, ConsultPersistedOrder(p)
      PROVE  TrackedInv'
  BY <1>3 DEF ConsultPersistedOrder, Return, Raise, Goto, TablesOK, ProcessesOK, RequestsOK, OrderRow, JobRow, db, local, broker
<1>4. ASSUME NEW p \in Procs, RunBrokerPreflight(p)
      PROVE  TrackedInv'
  BY <1>4 DEF RunBrokerPreflight, Goto, TablesOK, ProcessesOK, RequestsOK, OrderRow, JobRow, db, local, broker
<1>5. ASSUME NEW p \in Procs, WriteSubmissionClaim(p)
      PROVE  TrackedInv'
  <2>1. pc[p] # "idle" /\ target[p] \in Orders
    BY <1>5, Executing DEF WriteSubmissionClaim
  <2> QED
    BY <1>5, <2>1, ClaimEffect, SMTT(40) DEF WriteSubmissionClaim, Goto, TablesOK, ProcessesOK, RequestsOK, OrderRow, JobRow, db, local, broker
<1>6. ASSUME NEW p \in Procs, ConfirmSubmissionClaim(p)
      PROVE  TrackedInv'
  BY <1>6 DEF ConfirmSubmissionClaim, Goto, TablesOK, ProcessesOK, RequestsOK, OrderRow, JobRow, db, local, broker
<1>7. ASSUME NEW p \in Procs, PlaceOrder(p)
      PROVE  TrackedInv'
  <2>1. pc[p] # "idle" /\ target[p] \in Orders
    BY <1>7, Executing DEF PlaceOrder
  <2> DEFINE Effect(x) ==
        /\ x # target[p] => sent'[x] = sent[x] /\ accepted'[x] = accepted[x]
        /\ sent'[x] \in {sent[x], sent[x] + 1}
        /\ accepted'[x] = accepted[x] \/ (accepted'[x] = accepted[x] + 1 /\ sent'[x] = sent[x] + 1)
  <2>2. /\ \A x \in Orders : Effect(x)
        /\ pc' = [pc EXCEPT ![p] = "report"]
        /\ hasId'[p] => accepted'[target[p]] > 0
        /\ outcome'[p] \in Submitted => hasId'[p]
        /\ \A q \in Procs \ {p} : hasId'[q] = hasId[q] /\ outcome'[q] = outcome[q]
        /\ UNCHANGED <<order, job, creating, target>>
    BY <1>7, <2>1, RequestEffect
  <2>3. \A x \in Orders : accepted'[x] >= accepted[x] /\ accepted'[x] <= sent'[x]
    BY <2>2 DEF RequestsOK
  <2>4. RowsTracked'
    BY <2>2, <2>3 DEF RequestsOK
  <2>5. ProcessesTracked'
    BY <2>2, <2>3 DEF RequestsOK, ProcessesOK
  <2> QED
    BY <2>4, <2>5
<1>8. ASSUME NEW p \in Procs, HandleBrokerUpdates(p)
      PROVE  TrackedInv'
  <2>1. pc[p] = "report" /\ target[p] \in Orders
    BY <1>8, Executing DEF HandleBrokerUpdates
  <2>2. /\ pc' = [pc EXCEPT ![p] = "reread"] \/ pc' = [pc EXCEPT ![p] = "fail"]
        /\ UNCHANGED <<job, target, outcome, hasId, sent, accepted>>
    BY <1>8 DEF HandleBrokerUpdates, Goto, broker
  <2>3. \A x \in Orders :
          \/ order'[x].bid = order[x].bid /\ order'[x].status = order[x].status
          \/ /\ x = target[p]
             /\ order'[x].bid = (order[x].bid \/ hasId[p])
             /\ order'[x].status = outcome[p]
    <3>1. CASE MergeUpdate(p)
      BY <2>1, <3>1, UpdateEffect DEF TablesOK
    <3>2. CASE UNCHANGED order
      BY <3>2
    <3> QED
      BY <1>8, <3>1, <3>2 DEF HandleBrokerUpdates
  <2>4. RowsTracked'
    BY <2>1, <2>2, <2>3
  <2>5. ProcessesTracked'
    BY <2>1, <2>2, <2>3, ZenonT(60) DEF ProcessesOK
  <2> QED
    BY <2>4, <2>5
<1>9. ASSUME NEW p \in Procs, RereadOrder(p)
      PROVE  TrackedInv'
  BY <1>9 DEF RereadOrder, Return, Goto, TablesOK, ProcessesOK, RequestsOK, OrderRow, JobRow, db, local, broker
<1>10. ASSUME NEW p \in Procs, MarkOrderFailed(p)
      PROVE  TrackedInv'
  <2>1. pc[p] # "idle" /\ target[p] \in Orders
    BY <1>10, Executing DEF MarkOrderFailed
  <2>2. /\ Return(p, "failed") \/ Return(p, "error")
        /\ UNCHANGED <<job, sent, accepted>>
    BY <1>10 DEF MarkOrderFailed, Raise, broker
  <2>3. \A x \in Orders :
          /\ order'[x].bid = order[x].bid
          /\ order'[x].status \in {order[x].status, "failed"}
    <3>1. CASE SetStatus(target[p], "failed")
      BY <2>1, <3>1, StatusEffect DEF TablesOK
    <3>2. CASE UNCHANGED order
      BY <3>2
    <3> QED
      BY <1>10, <3>1, <3>2 DEF MarkOrderFailed
  <2>4. RowsTracked'
    BY <2>2, <2>3
  <2>5. ProcessesTracked'
    BY <2>1, <2>2, <2>3 DEF Return, ProcessesOK
  <2> QED
    BY <2>4, <2>5
<1>11. ASSUME NEW p \in Procs, SettleJob(p)
      PROVE  TrackedInv'
  <2>1. pc[p] = "settle" /\ target[p] \in Orders
    BY <1>11, Executing DEF SettleJob
  <2>2. /\ BecomeIdle(p) \/ Return(p, "error")
        /\ UNCHANGED <<order, sent, accepted>>
    BY <1>11 DEF SettleJob, broker
  <2>3. \A x \in Orders :
          \/ job'[x].status = job[x].status
          \/ x = target[p] /\ (job'[x].status = "succeeded" => outcome[p] \in Submitted)
    <3>1. CASE SetJob(target[p], JobStatusAfter(outcome[p], tries[p]))
      BY <2>1, <3>1, JobEffect DEF TablesOK, JobStatusAfter
    <3>2. CASE UNCHANGED job
      BY <3>2
    <3> QED
      BY <1>11, <3>1, <3>2 DEF SettleJob
  <2>4. RowsTracked'
    BY <2>1, <2>2, <2>3
  <2>5. ProcessesTracked'
    BY <2>1, <2>2 DEF Return, BecomeIdle, ProcessesOK
  <2> QED
    BY <2>4, <2>5
<1>12. ASSUME NEW p \in Procs, SettleBatchJob(p)
      PROVE  TrackedInv'
  <2>1. pc[p] # "idle" /\ target[p] \in Orders
    BY <1>12, Executing DEF SettleBatchJob
  <2> QED
    BY <1>12, <2>1, JobEffect DEF SettleBatchJob, BecomeIdle, TablesOK, ProcessesOK, RequestsOK, OrderRow, JobRow, db, local, broker
<1>13. ASSUME NEW p \in Procs, Crash(p)
      PROVE  TrackedInv'
  BY <1>13 DEF Crash, BecomeIdle, TablesOK, ProcessesOK, RequestsOK, OrderRow, JobRow, db, local, broker
<1>14. ASSUME NEW o \in Orders, EnqueueOrderExecution(o)
      PROVE  TrackedInv'
  BY <1>14 DEF EnqueueOrderExecution, TablesOK, ProcessesOK, RequestsOK, OrderRow, JobRow, db, local, broker
<1>15. ASSUME NEW o \in Orders, EnsureProtectionMetadata(o)
      PROVE  TrackedInv'
  <2>1. \A x \in Orders : order'[x].bid = order[x].bid /\ order'[x].status = order[x].status
    <3>1. CASE order' = [order EXCEPT ![o].claim = NoClaim]
      BY <3>1, ClaimEffect DEF TablesOK
    <3>2. CASE UNCHANGED order
      BY <3>2
    <3> QED
      BY <1>15, <3>1, <3>2 DEF EnsureProtectionMetadata
  <2> QED
    BY <1>15, <2>1 DEF EnsureProtectionMetadata, local, broker, ProcessesOK
<1>16. ASSUME NEW o \in Orders, RefreshOrderStatus(o)
      PROVE  TrackedInv'
  <2>1. PICK s \in BrokerStatus : SetStatus(o, s)
    BY <1>16 DEF RefreshOrderStatus
  <2>2. \A x \in Orders :
          /\ order'[x].bid = order[x].bid
          /\ order'[x].status = order[x].status \/ x = o
    BY <2>1, StatusEffect DEF TablesOK
  <2> QED
    BY <1>16, <2>2 DEF RefreshOrderStatus, local, broker, ProcessesOK
<1>17. CASE UNCHANGED vars
  BY <1>17 DEF vars
<1> QED
  BY <1>1, <1>2, <1>3, <1>4, <1>5, <1>6, <1>7, <1>8, <1>9, <1>10, <1>11, <1>12, <1>13,
     <1>14, <1>15, <1>16, <1>17 DEF Next, Take, ProcessBatch, Execute, Environment

\* A succeeded job has an order with a broker order id that the broker accepted: in
\* PAPER and LIVE mode, with any number of competing executors, crashes and lost
\* answers (process_next_execution_job, _process_order_now).
THEOREM SucceededTracked == Spec => []SucceededIsTracked
<1>1. Init => TrackedInv
  BY DEF Init, TrackedInv, RowsTracked, ProcessesTracked, Submitted
<1>2. TrackedInv => SucceededIsTracked
  BY DEF TrackedInv, RowsTracked, SucceededIsTracked
<1> QED
  BY <1>1, <1>2, TrackedStep, TypeCorrect, PTL DEF Spec
----------------------------------------------------------------------------
(* One executor and one request, in LIVE mode. *)

\* A process that only moves on with its order leaves everybody alone with theirs,
\* as long as the jobs table does not change.
LEMMA KeepsExclusive ==
  ASSUME ProcessesOK, ExclusiveExecution, NEW p \in Procs, pc[p] # "idle",
         UNCHANGED <<job, target>>, NEW l, pc' = [pc EXCEPT ![p] = l]
  PROVE  ExclusiveExecution'
BY DEF ProcessesOK, ExclusiveExecution

\* A step that writes no claim and sends nothing disturbs ClaimsHeld only by where
\* its process goes.
LEMMA KeepsClaims ==
  ASSUME ProcessesOK, ClaimsHeld, NEW p \in Procs, NEW l \in PcLabel \ {"preflight", "claim", "confirm", "submit"},
         UNCHANGED <<target, sent>>, pc' = [pc EXCEPT ![p] = l],
         \A o \in Orders : order'[o].claim = order[o].claim
  PROVE  ClaimsHeld'
BY DEF ProcessesOK, ClaimsHeld

\* A process that lets go of its order may write that order's job.
LEMMA IdleFrees ==
  ASSUME ProcessesOK, ExclusiveExecution, ClaimsHeld, NEW p \in Procs, BecomeIdle(p),
         target[p] \in Orders, UNCHANGED <<order, sent>>,
         \A x \in Orders \ {target[p]} : job'[x].status = job[x].status
  PROVE  ExclusiveExecution' /\ ClaimsHeld'
<1>0. pc[p] # "idle"
  BY ExecutionAssumption DEF ProcessesOK
<1>1. /\ pc'[p] = "idle" /\ target'[p] = NoOrder
      /\ \A q \in Procs \ {p} : pc'[q] = pc[q] /\ target'[q] = target[q]
  BY DEF BecomeIdle, ProcessesOK
<1>2. \A q \in Procs \ {p} : target[q] # target[p]
  BY <1>0 DEF ExclusiveExecution
<1>3. ClaimsHeld'
  BY <1>1 DEF ClaimsHeld
<1>4. ExclusiveExecution'
  <2> SUFFICES ASSUME NEW q \in Procs, pc'[q] # "idle"
               PROVE  /\ job'[target'[q]].status = "running"
                      /\ \A r \in Procs \ {q} : target'[r] # target'[q]
    BY DEF ExclusiveExecution
  <2>1. q # p /\ pc[q] # "idle" /\ target'[q] = target[q] /\ target[q] \in Orders \ {target[p]}
    BY <1>1, <1>2, Executing
  <2> QED
    BY <1>1, <2>1, ExecutionAssumption DEF ExclusiveExecution
<1> QED
  BY <1>3, <1>4

\* In the live setting every step keeps the exclusive invariant: one case per action.
LEMMA ExclusiveStep ==
  ASSUME LiveSetting, TypeOK, ExclusiveInv, [Next]_vars
  PROVE  ExclusiveInv'
<1>0. TablesOK /\ ProcessesOK /\ RequestsOK
  BY DEF TypeOK
<1>a. \A p \in Procs : pc[p] # "idle" => \A q \in Procs \ {p} : target[q] # target[p]
  BY DEF ExclusiveInv, ExclusiveExecution
<1> USE <1>0 DEF ExclusiveInv
<1>1. ASSUME NEW p \in Procs, NEW o \in Orders, ClaimNextExecutionJob(p, o)
      PROVE  ExclusiveInv'
  <2>1. \A q \in Procs : target[q] # o
    BY <1>1, ExecutionAssumption DEF ClaimNextExecutionJob, ClaimableJob, ExclusiveExecution, ProcessesOK
  <2>2. ExclusiveExecution'
    BY <1>1, <2>1 DEF ClaimNextExecutionJob, ExclusiveExecution, ProcessesOK, TablesOK, JobRow
  <2>3. ClaimsHeld'
    BY <1>1 DEF ClaimNextExecutionJob, ClaimsHeld, ProcessesOK, broker
  <2> QED
    BY <1>1, <2>2, <2>3 DEF ClaimNextExecutionJob, AtMostOneSubmission, SubmissionIsWitnessed, Claimed, broker
<1>2. ASSUME NEW p \in Procs, NEW o \in Orders, ProcessOrderNow(p, o)
      PROVE  ExclusiveInv'
  BY <1>2 DEF ProcessOrderNow, ShouldProcessBatchNow, LiveSetting
<1>3. ASSUME NEW p \in Procs, ConsultPersistedOrder(p)
      PROVE  ExclusiveInv'
  <2>1. pc[p] = "consult" /\ target[p] \in Orders
    BY <1>3, Executing DEF ConsultPersistedOrder
  <2>2. /\ UNCHANGED <<order, job, creating, target, sent>>
        /\ \/ pc' = [pc EXCEPT ![p] = "settle"]
           \/ pc' = [pc EXCEPT ![p] = "fail"]
           \/ pc' = [pc EXCEPT ![p] = "preflight"] /\ order[target[p]].claim = NoClaim
    BY <1>3 DEF ConsultPersistedOrder, Return, Raise, Goto, Claimed, db, broker
  <2>3. ExclusiveExecution'
    BY <2>1, <2>2, KeepsExclusive
  <2>4. ClaimsHeld'
    BY <2>1, <2>2 DEF ClaimsHeld, ProcessesOK
  <2> QED
    BY <2>2, <2>3, <2>4 DEF AtMostOneSubmission, SubmissionIsWitnessed, Claimed
<1>4. ASSUME NEW p \in Procs, RunBrokerPreflight(p)
      PROVE  ExclusiveInv'
  <2>1. pc[p] = "preflight" /\ target[p] \in Orders
    BY <1>4, Executing DEF RunBrokerPreflight
  <2>2. /\ UNCHANGED <<order, job, creating, target, sent>>
        /\ pc' = [pc EXCEPT ![p] = "claim"] \/ pc' = [pc EXCEPT ![p] = "fail"]
    BY <1>4 DEF RunBrokerPreflight, Goto, db, broker
  <2>3. ExclusiveExecution'
    BY <2>1, <2>2, KeepsExclusive
  <2>4. ClaimsHeld'
    BY <2>1, <2>2 DEF ClaimsHeld, ProcessesOK
  <2> QED
    BY <2>2, <2>3, <2>4 DEF AtMostOneSubmission, SubmissionIsWitnessed, Claimed
<1>5. ASSUME NEW p \in Procs, WriteSubmissionClaim(p)
      PROVE  ExclusiveInv'
  <2>1. pc[p] = "claim" /\ target[p] \in Orders
    BY <1>5, Executing DEF WriteSubmissionClaim
  <2>2. /\ UNCHANGED <<job, creating, target, sent>>
        /\ \/ pc' = [pc EXCEPT ![p] = "confirm"] /\ order' = [order EXCEPT ![target[p]].claim = p]
           \/ pc' = [pc EXCEPT ![p] = "fail"]
        /\ UNCHANGED order \/ order' = [order EXCEPT ![target[p]].claim = p]
    BY <1>5 DEF WriteSubmissionClaim, Goto, broker
  <2>3. \A x \in Orders : order'[x].claim = order[x].claim \/ (x = target[p] /\ order'[x].claim = p)
    <3>1. CASE UNCHANGED order
      BY <3>1
    <3>2. CASE order' = [order EXCEPT ![target[p]].claim = p]
      BY <2>1, <3>2, ClaimEffect DEF TablesOK
    <3> QED
      BY <2>2, <3>1, <3>2
  <2>4. pc' = [pc EXCEPT ![p] = "confirm"] => order'[target[p]].claim = p
    <3>1. ASSUME pc' = [pc EXCEPT ![p] = "confirm"]
          PROVE  order' = [order EXCEPT ![target[p]].claim = p]
      BY <2>1, <2>2, <3>1 DEF ProcessesOK
    <3> QED
      BY <2>1, <3>1, ClaimEffect DEF TablesOK
  <2>5. sent[target[p]] = 0
    BY <2>1 DEF ClaimsHeld, SubmissionIsWitnessed, Claimed, RequestsOK
  <2>6. ExclusiveExecution'
    BY <2>1, <2>2, KeepsExclusive
  <2>7. ClaimsHeld'
    <3> SUFFICES ASSUME NEW q \in Procs
                 PROVE  /\ pc'[q] \in {"preflight", "claim"} => order'[target'[q]].claim = NoClaim
                        /\ pc'[q] \in {"confirm", "submit"} =>
                             order'[target'[q]].claim = q /\ sent'[target'[q]] = 0
      BY DEF ClaimsHeld
    <3>1. CASE q = p
      BY <2>2, <2>4, <2>5, <3>1 DEF ProcessesOK
    <3>2. CASE q # p /\ pc[q] # "idle"
      <4>1. pc'[q] = pc[q] /\ target'[q] = target[q] /\ sent' = sent
        BY <2>2, <3>2 DEF ProcessesOK
      <4>2. target[q] \in Orders /\ target[q] # target[p]
        BY <1>a, <2>1, <3>2, Executing
      <4>3. order'[target[q]].claim = order[target[q]].claim
        BY <2>3, <4>2
      <4> QED
        BY <4>1, <4>3 DEF ClaimsHeld
    <3>3. CASE q # p /\ pc[q] = "idle"
      BY <2>2, <3>3 DEF ProcessesOK
    <3> QED
      BY <3>1, <3>2, <3>3
  <2> QED
    BY <2>2, <2>3, <2>6, <2>7, ExecutionAssumption DEF AtMostOneSubmission, SubmissionIsWitnessed, Claimed
<1>6. ASSUME NEW p \in Procs, ConfirmSubmissionClaim(p)
      PROVE  ExclusiveInv'
  <2>1. pc[p] = "confirm" /\ target[p] \in Orders
    BY <1>6, Executing DEF ConfirmSubmissionClaim
  <2>2. /\ UNCHANGED <<order, job, creating, target, sent>>
        /\ pc' = [pc EXCEPT ![p] = "submit"] \/ pc' = [pc EXCEPT ![p] = "fail"]
    BY <1>6 DEF ConfirmSubmissionClaim, Goto, db, broker
  <2>3. ExclusiveExecution'
    BY <2>1, <2>2, KeepsExclusive
  <2>4. ClaimsHeld'
    BY <2>1, <2>2 DEF ClaimsHeld, ProcessesOK
  <2> QED
    BY <2>2, <2>3, <2>4 DEF AtMostOneSubmission, SubmissionIsWitnessed, Claimed
<1>7. ASSUME NEW p \in Procs, PlaceOrder(p)
      PROVE  ExclusiveInv'
  <2>1. pc[p] = "submit" /\ target[p] \in Orders
    BY <1>7, Executing DEF PlaceOrder
  <2>2. /\ \A x \in Orders : x # target[p] => sent'[x] = sent[x]
        /\ sent'[target[p]] \in {sent[target[p]], sent[target[p]] + 1}
        /\ pc' = [pc EXCEPT ![p] = "report"]
        /\ UNCHANGED <<order, job, creating, target>>
    BY <1>7, <2>1, RequestEffect
  <2>3. order[target[p]].claim = p /\ sent[target[p]] = 0
    BY <2>1 DEF ClaimsHeld
  <2>4. ExclusiveExecution'
    BY <2>1, <2>2, KeepsExclusive
  <2>5. ClaimsHeld'
    <3> SUFFICES ASSUME NEW q \in Procs, pc'[q] \in {"preflight", "claim", "confirm", "submit"}
                 PROVE  /\ pc'[q] = pc[q] /\ sent'[target[q]] = sent[target[q]]
      BY <2>2 DEF ClaimsHeld
    <3>1. q # p
      BY <2>2 DEF ProcessesOK
    <3>2. pc'[q] = pc[q]
      BY <2>2, <3>1 DEF ProcessesOK
    <3>3. target[q] \in Orders /\ target[q] # target[p]
      BY <1>a, <2>1, <3>1, <3>2, Executing
    <3> QED
      BY <2>2, <3>2, <3>3
  <2>6. AtMostOneSubmission' /\ SubmissionIsWitnessed'
    BY <2>2, <2>3, ExecutionAssumption DEF AtMostOneSubmission, SubmissionIsWitnessed, Claimed
  <2> QED
    BY <2>2, <2>4, <2>5, <2>6
<1>8. ASSUME NEW p \in Procs, HandleBrokerUpdates(p)
      PROVE  ExclusiveInv'
  <2>1. pc[p] = "report" /\ target[p] \in Orders
    BY <1>8, Executing DEF HandleBrokerUpdates
  <2>2. /\ pc' = [pc EXCEPT ![p] = "reread"] \/ pc' = [pc EXCEPT ![p] = "fail"]
        /\ UNCHANGED <<job, creating, target, sent>>
    BY <1>8 DEF HandleBrokerUpdates, Goto, broker
  <2>3. \A x \in Orders : order'[x].claim = order[x].claim
    <3>1. CASE MergeUpdate(p)
      BY <2>1, <3>1, UpdateEffect DEF TablesOK
    <3>2. CASE UNCHANGED order
      BY <3>2
    <3> QED
      BY <1>8, <3>1, <3>2 DEF HandleBrokerUpdates
  <2>4. ExclusiveExecution'
    BY <2>1, <2>2, KeepsExclusive
  <2>5. ClaimsHeld'
    BY <2>2, <2>3, KeepsClaims DEF PcLabel
  <2> QED
    BY <2>2, <2>3, <2>4, <2>5 DEF AtMostOneSubmission, SubmissionIsWitnessed, Claimed
<1>9. ASSUME NEW p \in Procs, RereadOrder(p)
      PROVE  ExclusiveInv'
  <2>1. pc[p] = "reread" /\ target[p] \in Orders
    BY <1>9, Executing DEF RereadOrder
  <2>2. /\ UNCHANGED <<order, job, creating, target, sent>>
        /\ pc' = [pc EXCEPT ![p] = "settle"] \/ pc' = [pc EXCEPT ![p] = "fail"]
    BY <1>9 DEF RereadOrder, Return, Goto, db, broker
  <2>3. ExclusiveExecution'
    BY <2>1, <2>2, KeepsExclusive
  <2>4. ClaimsHeld'
    BY <2>2, KeepsClaims DEF PcLabel
  <2> QED
    BY <2>2, <2>3, <2>4 DEF AtMostOneSubmission, SubmissionIsWitnessed, Claimed
<1>10. ASSUME NEW p \in Procs, MarkOrderFailed(p)
       PROVE  ExclusiveInv'
  <2>1. pc[p] = "fail" /\ target[p] \in Orders
    BY <1>10, Executing DEF MarkOrderFailed
  <2>2. /\ UNCHANGED <<job, creating, target, sent>>
        /\ pc' = [pc EXCEPT ![p] = "settle"]
    BY <1>10 DEF MarkOrderFailed, Return, Raise, broker
  <2>3. \A x \in Orders : order'[x].claim = order[x].claim
    <3>1. CASE SetStatus(target[p], "failed")
      BY <2>1, <3>1, StatusEffect DEF TablesOK
    <3>2. CASE UNCHANGED order
      BY <3>2
    <3> QED
      BY <1>10, <3>1, <3>2 DEF MarkOrderFailed
  <2>4. ExclusiveExecution'
    BY <2>1, <2>2, KeepsExclusive
  <2>5. ClaimsHeld'
    BY <2>2, <2>3, KeepsClaims DEF PcLabel
  <2> QED
    BY <2>2, <2>3, <2>4, <2>5 DEF AtMostOneSubmission, SubmissionIsWitnessed, Claimed
<1>11. ASSUME NEW p \in Procs, SettleJob(p)
       PROVE  ExclusiveInv'
  <2>1. pc[p] = "settle" /\ target[p] \in Orders
    BY <1>11, Executing DEF SettleJob
  <2>2. UNCHANGED <<order, creating, sent>>
    BY <1>11 DEF SettleJob, broker
  <2>3. ExclusiveExecution' /\ ClaimsHeld'
    <3>1. CASE UNCHANGED job /\ Return(p, "error")
      <4>1. UNCHANGED <<job, target>> /\ pc' = [pc EXCEPT ![p] = "settle"]
        BY <3>1 DEF Return
      <4> QED
        BY <2>1, <2>2, <4>1, KeepsExclusive, KeepsClaims DEF PcLabel
    <3>2. CASE /\ BecomeIdle(p)
               /\ UNCHANGED job \/ SetJob(target[p], JobStatusAfter(outcome[p], tries[p]))
      <4>1. \A x \in Orders \ {target[p]} : job'[x].status = job[x].status
        BY <2>1, <3>2, JobEffect DEF TablesOK
      <4> QED
        BY <2>1, <2>2, <3>2, <4>1, IdleFrees DEF TablesOK
    <3> QED
      BY <1>11, <3>1, <3>2 DEF SettleJob, LiveSetting
  <2> QED
    BY <2>2, <2>3 DEF AtMostOneSubmission, SubmissionIsWitnessed, Claimed
<1>12. ASSUME NEW p \in Procs, SettleBatchJob(p)
       PROVE  ExclusiveInv'
  <2>1. pc[p] = "settle" /\ target[p] \in Orders
    BY <1>12, Executing DEF SettleBatchJob
  <2>2. UNCHANGED <<order, creating, sent>> /\ BecomeIdle(p)
    BY <1>12 DEF SettleBatchJob, broker
  <2>3. \A x \in Orders \ {target[p]} : job'[x].status = job[x].status
    BY <1>12, <2>1, JobEffect DEF SettleBatchJob, TablesOK
  <2>4. ExclusiveExecution' /\ ClaimsHeld'
    BY <2>1, <2>2, <2>3, IdleFrees
  <2> QED
    BY <2>2, <2>4 DEF AtMostOneSubmission, SubmissionIsWitnessed, Claimed
<1>13. ASSUME NEW p \in Procs, Crash(p)
       PROVE  ExclusiveInv'
  <2>1. target[p] \in Orders
    BY <1>13, Executing DEF Crash
  <2>2. UNCHANGED <<order, job, creating, sent>> /\ BecomeIdle(p)
    BY <1>13 DEF Crash, db, broker
  <2>3. ExclusiveExecution' /\ ClaimsHeld'
    BY <2>1, <2>2, IdleFrees
  <2> QED
    BY <2>2, <2>3 DEF AtMostOneSubmission, SubmissionIsWitnessed, Claimed
<1>14. ASSUME NEW o \in Orders, EnqueueOrderExecution(o)
       PROVE  ExclusiveInv'
  <2>1. UNCHANGED <<order, creating, pc, target, sent>>
    BY <1>14 DEF EnqueueOrderExecution, local, broker
  <2>2. \A q \in Procs : pc[q] # "idle" => target[q] # o
    BY <1>14 DEF EnqueueOrderExecution, ExclusiveExecution
  <2>3. ExclusiveExecution'
    BY <1>14, <2>1, <2>2, Executing DEF EnqueueOrderExecution, ExclusiveExecution, TablesOK
  <2> QED
    BY <2>1, <2>3 DEF ClaimsHeld, AtMostOneSubmission, SubmissionIsWitnessed, Claimed
<1>15. ASSUME NEW o \in Orders, EnsureProtectionMetadata(o)
       PROVE  ExclusiveInv'
  BY <1>15 DEF EnsureProtectionMetadata
<1>16. ASSUME NEW o \in Orders, RefreshOrderStatus(o)
       PROVE  ExclusiveInv'
  <2>1. UNCHANGED <<job, creating, pc, target, sent>>
    BY <1>16 DEF RefreshOrderStatus, local, broker
  <2>2. \A x \in Orders : order'[x].claim = order[x].claim
    <3>1. PICK s \in BrokerStatus : SetStatus(o, s)
      BY <1>16 DEF RefreshOrderStatus
    <3> QED
      BY <3>1, StatusEffect DEF TablesOK
  <2>3. ClaimsHeld'
    BY <2>1, <2>2, Executing DEF ClaimsHeld
  <2> QED
    BY <2>1, <2>2, <2>3 DEF ExclusiveExecution, AtMostOneSubmission, SubmissionIsWitnessed, Claimed
<1>17. CASE UNCHANGED vars
  BY <1>17 DEF vars, ExclusiveExecution, ClaimsHeld, AtMostOneSubmission, SubmissionIsWitnessed, Claimed
<1> QED
  BY <1>1, <1>2, <1>3, <1>4, <1>5, <1>6, <1>7, <1>8, <1>9, <1>10, <1>11, <1>12, <1>13,
     <1>14, <1>15, <1>16, <1>17 DEF Next, Take, ProcessBatch, Execute, Environment

\* In the live setting the exclusive invariant always holds.
LEMMA ExclusiveAlways == LiveSetting /\ Spec => []ExclusiveInv
<1>1. LiveSetting /\ Init => ExclusiveInv
  BY DEF Init, LiveSetting, ExclusiveInv, ExclusiveExecution, AtMostOneSubmission,
         SubmissionIsWitnessed, ClaimsHeld
<1>2. LiveSetting /\ TypeOK /\ ExclusiveInv /\ [Next]_vars => ExclusiveInv'
  BY ExclusiveStep
<1>3. ASSUME LiveSetting
      PROVE  Spec => []ExclusiveInv
  <2>1. Init => ExclusiveInv
    BY <1>1, <1>3
  <2>2. TypeOK /\ ExclusiveInv /\ [Next]_vars => ExclusiveInv'
    BY <1>2, <1>3
  <2> QED
    BY <2>1, <2>2, TypeCorrect, PTL DEF Spec
<1> QED
  BY <1>3

\* In LIVE mode at most one request for an order leaves for the broker, through any
\* number of crashes, timeouts, lost answers, retries and competing executors
\* (start_order_execution, process_next_execution_job).
THEOREM OneSubmission == LiveSetting /\ Spec => []AtMostOneSubmission
<1>1. ExclusiveInv => AtMostOneSubmission
  BY DEF ExclusiveInv
<1> QED
  BY <1>1, ExclusiveAlways, PTL

\* In LIVE mode no two processes ever execute the same order.
THEOREM OneExecutor == LiveSetting /\ Spec => []ExclusiveExecution
<1>1. ExclusiveInv => ExclusiveExecution
  BY DEF ExclusiveInv
<1> QED
  BY <1>1, ExclusiveAlways, PTL

\* In LIVE mode every request that left is witnessed by a persisted claim.
THEOREM SubmissionWitnessed == LiveSetting /\ Spec => []SubmissionIsWitnessed
<1>1. ExclusiveInv => SubmissionIsWitnessed
  BY DEF ExclusiveInv
<1> QED
  BY <1>1, ExclusiveAlways, PTL

----------------------------------------------------------------------------
(* Finished jobs. *)

\* In the live setting no step moves a finished job.
LEMMA FinishedStep ==
  ASSUME LiveSetting, TypeOK, ExclusiveInv, [Next]_vars,
         NEW o \in Orders, job[o].status \in {"succeeded", "failed"}
  PROVE  job'[o] = job[o]
<1>0. TablesOK /\ ProcessesOK
  BY DEF TypeOK
<1>1. \A p \in Procs : pc[p] # "idle" => target[p] # o
  BY DEF ExclusiveInv, ExclusiveExecution
<1>2. ASSUME NEW p \in Procs, NEW x \in Orders, ClaimNextExecutionJob(p, x)
      PROVE  job'[o] = job[o]
  BY <1>0, <1>2 DEF ClaimNextExecutionJob, ClaimableJob, TablesOK
<1>3. ASSUME NEW p \in Procs, SettleJob(p)
      PROVE  job'[o] = job[o]
  BY <1>0, <1>1, <1>3 DEF SettleJob, SetJob, TablesOK
<1>4. ASSUME NEW p \in Procs, SettleBatchJob(p)
      PROVE  job'[o] = job[o]
  BY <1>0, <1>1, <1>4 DEF SettleBatchJob, SetJob, TablesOK
<1>5. ASSUME NEW x \in Orders, EnqueueOrderExecution(x)
      PROVE  job'[o] = job[o]
  BY <1>0, <1>5 DEF EnqueueOrderExecution, TablesOK
<1>6. CASE UNCHANGED job
  BY <1>6
<1>7. CASE \E p \in Procs, x \in Orders : ClaimNextExecutionJob(p, x)
  BY <1>2, <1>7
<1>8. CASE \E p \in Procs : SettleJob(p) \/ SettleBatchJob(p)
  BY <1>3, <1>4, <1>8
<1>9. CASE \E x \in Orders : EnqueueOrderExecution(x)
  BY <1>5, <1>9
<1>10. \/ UNCHANGED job
       \/ \E p \in Procs, x \in Orders : ClaimNextExecutionJob(p, x)
       \/ \E p \in Procs : SettleJob(p) \/ SettleBatchJob(p)
       \/ \E x \in Orders : EnqueueOrderExecution(x)
  BY DEF Next, vars, db, Take, ProcessBatch, Execute, Environment, ProcessOrderNow,
         ConsultPersistedOrder, RunBrokerPreflight, WriteSubmissionClaim, ConfirmSubmissionClaim,
         PlaceOrder, HandleBrokerUpdates, RereadOrder, MarkOrderFailed, Crash,
         EnsureProtectionMetadata, RefreshOrderStatus
<1> QED
  BY <1>6, <1>7, <1>8, <1>9, <1>10

\* In LIVE mode a succeeded or failed job never changes again.
THEOREM FinishedJobsStay == LiveSetting /\ Spec => FinishedJobStays
<1>1. LiveSetting /\ TypeOK /\ ExclusiveInv /\ [Next]_vars =>
        [\A o \in Orders : job[o].status \in {"succeeded", "failed"} => job'[o] = job[o]]_vars
  BY FinishedStep
<1>2. ASSUME LiveSetting
      PROVE  Spec => FinishedJobStays
  <2>1. TypeOK /\ ExclusiveInv /\ [Next]_vars =>
          [\A o \in Orders : job[o].status \in {"succeeded", "failed"} => job'[o] = job[o]]_vars
    BY <1>1, <1>2
  <2>2. Spec => []ExclusiveInv
    BY <1>2, ExclusiveAlways
  <2> QED
    BY <2>1, <2>2, TypeCorrect, PTL DEF Spec, FinishedJobStays
<1> QED
  BY <1>2

----------------------------------------------------------------------------
(* The submission protocol. *)

\* A step that sends nothing and writes neither id nor claim leaves the phases alone.
LEMMA PhaseStays ==
  ASSUME UNCHANGED sent,
         \A o \in Orders : order'[o].bid = order[o].bid /\ order'[o].claim = order[o].claim
  PROVE  UNCHANGED <<SubmissionPhase, sent>>
BY DEF SubmissionPhase

\* A step that changes one order moves the phase of that order only.
LEMMA PhaseMoves ==
  ASSUME NEW o \in Orders, NEW phase, SubmissionPhase'[o] = phase,
         \A x \in Orders \ {o} : /\ order'[x].bid = order[x].bid
                                  /\ order'[x].claim = order[x].claim
                                  /\ sent'[x] = sent[x]
  PROVE  SubmissionPhase' = [SubmissionPhase EXCEPT ![o] = phase]
BY DEF SubmissionPhase

\* In the live setting every step is a step of the submission protocol or a stutter.
LEMMA ProtocolStep ==
  ASSUME LiveSetting, TypeOK, TrackedInv, ExclusiveInv, [Next]_vars
  PROVE  [Promise!Next]_<<SubmissionPhase, sent>>
<1>0. TablesOK /\ ProcessesOK /\ RequestsOK
  BY DEF TypeOK
<1> DEFINE Stays == UNCHANGED sent /\ \A o \in Orders : order'[o].bid = order[o].bid
                                                     /\ order'[o].claim = order[o].claim
<1>1. ASSUME NEW p \in Procs, WriteSubmissionClaim(p)
      PROVE  [Promise!Next]_<<SubmissionPhase, sent>>
  <2>1. pc[p] = "claim" /\ target[p] \in Orders
    BY <1>0, <1>1, Executing DEF WriteSubmissionClaim
  <2>2. UNCHANGED sent
    BY <1>1 DEF WriteSubmissionClaim, broker
  <2>3. CASE UNCHANGED order
    BY <2>2, <2>3, PhaseStays
  <2>4. CASE order' = [order EXCEPT ![target[p]].claim = p]
    <3> DEFINE o == target[p]
    <3>1. order[o].claim = NoClaim /\ sent[o] = 0 /\ ~order[o].bid
      BY <1>0, <2>1 DEF ExclusiveInv, ClaimsHeld, SubmissionIsWitnessed, Claimed, TrackedInv,
                        RowsTracked, RequestsOK
    <3>2. \A x \in Orders : /\ order'[x].bid = order[x].bid
                            /\ order'[x].claim = IF x = o THEN p ELSE order[x].claim
      BY <1>0, <2>1, <2>4, ClaimEffect DEF TablesOK
    <3>3. SubmissionPhase[o] = "open" /\ SubmissionPhase'[o] = "reserved"
      BY <2>1, <2>2, <3>1, <3>2, ExecutionAssumption DEF SubmissionPhase
    <3>4. SubmissionPhase' = [SubmissionPhase EXCEPT ![o] = "reserved"]
      BY <2>1, <2>2, <3>2, <3>3, PhaseMoves
    <3>5. Promise!Reserve(o)
      BY <2>2, <3>3, <3>4 DEF Promise!Reserve, Promise!Move
    <3> QED
      BY <2>1, <3>5 DEF Promise!Next
  <2> QED
    BY <1>1, <2>3, <2>4 DEF WriteSubmissionClaim
<1>2. ASSUME NEW p \in Procs, PlaceOrder(p)
      PROVE  [Promise!Next]_<<SubmissionPhase, sent>>
  <2> DEFINE o == target[p]
  <2>1. pc[p] = "submit" /\ o \in Orders
    BY <1>0, <1>2, Executing DEF PlaceOrder
  <2>2. UNCHANGED order
    BY <1>2 DEF PlaceOrder, db
  <2>3. sent' = sent \/ sent' = [sent EXCEPT ![o] = @ + 1]
    BY <1>2 DEF PlaceOrder, RequestForbidden, RequestRefused, RequestAccepted, broker
  <2>4. CASE sent' = sent
    BY <2>2, <2>4, PhaseStays
  <2>5. CASE sent' = [sent EXCEPT ![o] = @ + 1]
    <3>1. order[o].claim = p /\ sent[o] = 0 /\ ~order[o].bid
      BY <1>0, <2>1 DEF ExclusiveInv, ClaimsHeld, TrackedInv, RowsTracked, RequestsOK
    <3>2. sent'[o] = 1 /\ \A x \in Orders \ {o} : sent'[x] = sent[x]
      BY <1>0, <2>1, <2>5, <3>1 DEF RequestsOK
    <3>3. SubmissionPhase[o] = "reserved" /\ SubmissionPhase'[o] = "requested"
      BY <2>1, <2>2, <3>1, <3>2, ExecutionAssumption DEF SubmissionPhase
    <3>4. SubmissionPhase' = [SubmissionPhase EXCEPT ![o] = "requested"]
      BY <2>1, <2>2, <3>2, <3>3, PhaseMoves
    <3>5. Promise!Request(o)
      BY <2>5, <3>3, <3>4 DEF Promise!Request, Promise!Move
    <3> QED
      BY <2>1, <3>5 DEF Promise!Next
  <2> QED
    BY <2>3, <2>4, <2>5
<1>3. ASSUME NEW p \in Procs, HandleBrokerUpdates(p)
      PROVE  [Promise!Next]_<<SubmissionPhase, sent>>
  <2> DEFINE o == target[p]
  <2>1. pc[p] = "report" /\ o \in Orders
    BY <1>0, <1>3, Executing DEF HandleBrokerUpdates
  <2>2. UNCHANGED sent
    BY <1>3 DEF HandleBrokerUpdates, broker
  <2>3. CASE UNCHANGED order
    BY <2>2, <2>3, PhaseStays
  <2>4. CASE MergeUpdate(p)
    <3>1. \A x \in Orders : /\ order'[x].claim = order[x].claim
                            /\ order'[x].bid = IF x = o THEN order[x].bid \/ hasId[p] ELSE order[x].bid
      BY <1>0, <2>1, <2>4, UpdateEffect DEF TablesOK
    <3>2. CASE order[o].bid \/ ~hasId[p]
      <4>1. \A x \in Orders : order'[x].bid = order[x].bid
        BY <1>0, <2>1, <3>1, <3>2 DEF TablesOK, OrderRow, ProcessesOK
      <4> QED
        BY <2>2, <3>1, <4>1, PhaseStays
    <3>3. CASE ~order[o].bid /\ hasId[p]
      <4>1. sent[o] > 0
        BY <1>0, <2>1, <3>3 DEF TrackedInv, RowsTracked, ProcessesTracked, RequestsOK
      <4>2. SubmissionPhase[o] = "requested" /\ SubmissionPhase'[o] = "known"
        BY <2>1, <3>1, <3>3, <4>1 DEF SubmissionPhase
      <4>3. SubmissionPhase' = [SubmissionPhase EXCEPT ![o] = "known"]
        BY <2>1, <2>2, <3>1, <4>2, PhaseMoves
      <4>4. Promise!LearnId(o)
        BY <2>2, <4>2, <4>3 DEF Promise!LearnId, Promise!Move
      <4> QED
        BY <2>1, <4>4 DEF Promise!Next
    <3> QED
      BY <3>2, <3>3
  <2> QED
    BY <1>3, <2>3, <2>4 DEF HandleBrokerUpdates
<1>4. ASSUME NEW p \in Procs, MarkOrderFailed(p)
      PROVE  Stays
  <2>1. target[p] \in Orders /\ UNCHANGED sent
    BY <1>0, <1>4, Executing DEF MarkOrderFailed, broker
  <2>2. CASE SetStatus(target[p], "failed")
    BY <1>0, <2>1, <2>2, StatusEffect DEF TablesOK
  <2>3. CASE UNCHANGED order
    BY <2>1, <2>3
  <2> QED
    BY <1>4, <2>2, <2>3 DEF MarkOrderFailed
<1>5. ASSUME NEW o \in Orders, RefreshOrderStatus(o)
      PROVE  Stays
  <2>1. PICK s \in BrokerStatus : SetStatus(o, s)
    BY <1>5 DEF RefreshOrderStatus
  <2>2. UNCHANGED sent
    BY <1>5 DEF RefreshOrderStatus, broker
  <2> QED
    BY <1>0, <2>1, <2>2, StatusEffect DEF TablesOK
<1>6. ASSUME NEW o \in Orders, EnsureProtectionMetadata(o)
      PROVE  FALSE
  BY <1>6 DEF EnsureProtectionMetadata, ExclusiveInv
<1>7. CASE UNCHANGED <<order, sent>>
  BY <1>7, PhaseStays
<1>8. CASE \E p \in Procs : WriteSubmissionClaim(p)
  BY <1>1, <1>8
<1>9. CASE \E p \in Procs : PlaceOrder(p)
  BY <1>2, <1>9
<1>10. CASE \E p \in Procs : HandleBrokerUpdates(p)
  BY <1>3, <1>10
<1>11. CASE \/ \E p \in Procs : MarkOrderFailed(p)
            \/ \E o \in Orders : RefreshOrderStatus(o)
  BY <1>4, <1>5, <1>11, PhaseStays
<1>12. \/ UNCHANGED <<order, sent>>
       \/ \E p \in Procs : WriteSubmissionClaim(p)
       \/ \E p \in Procs : PlaceOrder(p)
       \/ \E p \in Procs : HandleBrokerUpdates(p)
       \/ \E p \in Procs : MarkOrderFailed(p)
       \/ \E o \in Orders : RefreshOrderStatus(o)
  BY <1>6 DEF Next, vars, db, broker, Take, ProcessBatch, Execute, Environment,
         ClaimNextExecutionJob, ProcessOrderNow, ConsultPersistedOrder, RunBrokerPreflight,
         ConfirmSubmissionClaim, RereadOrder, SettleJob, SettleBatchJob, Crash,
         EnqueueOrderExecution
<1> QED
  BY <1>7, <1>8, <1>9, <1>10, <1>11, <1>12

\* In LIVE mode order execution implements the abstract submission protocol.
THEOREM ProtocolFollowed == LiveSetting /\ Spec => FollowsSubmissionProtocol
<1>1. Init => Promise!Init
  BY DEF Init, Promise!Init, SubmissionPhase
<1>2. Init => TrackedInv
  BY DEF Init, TrackedInv, RowsTracked, ProcessesTracked, Submitted
<1>3. Spec => []TrackedInv
  BY <1>2, TrackedStep, TypeCorrect, PTL DEF Spec
<1>4. ASSUME LiveSetting
      PROVE  Spec => FollowsSubmissionProtocol
  <2>1. TypeOK /\ TrackedInv /\ ExclusiveInv /\ [Next]_vars => [Promise!Next]_<<SubmissionPhase, sent>>
    BY <1>4, ProtocolStep
  <2>2. Spec => []ExclusiveInv
    BY <1>4, ExclusiveAlways
  <2> QED
    BY <1>1, <1>3, <2>1, <2>2, TypeCorrect, PTL DEF Spec, FollowsSubmissionProtocol, Promise!Spec
<1> QED
  BY <1>4
=============================================================================
