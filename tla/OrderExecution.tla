--------------------------- MODULE OrderExecution ---------------------------
(***************************************************************************)
(* How a persisted order reaches the broker.  A job queue in the Database  *)
(* Agent hands each queued job to one executor (the execution worker loop, *)
(* or the route POST /jobs/process-next); in PAPER mode the batch route    *)
(* also executes the orders of its batch directly, without claiming their  *)
(* jobs.  Every executor runs ExecutionService.start_order_execution with  *)
(* the Alpaca adapter.  One action is one call to the Database Agent or to *)
(* the broker: other processes may run between any two of them.            *)
(*                                                                         *)
(* A database write is a blind merge of the fields it names: the last one  *)
(* wins.  A call that times out may or may not have been applied; it is    *)
(* not applied later.                                                      *)
(***************************************************************************)
EXTENDS Naturals, FiniteSets

CONSTANTS
  Orders,          \* order ids; each order has at most one execution job
  Loops,           \* processes running execution_worker.run_forever
  Routes,          \* concurrent POST /jobs/process-next requests
  Batches,         \* concurrent POST /execute/batch requests
  MaxAttempts,     \* ExecutionJob.max_attempts
  TradingMode,     \* settings.TRADING_MODE
  TradingEnabled,  \* settings.TRADING_ENABLED
  DbDropsMetadata, \* does create_order of the Database Agent answer without the metadata?
  Faults,          \* the kinds of failures that may happen
  NoOrder,         \* the target of an idle process
  NoClaim          \* metadata without broker_submission_claim

Workers == Loops \cup Routes
Procs == Workers \cup Batches

\* "crash":     a process stops (or an uncaught error ends its cycle)
\* "db_call":   a call to the Database Agent raises; an order write may
\*              have been applied all the same
\* "job_reply": a job write is applied and its answer is lost
FaultKinds == {"crash", "db_call", "job_reply"}

ASSUME ExecutionAssumption ==
  /\ Workers \cap Batches = {}
  /\ MaxAttempts \in Nat \ {0}
  /\ TradingMode \in {"PAPER", "LIVE"}
  /\ TradingEnabled \in BOOLEAN
  /\ DbDropsMetadata \in BOOLEAN
  /\ Faults \subseteq FaultKinds
  /\ NoOrder \notin Orders
  /\ NoClaim \notin Procs

OrderStatus == {"pending", "placed", "partially_filled", "executed", "failed", "cancelled"}
\* _map_alpaca_order_to_internal: an order the broker answers about is never
\* pending.  Expired and rejected orders are failed, with their broker id.
BrokerStatus == OrderStatus \ {"pending"}

JobStatus == {"absent", "queued", "running", "succeeded", "failed"}

\* "none": nothing to report yet; "error": start_order_execution raised
Outcome == OrderStatus \cup {"none", "error"}

PcLabel == {"idle", "consult", "preflight", "claim", "confirm", "submit",
            "report", "reread", "fail", "settle"}

VARIABLES
  order,    \* the orders table: status, is broker_order_id set, submission claim
  job,      \* the execution_jobs table: status and attempts
  creating, \* is the request that created the order still going to rewrite its metadata?
  pc,       \* what each process does next
  target,   \* the order it executes
  tries,    \* job.attempts as returned by its claim
  outcome,  \* the status it was told or has to report
  hasId,    \* does the adapter's answer carry a broker order id?
  sent,     \* order requests that left for the broker, per order
  accepted      \* order requests the broker accepted, per order

db == <<order, job, creating>>
local == <<pc, target, tries, outcome, hasId>>
broker == <<sent, accepted>>
vars == <<order, job, creating, pc, target, tries, outcome, hasId, sent, accepted>>

OrderRow == [status : OrderStatus, bid : BOOLEAN, claim : Procs \cup {NoClaim}]
JobRow == [status : JobStatus, attempts : 0 .. MaxAttempts]

TablesOK ==
  /\ order \in [Orders -> OrderRow]
  /\ job \in [Orders -> JobRow]
  /\ creating \in [Orders -> BOOLEAN]

ProcessesOK ==
  /\ pc \in [Procs -> PcLabel]
  /\ target \in [Procs -> Orders \cup {NoOrder}]
  /\ \A p \in Procs : target[p] = NoOrder <=> pc[p] = "idle"
  /\ tries \in [Procs -> 0 .. MaxAttempts]
  /\ outcome \in [Procs -> Outcome]
  /\ \A p \in Procs : pc[p] = "report" => outcome[p] \in BrokerStatus
  /\ hasId \in [Procs -> BOOLEAN]

RequestsOK ==
  /\ sent \in [Orders -> Nat]
  /\ accepted \in [Orders -> Nat]

TypeOK == TablesOK /\ ProcessesOK /\ RequestsOK

\* Persisted orders that were never executed, some of them already queued
\* (the processes start, or restart, with what the database holds).
Init ==
  /\ order = [o \in Orders |-> [status |-> "pending", bid |-> FALSE, claim |-> NoClaim]]
  /\ job \in [Orders -> [status : {"absent", "queued"}, attempts : {0}]]
  /\ creating = [o \in Orders |-> DbDropsMetadata]
  /\ pc = [p \in Procs |-> "idle"]
  /\ target = [p \in Procs |-> NoOrder]
  /\ tries = [p \in Procs |-> 0]
  /\ outcome = [p \in Procs |-> "none"]
  /\ hasId = [p \in Procs |-> FALSE]
  /\ sent = [o \in Orders |-> 0]
  /\ accepted = [o \in Orders |-> 0]

----------------------------------------------------------------------------
(* Steps of a process.  An operator whose name ends in _Mutant is a         *)
(* plausible wrong form of the definition after it: no specification uses   *)
(* it, the runs must refute it when it takes that definition's place.       *)

Goto(p, l) ==
  /\ pc' = [pc EXCEPT ![p] = l]
  /\ UNCHANGED <<target, tries, outcome, hasId>>

\* start_order_execution returns an order with status s, or raises ("error").
Return(p, s) ==
  /\ pc' = [pc EXCEPT ![p] = "settle"]
  /\ outcome' = [outcome EXCEPT ![p] = s]
  /\ UNCHANGED <<target, tries, hasId>>

Raise(p) == "db_call" \in Faults /\ Return(p, "error")

BecomeIdle(p) ==
  /\ pc' = [pc EXCEPT ![p] = "idle"]
  /\ target' = [target EXCEPT ![p] = NoOrder]
  /\ tries' = [tries EXCEPT ![p] = 0]
  /\ outcome' = [outcome EXCEPT ![p] = "none"]
  /\ hasId' = [hasId EXCEPT ![p] = FALSE]

SetStatus_Mutant(o, s) == order' = [order EXCEPT ![o].status = s, ![o].claim = NoClaim]
\* update_order_status names the status only.
SetStatus(o, s) == order' = [order EXCEPT ![o].status = s]

----------------------------------------------------------------------------
(* Intake, as far as execution depends on it. *)

\* create_execution_job: the job of the order, created if there is none.  A
\* replayed request enqueues an order whose creator has not finished.
EnqueueOrderExecution(o) ==
  /\ TradingEnabled
  /\ job[o].status = "absent"
  /\ job' = [job EXCEPT ![o] = [status |-> "queued", attempts |-> 0]]
  /\ UNCHANGED <<order, creating, local, broker>>

\* _ensure_protection_metadata: the creator of the order writes the request's
\* metadata over whatever the row holds now.  The write may fail: LIVE gives up,
\* PAPER continues with the metadata in memory.
EnsureProtectionMetadata(o) ==
  /\ creating[o]
  /\ creating' = [creating EXCEPT ![o] = FALSE]
  /\ \/ order' = [order EXCEPT ![o].claim = NoClaim]
     \/ "db_call" \in Faults /\ UNCHANGED order
  /\ UNCHANGED <<job, local, broker>>

----------------------------------------------------------------------------
(* Taking an order to execute. *)

ClaimableJob_Mutant(o) ==
  /\ job[o].status \in {"queued", "running"}
  /\ job[o].attempts < MaxAttempts
ClaimableJob_Unbounded_Mutant(o) == job[o].status = "queued"
\* claim_next_execution_job picks a queued job that has an attempt left.
ClaimableJob(o) ==
  /\ job[o].status = "queued"
  /\ job[o].attempts < MaxAttempts

\* The worker loop looks at TRADING_ENABLED before it claims, the route does not.
HonorsPause(p) == p \in Loops => TradingEnabled

\* claim_next_execution_job is atomic in the Database Agent.
ClaimNextExecutionJob(p, o) ==
  /\ p \in Workers /\ HonorsPause(p)
  /\ pc[p] = "idle"
  /\ ClaimableJob(o)
  /\ job' = [job EXCEPT ![o] = [status |-> "running", attempts |-> @.attempts + 1]]
  /\ pc' = [pc EXCEPT ![p] = "consult"]
  /\ target' = [target EXCEPT ![p] = o]
  /\ tries' = [tries EXCEPT ![p] = job[o].attempts + 1]
  /\ UNCHANGED <<order, creating, outcome, hasId, broker>>

ShouldProcessBatchNow_Mutant == TRUE
ShouldProcessBatchNow == TradingMode = "PAPER"

\* _process_order_now: the batch route executes an order it has just enqueued
\* (or found: the batch may be a replay) whatever the state of its job.
ProcessOrderNow(p, o) ==
  /\ p \in Batches /\ TradingEnabled /\ ShouldProcessBatchNow
  /\ pc[p] = "idle"
  /\ job[o].status # "absent"
  /\ pc' = [pc EXCEPT ![p] = "consult"]
  /\ target' = [target EXCEPT ![p] = o]
  /\ UNCHANGED <<tries, outcome, hasId, db, broker>>

----------------------------------------------------------------------------
(* start_order_execution, called by process p for the order target[p]. *)

\* The order is persisted as submitted; a cancelled one must stay so.
AlreadyAtBroker(o) ==
  \/ order[o].bid
  \/ order[o].status \in {"placed", "partially_filled", "executed", "cancelled"}

Claimed_Mutant(o) == order[o].claim # NoClaim /\ order[o].status # "failed"
\* metadata.broker_submission_claim: somebody was about to submit, or did.
Claimed(o) == order[o].claim # NoClaim

\* Re-read the order: nothing to do, refuse (the answer of an earlier submission
\* may have been lost), or go on.
ConsultPersistedOrder(p) ==
  LET o == target[p] IN
  /\ pc[p] = "consult"
  /\ \/ AlreadyAtBroker(o) /\ Return(p, order[o].status)
     \/ ~AlreadyAtBroker(o) /\ Claimed(o) /\ Goto(p, "fail")
     \/ ~AlreadyAtBroker(o) /\ ~Claimed(o) /\ Goto(p, "preflight")
     \/ Raise(p)
  /\ UNCHANGED <<db, broker>>

\* Approved, or blocked (also when the broker cannot be asked).
RunBrokerPreflight(p) ==
  /\ pc[p] = "preflight"
  /\ Goto(p, "claim") \/ Goto(p, "fail")
  /\ UNCHANGED <<db, broker>>

\* Reserve the submission: a merge of the metadata, not a compare-and-set.
WriteSubmissionClaim(p) ==
  /\ pc[p] = "claim"
  /\ \/ /\ order' = [order EXCEPT ![target[p]].claim = p]
        /\ Goto(p, "confirm") \/ ("db_call" \in Faults /\ Goto(p, "fail"))
     \/ UNCHANGED order /\ "db_call" \in Faults /\ Goto(p, "fail")
  /\ UNCHANGED <<job, creating, broker>>

ClaimConfirmed(p) == order[target[p]].claim = p

\* Read the claim back and go on only with one's own.
ConfirmSubmissionClaim(p) ==
  /\ pc[p] = "confirm"
  /\ \/ ClaimConfirmed(p) /\ Goto(p, "submit")
     \/ ~ClaimConfirmed(p) /\ Goto(p, "fail")
     \/ "db_call" \in Faults /\ Goto(p, "fail")
  /\ UNCHANGED <<db, broker>>

Tell(p, s, id) ==
  /\ outcome' = [outcome EXCEPT ![p] = s]
  /\ hasId' = [hasId EXCEPT ![p] = id]
  /\ pc' = [pc EXCEPT ![p] = "report"]
  /\ UNCHANGED <<target, tries>>

\* The order contract, the broker authority or the market clock forbid the request.
RequestForbidden(p) == Tell(p, "failed", FALSE) /\ UNCHANGED broker

\* The request leaves, and is lost or refused.
RequestRefused(p) ==
  /\ Tell(p, "failed", FALSE)
  /\ sent' = [sent EXCEPT ![target[p]] = @ + 1]
  /\ UNCHANGED accepted

\* The broker has the order; its answer comes with a status and an id, or is lost.
RequestAccepted(p) ==
  /\ Tell(p, "failed", FALSE) \/ \E s \in BrokerStatus : Tell(p, s, TRUE)
  /\ sent' = [sent EXCEPT ![target[p]] = @ + 1]
  /\ accepted' = [accepted EXCEPT ![target[p]] = @ + 1]

\* AlpacaAdapter.place_order up to its callback.  Without an answer, or with a
\* refusal, the adapter reports a failed order.
PlaceOrder(p) ==
  /\ pc[p] = "submit"
  /\ RequestForbidden(p) \/ RequestRefused(p) \/ RequestAccepted(p)
  /\ UNCHANGED db

MergeUpdate_Mutant(p) ==
  order' = [order EXCEPT ![target[p]].status = outcome[p]]
\* update_order with the adapter's report; fields it does not name keep their value.
MergeUpdate(p) ==
  order' = [order EXCEPT ![target[p]].status = outcome[p],
                         ![target[p]].bid = @ \/ hasId[p]]

\* _handle_broker_updates as the adapter's callback.  A fill without a usable
\* average price is refused before the write.  The write may fail, applied or
\* not; recording the fill after it may fail too, which LIVE raises and PAPER
\* only logs.  (What is recorded is FillReconciliation's subject.)
HandleBrokerUpdates(p) ==
  /\ pc[p] = "report"
  /\ \/ MergeUpdate(p) /\ Goto(p, "reread")
     \/ UNCHANGED order /\ hasId[p] /\ Goto(p, "fail")
     \/ UNCHANGED order /\ "db_call" \in Faults /\ Goto(p, "fail")
     \/ MergeUpdate(p) /\ "db_call" \in Faults /\ Goto(p, "fail")
  /\ UNCHANGED <<job, creating, broker>>

RereadOrder(p) ==
  /\ pc[p] = "reread"
  /\ \/ Return(p, order[target[p]].status)
     \/ "db_call" \in Faults /\ Goto(p, "fail")
  /\ UNCHANGED <<db, broker>>

\* Every refusal and every exception ends in a write of FAILED.
MarkOrderFailed(p) ==
  /\ pc[p] = "fail"
  /\ \/ SetStatus(target[p], "failed") /\ (Return(p, "failed") \/ Raise(p))
     \/ UNCHANGED order /\ Raise(p)
  /\ UNCHANGED <<job, creating, broker>>

----------------------------------------------------------------------------
(* Settling the job. *)

Submitted == {"placed", "partially_filled", "executed"}

JobStatusAfter_Mutant(s, n) ==
  IF s \in Submitted THEN "succeeded"
  ELSE IF s \in {"failed", "error"} /\ n > MaxAttempts THEN "failed"
  ELSE "queued"
\* process_next_execution_job: retry a failed order while attempts remain; an
\* order that is neither submitted nor failed goes back to the queue in any case.
JobStatusAfter(s, n) ==
  IF s \in Submitted THEN "succeeded"
  ELSE IF s \in {"failed", "error"} /\ n >= MaxAttempts THEN "failed"
  ELSE "queued"

SetJob(o, s) == job' = [job EXCEPT ![o].status = s]

\* update_execution_job by the executor that claimed the job.  If it raises, the
\* handler writes once more, as after an error; if that raises too, the cycle is
\* over and the job keeps the status it has.
SettleJob(p) ==
  LET settled == SetJob(target[p], JobStatusAfter(outcome[p], tries[p])) IN
  /\ pc[p] = "settle" /\ p \in Workers
  /\ \/ settled /\ BecomeIdle(p)
     \/ /\ \/ settled /\ "job_reply" \in Faults
           \/ UNCHANGED job /\ "db_call" \in Faults
        /\ IF outcome[p] = "error" THEN BecomeIdle(p) ELSE Return(p, "error")
  /\ UNCHANGED <<order, creating, broker>>

\* The batch route settles a job it never claimed; an exception leaves it alone.
SettleBatchJob(p) ==
  LET s == outcome[p] IN
  /\ pc[p] = "settle" /\ p \in Batches
  /\ \/ /\ s # "error"
        /\ SetJob(target[p], IF s \in Submitted THEN "succeeded"
                             ELSE IF s = "failed" THEN "failed" ELSE "queued")
     \/ s = "error" /\ UNCHANGED job
     \/ "db_call" \in Faults /\ UNCHANGED job
  /\ BecomeIdle(p)
  /\ UNCHANGED <<order, creating, broker>>

----------------------------------------------------------------------------
(* What happens beside the executors. *)

\* The process stops between two calls, or an exception outside every handler
\* (reading the order of a claimed job, the second job write) ends its cycle.
\* What it was doing is forgotten; the database and the broker keep their state.
Crash(p) ==
  /\ "crash" \in Faults
  /\ pc[p] # "idle"
  /\ BecomeIdle(p)
  /\ UNCHANGED <<db, broker>>

\* Reconciliation, status refresh and cancellation write a broker status to an
\* order with a broker order id; their reads may be stale, so any status at any
\* later time.
RefreshOrderStatus(o) ==
  /\ order[o].bid
  /\ \E s \in BrokerStatus : SetStatus(o, s)
  /\ UNCHANGED <<job, creating, local, broker>>

----------------------------------------------------------------------------
Take(p) == \E o \in Orders : ClaimNextExecutionJob(p, o)
ProcessBatch(p) == \E o \in Orders : ProcessOrderNow(p, o)

Execute(p) ==
  \/ ConsultPersistedOrder(p)
  \/ RunBrokerPreflight(p)
  \/ WriteSubmissionClaim(p)
  \/ ConfirmSubmissionClaim(p)
  \/ PlaceOrder(p)
  \/ HandleBrokerUpdates(p)
  \/ RereadOrder(p)
  \/ MarkOrderFailed(p)
  \/ SettleJob(p)
  \/ SettleBatchJob(p)

Environment(o) ==
  \/ EnqueueOrderExecution(o)
  \/ EnsureProtectionMetadata(o)
  \/ RefreshOrderStatus(o)

Next ==
  \/ \E p \in Procs : Take(p) \/ ProcessBatch(p) \/ Execute(p) \/ Crash(p)
  \/ \E o \in Orders : Environment(o)

Spec == Init /\ [][Next]_vars

\* The worker loop polls for ever and its calls return (they carry timeouts).
\* Nobody has to call the routes, and the broker need not move.
Fairness == \A p \in Loops : WF_vars(Take(p)) /\ WF_vars(Execute(p))

FairSpec == Spec /\ Fairness

----------------------------------------------------------------------------
(* Properties. *)

\* At most one request for an order ever leaves for the broker, whatever crashes,
\* lost answers and retries happen: the purpose of the submission claim
\* (start_order_execution, "never ... resubmit without recovery").
AtMostOneSubmission == \A o \in Orders : sent[o] <= 1

\* Two executors never hold the same order, and the job of a held order is running:
\* claim_next_execution_job hands a job out once per attempt.
ExclusiveExecution ==
  \A p \in Procs : pc[p] # "idle" =>
    /\ job[target[p]].status = "running"
    /\ \A q \in Procs \ {p} : target[q] # target[p]

\* A request that left is still witnessed by a persisted claim: without it a retry
\* could not know that the broker may hold the order.
SubmissionIsWitnessed == \A o \in Orders : sent[o] > 0 => Claimed(o)

\* A job reported as succeeded has an order that the broker accepted and whose
\* broker order id is persisted, so that reconciliation can follow it.
SucceededIsTracked ==
  \A o \in Orders : job[o].status = "succeeded" => order[o].bid /\ accepted[o] > 0

\* A finished job is not revived: nothing takes it from succeeded or failed back
\* to the queue, where it would be executed again.
FinishedJobStays ==
  [][\A o \in Orders : job[o].status \in {"succeeded", "failed"} => job'[o] = job[o]]_vars

\* A job that was never attempted ends up finished, unless its order is cancelled
\* meanwhile: the job of a cancelled order goes back to the queue until its attempts
\* are used up, and stays there.
EveryJobFinishes ==
  \A o \in Orders :
    job[o] = [status |-> "queued", attempts |-> 0] ~>
      \/ job[o].status \in {"succeeded", "failed"}
      \/ order[o].status = "cancelled"

(* The promise kept: the order's row and the request counter, read as a phase. *)

SubmissionPhase ==
  [o \in Orders |->
     IF order[o].bid THEN "known"
     ELSE IF sent[o] > 0 THEN "requested"
     ELSE IF order[o].claim # NoClaim THEN "reserved"
     ELSE "open"]

Promise == INSTANCE SubmissionProtocol WITH phase <- SubmissionPhase, requests <- sent

\* Each order passes the submission protocol once, in its order: reserved, then
\* requested at most once, then known by its broker id.
FollowsSubmissionProtocol == Promise!Spec
----------------------------------------------------------------------------
(* Strengthenings that are inductive, for the proofs. *)

\* Why a succeeded job is tracked, in every mode and under every failure: a
\* submitted status is only ever written or returned together with a broker id,
\* and an id only comes from the broker.
RowsTracked ==
  \A o \in Orders :
    /\ accepted[o] <= sent[o]
    /\ order[o].bid => accepted[o] > 0
    /\ order[o].status \in Submitted => order[o].bid
    /\ job[o].status = "succeeded" => order[o].bid

ProcessesTracked ==
  \A p \in Procs :
    /\ pc[p] = "report" /\ hasId[p] => accepted[target[p]] > 0
    /\ pc[p] = "report" /\ outcome[p] \in Submitted => hasId[p]
    /\ pc[p] = "settle" /\ outcome[p] \in Submitted => order[target[p]].bid

TrackedInv == RowsTracked /\ ProcessesTracked

\* LIVE mode (the batch route executes nothing itself), a Database Agent that returns
\* the metadata it stored, and no job write that is applied although it seems to fail.
LiveSetting ==
  /\ TradingMode = "LIVE"
  /\ ~DbDropsMetadata
  /\ "job_reply" \notin Faults

\* Why one request at most leaves: the executor of a running job is alone with the
\* order from its first read to its last write.
ClaimsHeld ==
  \A p \in Procs :
    /\ pc[p] \in {"preflight", "claim"} => order[target[p]].claim = NoClaim
    /\ pc[p] \in {"confirm", "submit"} => order[target[p]].claim = p /\ sent[target[p]] = 0

ExclusiveInv ==
  /\ ExclusiveExecution
  /\ AtMostOneSubmission
  /\ SubmissionIsWitnessed
  /\ ClaimsHeld
  /\ \A o \in Orders : ~creating[o]

=============================================================================
