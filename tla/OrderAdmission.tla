---------------------------- MODULE OrderAdmission ----------------------------
(***************************************************************************)
(* Which entry orders reach the account.  POST /execute/batch reads the    *)
(* open orders once and judges the whole batch by them; then it creates,   *)
(* enqueues and, when it processes at once, executes one order after the   *)
(* other.  Whoever executes an order, the batch or the worker that takes   *)
(* its job, runs the broker preflight first: two reads that matter, then   *)
(* the submission.                                                         *)
(***************************************************************************)
EXTENDS BrokerAccount

CONSTANTS
  Batches,         \* POST /execute/batch requests
  Workers,         \* execution workers
  Deployments,     \* what may run together: requests, workers, and whether
                   \* batches are processed at once (_should_process_batch_now)
  BucketOf,        \* the strategy bucket of each order
  MaxOrdersPerRun, \* DEFAULT_MAX_ORDERS_PER_RUN
  MaxNewsOrders,   \* DEFAULT_MAX_NEWS_MOMENTUM_ORDERS
  Reserve,         \* settings.MIN_BUYING_POWER_AFTER_ORDER
  MaxStaleAge,     \* settings.MAX_STALE_OPEN_ORDER_AGE_MINUTES
  NoOrder          \* the order of an idle executor

Executors == Batches \cup Workers
Deployment == [batches : SUBSET Batches, workers : SUBSET Workers, processNow : BOOLEAN]

VALID_STRATEGY_BUCKETS == {"core_dividend", "value_rebound", "news_momentum", "unassigned"}
\* models.StrategyBucket knows one more.
StrategyBucket == VALID_STRATEGY_BUCKETS \cup {"quality_growth"}

ASSUME AdmissionAssumption ==
  /\ Batches \cap Workers = {}
  /\ Deployments \subseteq Deployment
  /\ \A d \in Deployments : IsFiniteSet(d.batches) /\ IsFiniteSet(d.workers)
  /\ BucketOf \in [Orders -> StrategyBucket]
  /\ MaxOrdersPerRun \in Nat
  /\ MaxNewsOrders \in Nat
  /\ Reserve \in Nat
  /\ MaxStaleAge \in Int
  /\ NoOrder \notin Orders

VARIABLES
  running,   \* the deployment; it does not change
  asked,     \* the orders of accepted batches
  toCreate,  \* per batch: the orders it has not come to yet
  queue,     \* orders with a queued job
  executing, \* per executor: its order
  step,      \* per executor: what it does next
  power      \* per executor: the buying power its preflight read

admission == <<running, asked, toCreate, queue, executing, step, power>>

AdmissionOK ==
  /\ running \in Deployments
  /\ asked \subseteq Orders
  /\ toCreate \in [Batches -> SUBSET asked]
  /\ queue \subseteq asked
  /\ executing \in [Executors -> asked \cup {NoOrder}]
  /\ step \in [Executors -> {"idle", "account", "open_orders", "submit"}]
  /\ \A e \in Executors : executing[e] = NoOrder <=> step[e] = "idle"
  /\ power \in [Executors -> Nat]

AdmissionInit ==
  /\ running \in Deployments
  /\ asked = {}
  /\ toCreate = [b \in Batches |-> {}]
  /\ queue = {}
  /\ executing = [e \in Executors |-> NoOrder]
  /\ step = [e \in Executors |-> "idle"]
  /\ power = [e \in Executors |-> 0]

----------------------------------------------------------------------------
(* The batch route.  An operator whose name ends in _Mutant is a plausible  *)
(* wrong form of the definition after it; no specification uses it.         *)

OneSymbolEach(batch) == \A o, p \in batch : SymbolOf[o] = SymbolOf[p] => o = p

ValidBatch_Mutant(batch) ==
  /\ Cardinality(batch) <= MaxOrdersPerRun
  /\ OneSymbolEach(batch)
  /\ Cardinality({o \in batch : BucketOf[o] = "news_momentum"}) <= MaxNewsOrders
  /\ \A o \in batch : BucketOf[o] \in VALID_STRATEGY_BUCKETS
\* validate_bucket_order_batch; a bucket it does not know counts as an error.
ValidBatch(batch) ==
  /\ Cardinality(batch) <= MaxOrdersPerRun
  /\ OneSymbolEach(batch)
  /\ \A o \in batch : SymbolOf[o] \notin OpenSymbols
  /\ Cardinality({o \in batch : BucketOf[o] = "news_momentum"}) <= MaxNewsOrders
  /\ \A o \in batch : BucketOf[o] \in VALID_STRATEGY_BUCKETS

\* A batch of new orders, judged by the open orders of this moment.
AcceptBatch(b) ==
  /\ toCreate[b] = {}
  /\ step[b] = "idle"
  /\ \E batch \in SUBSET (Orders \ asked) \ {{}} :
       /\ ValidBatch(batch)
       /\ toCreate' = [toCreate EXCEPT ![b] = batch]
       /\ asked' = asked \cup batch
  /\ UNCHANGED <<account, running, queue, executing, step, power>>

Begin(e, o) ==
  /\ executing' = [executing EXCEPT ![e] = o]
  /\ step' = [step EXCEPT ![e] = "account"]

\* create_order and enqueue_order_execution, which may fail (OrderIntake), and
\* _process_order_now; a failed order does not stop the batch.
CreateNext(b) ==
  /\ step[b] = "idle"
  /\ \E o \in toCreate[b] :
       /\ toCreate' = [toCreate EXCEPT ![b] = @ \ {o}]
       /\ \/ UNCHANGED <<queue, executing, step>>
          \/ running.processNow /\ Begin(b, o) /\ UNCHANGED queue
          \/ ~running.processNow /\ queue' = queue \cup {o} /\ UNCHANGED <<executing, step>>
  /\ UNCHANGED <<account, running, asked, power>>

TakeJob(w) ==
  /\ step[w] = "idle"
  /\ \E o \in queue : queue' = queue \ {o} /\ Begin(w, o)
  /\ UNCHANGED <<account, running, asked, toCreate, power>>

----------------------------------------------------------------------------
(* run_broker_preflight and the submission. *)

\* The order is failed (also when the broker cannot be asked, refuses, or the
\* account is restricted).  A worker's job may have attempts left.
Refuse(e) ==
  /\ executing' = [executing EXCEPT ![e] = NoOrder]
  /\ step' = [step EXCEPT ![e] = "idle"]
  /\ power' = [power EXCEPT ![e] = 0]
  /\ \/ UNCHANGED queue
     \/ e \in Workers /\ queue' = queue \cup {executing[e]}

\* get_account.
ReadAccount(e) ==
  /\ step[e] = "account"
  /\ \/ /\ step' = [step EXCEPT ![e] = "open_orders"]
        /\ power' = [power EXCEPT ![e] = buyingPower]
        /\ UNCHANGED <<queue, executing>>
     \/ Refuse(e)
  /\ UNCHANGED <<account, running, asked, toCreate>>

\* _order_notional of a limit order.
Notional(o) == Cost[o]

Funded_Mutant(o, p) == p > 0 /\ p >= Reserve
Funded(o, p) == p > 0 /\ p - Notional(o) >= Reserve

Obstructed_Mutant(o) ==
  \E d \in OpenDeals : SymbolOf[d] = SymbolOf[o] /\ OlderThan(d, MaxStaleAge) /\ ~deal[d].cancelling
\* same_symbol_stale_open_orders_present: any stale order of the symbol, exits
\* and orders that are being cancelled included.
Obstructed(o) == \E d \in OpenDeals : SymbolOf[d] = SymbolOf[o] /\ OlderThan(d, MaxStaleAge)

\* get_positions (only counted), get_open_orders and validate_broker_preflight.
ReadOpenOrders(e) ==
  LET o == executing[e] IN
  /\ step[e] = "open_orders"
  /\ \/ /\ Funded(o, power[e]) /\ ~Obstructed(o)
        /\ step' = [step EXCEPT ![e] = "submit"]
        /\ power' = [power EXCEPT ![e] = 0]
        /\ UNCHANGED <<queue, executing>>
     \/ Refuse(e)
  /\ UNCHANGED <<account, running, asked, toCreate>>

\* place_order; an order that is sent is never sent again (OrderExecution).
Submit(e) ==
  /\ step[e] = "submit"
  /\ Accept(executing[e]) \/ UNCHANGED account
  /\ executing' = [executing EXCEPT ![e] = NoOrder]
  /\ step' = [step EXCEPT ![e] = "idle"]
  /\ UNCHANGED <<running, asked, toCreate, queue, power>>

AdmissionNext ==
  \/ \E b \in running.batches : AcceptBatch(b) \/ CreateNext(b)
  \/ \E w \in running.workers : TakeJob(w)
  \/ \E e \in Executors : ReadAccount(e) \/ ReadOpenOrders(e) \/ Submit(e)
=============================================================================
