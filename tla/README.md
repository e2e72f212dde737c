# Execution Agent: verification project

The Execution Agent turns risk-approved trade requests into broker orders. It keeps its own
state nowhere: orders, jobs, approvals and fills are rows of a Database Agent reached over HTTP,
and orders live at the broker (Alpaca). Several processes work on the same rows with no lock
between them, and each of their calls may fail, be applied without an answer, or be the last one
before the process stops. The modules beside this file model these processes call by call.

Paths below are relative to `src/src/app/` unless they begin with `src/`.

## 1. The system

### 1.1 Components

| Component | State it keeps | Operations | Modelled in |
|---|---|---|---|
| Order intake (`services/execution_service.py` `create_order`, `main.py` `/execute`, `/execute/batch`, `trade_plan_execution.py`, `services/strategy_bucket_contract.py`) | order rows, the bucket stored with them, risk approvals | look up a replay, verify the approval, create, compare the bucket, repair the metadata, use the approval, enqueue a job | `OrderIntake`, `ApprovalLedger` |
| Order execution (`services/execution_service.py`) | job status and attempts, order status, broker id, `broker_submission_claim` in the metadata | claim a job, consult the order, preflight, claim the submission, place, report, re-read, mark failed, settle | `OrderExecution`, `SubmissionProtocol` |
| Execution worker (`workers/execution_worker.py`, `workers/bootstrap.py`) | none | poll, pause while `TRADING_ENABLED` is false, process one job | `OrderExecution` (`Loops`) |
| Fill accounting (`_handle_broker_updates`, `_record_fill_from_update`, `refresh_order_status`, `reconcile_broker_orders`) | executed quantity and average price on the row (the checkpoint), fills | ask the broker, read the checkpoint, write the answer over it, record the difference | `FillReconciliation` |
| Reconciliation worker (`workers/reconciliation_worker.py`) | none | list the in-flight orders, refresh each | `FillReconciliation` (`Sweepers`) |
| Cancellation route (`main.py` `/execute/{id}/cancel`) | order status | read, cancel at the broker, write CANCELLED | `FillReconciliation` (`Cancellers`) |
| Entry protection (`services/protective_order_service.py`, `models.py`, `adapters/alpaca.py`) | none: a computation | choose the plan, validate it, round the prices, build the payload | `EntryProtection` |
| Protection replacement (`services/approved_protection_reconciliation_executor.py`, `services/approved_bracket_upgrade_executor.py`, `services/protection_reconciliation.py`, `services/protection_diagnostics.py`, `services/order_review_plan.py`, `adapters/alpaca_hydrated.py`, `profit_action_preview.py`) | the broker's open orders and position | read positions and orders, plan, cancel and wait, submit an OCO, restore a stop, verify | `ProtectionReplacement` |
| Database client (`db_client.py`) | rows | one call, one action: a blind merge of the named fields; claiming a job is atomic | in every module |
| Alpaca adapter (`adapters/alpaca.py`, `adapters/alpaca_hydrated.py`) | none | submit, map statuses, cancel with or without waiting, exit orders | partly, in every module |
| Approval tickets and gates | none | preview, ticket, confirmation, gate | only the verdict, in `ProtectionReplacement` |
| Batch order safety (`services/bucket_order_safety.py`, `main.py` `/execute/batch`) | none: rules over one read of the open orders | judge the batch, then create, enqueue and execute its orders one by one | `OrderAdmission` |
| Broker preflight (`services/broker_preflight.py`) | none: rules over account and open orders | read the account, read the open orders, approve or refuse | `OrderAdmission`; its verdict in `OrderExecution` |
| Broker cleanup (`services/broker_cleanup.py`) | the account's open orders | read positions and orders, classify, cancel the stale ones | `BrokerCleanup` |
| Broker state reconciliation (`services/broker_state_reconciliation.py`) | none: a snapshot | read account, positions and orders, push the snapshot | `AccountReport` |
| Simulator adapter (`adapters/simulator.py`) | none: a script per order, while `place_order` runs | report the script's updates, answer status and cancel requests | `SimulatedFills` |
| Portfolio helpers, HTTP surface, logging, configuration | none that outlives a call | | not modelled, see section 7 |

### 1.2 How they interact

A request to an intake route creates an order and enqueues its job. A worker claims the job
(`claim_next_execution_job`, atomic in the Database Agent) and runs `start_order_execution`; in
PAPER mode the batch route runs it directly, beside the workers. The adapter's callback writes
the broker's answer to the order and records a fill. From then on three parties refresh the
order with the same function, `_handle_broker_updates`: the callback, the reconciliation sweep
and `GET /execute/{id}`; the cancellation route writes the status alone. Protection replacement
works on the broker's orders only and reads no row.

The account is the second thing shared. The batch route reads its open orders before it accepts a
batch, the preflight of every execution reads its buying power and its open orders, the cleanup
reads positions and open orders and cancels some, and the state report reads all three; orders fill,
age and end between any two of these requests. In the simulated broker mode, the default, there is no account:
the adapter answers from a script.

### 1.3 What is hard

`PROJECT.json` lists the hazards one by one, each at its line. They come in five groups.

* *Check and act in separate calls.* The submission claim is written and read back, the approval
  is verified and used later, the fill checkpoint is read and moved later, positions and orders
  are two reads, the batch route reads the open orders once, the preflight reads and then submits,
  the cleanup classifies and then cancels.
* *Calls that fail half-way.* A timeout leaves open whether a write, a submission or a
  cancellation was applied; error handlers write again.
* *Processes that stop* between any two calls, with a job running, a claim written, an order
  submitted, or a position stripped of its stop.
* *Stale answers* written over newer ones: statuses, quantities, metadata.
* *Numeric edges*: incremental fills priced from two cumulative averages, price ticks that change
  at one dollar, sweeps with a limit.

## 2. The modules

One action is one call to the Database Agent or to the broker, with the local computation that
follows it. Failures are disjuncts of the action whose call fails, enabled by the constant
`Faults`, so that a run names the failures it allows. Operators that end in `_Mutant` are wrong
forms of the definition that follows them; no specification uses them. They document which bug
each property would find.

**`OrderExecution`** – the job queue and `start_order_execution`. `order`, `job` are the two
tables; `creating[o]` says that the request that created `o` has yet to run
`_ensure_protection_metadata` (only when the Database Agent answers `create_order` without
metadata); `pc`, `target`, `tries`, `outcome`, `hasId` are the locals of each process; `sent` and
`accepted` count at the broker. The actions follow the code in its order: `ClaimNextExecutionJob` or
`ProcessOrderNow`, `ConsultPersistedOrder`, `RunBrokerPreflight`, `WriteSubmissionClaim`,
`ConfirmSubmissionClaim`, `PlaceOrder`, `HandleBrokerUpdates`, `RereadOrder`, `MarkOrderFailed`,
`SettleJob` or `SettleBatchJob`. `RefreshOrderStatus` is what the modules around it do to a
submitted order: any broker status at any time.

**`SubmissionProtocol`** – the promise, without jobs, processes or failures: an order is reserved,
requested at most once, then known by its broker id. `OrderExecution` implements it under the
mapping `SubmissionPhase`, which reads the phase off the row and the request counter.

**`FillReconciliation`** – the shares of an order are numbered in the order they fill, so a fill is
an interval of shares and "recorded twice" is a statement about single shares. `row` holds the
checkpoint (and which quantity the stored average belongs to), `broker` the truth, `answer` and
`previous` what a process carries between its calls. The broker's answer is obtained before the
checkpoint is read, by each of the three parties; nothing orders them.

**`OrderIntake`** – `create_order` for concurrent requests over shared trade ids and approvals.
`approval[a].boughtOrder` is the `order_id` the Database Agent stores when an approval is used;
`created` remembers what the creator of each order asked for, which no row of the system does. `Submit`
stands for order execution: whatever is queued and not at the broker yet is submitted.

**`ProtectionReplacement`** – one long position and its order book. Sell orders reserve shares, the
two legs of an OCO reserve one quantity and close together, and orders fill at any time. A
request of either kind reads, plans, cancels, submits or restores, and verifies. The broker refuses, with
code 42210000, to cancel an order that is being cancelled, canceled or filled already; the adapter takes this code for a
pending cancellation and polls the order. A plan that names a parent and its leg, or both legs of an OCO, therefore has both confirmed
and goes on.

**`EntryProtection`** – a pure computation, modelled as one step from every order to its payload.
Prices are counted in units below the finest tick so that rounding half up and the change of the
tick at one dollar are the real ones in small numbers. Besides the plans a request can carry, the
order may be one that a trade plan was converted to.

**`ApprovalLedger`** – the promise about approvals, without requests, orders or failures: spent at most
once, on one fitting trade that cost no other approval, for good. `OrderIntake` implements it with the
`order_id` column of the approvals as the ledger.

**`BrokerAccount`** – the account, external to the code: an entry order and the exits it gives rise to
are one *deal*, with a phase (`entry`, `exits`, `stop`, `bare`, `closed`) and, for the order that is open
now, its age in minutes and whether it is being cancelled. `AccountMoves` is what
happens by itself; `Accept` and `Cancel` are what the service asks for. Who reads the open orders compares an age
with a limit of its own (`OlderThan`): the preflight with the setting `MAX_STALE_OPEN_ORDER_AGE_MINUTES` (`MaxStaleAge`), a
cleanup with the parameter `max_age_minutes` of its request (one of `MaxAges`). A limit that is not positive is none.

**`OrderAdmission`** – `POST /execute/batch` (`AcceptBatch`, then `CreateNext` per order) and the
preflight (`ReadAccount`, `ReadOpenOrders`, `Submit`) of whoever executes: the batch itself, or a worker
that takes the queued job. `running` is the deployment: which of them run together.

**`BrokerCleanup`** – `cancel_stale_open_orders`: `ReadPositions`, `ClassifyOpenOrders`, then
`CancelTarget` per target. The request's parameters, `max_age_minutes` and `include_protective`, are chosen in
`ClassifyOpenOrders`, where they first matter. A target is a deal *and the phase it was listed in*, because an order id
names the order that was listed, whatever the deal has open by now.

**`AccountReport`** – `collect_broker_state` request by request, and the push.

**`AccountTraffic`** – the composition of the three on one account.

**`SimulatedFills`** – `FillReconciliation` with the simulator in the place of the broker: the
same callback, sweep, status and cancel steps, and an adapter that reports `Script(o)` with a pause
between two updates and gives one answer about every order. An update that names a status only leaves
the quantity.

**`SumTheorems`** – lemmas about sums over finite sets, for the proofs about `ProtectionReplacement`. The modules
`...Proofs` hold the theorems of section 5.

The MC modules add the instances for TLC: symmetry sets, and the initial order books.

## 3. What the runs show

The bounds are small on purpose: each hazard needs two or three parties, two orders or
approvals, and a retry.

### 3.1 Runs that pass

| Run | Instance | What it shows |
|---|---|---|
| LiveExecution | LIVE: 2 orders, a worker, a process-next request, a batch request, 3 attempts, crashes and failing database calls | at most one submission per order; one executor per order; a claim witnesses every submission; success means tracked; finished jobs stay finished; the refinement of `SubmissionProtocol` |
| JobLiveness | PAPER: 1 order, a fair worker, a batch request that executes the order unclaimed, a creator that rewrites metadata, 3 attempts, lost answers to job writes | every job that was queued finishes, or its order is cancelled; a succeeded job has an order that the broker accepted and whose id is persisted |
| SingleSweeper | 2 orders of 2 shares, one sweep loop, one submission after the other, a cancellation, every failure | no share is recorded twice; the checkpoint is monotone, never ahead of the broker, and prices fills consistently |
| SettledOrders | 1 order of 3 shares; callback, fair sweep and reader at once; no failures | every share below the checkpoint is recorded or about to be; the row claims nothing the broker did not do; a final broker state reaches the row and stays |
| Intake | LIVE: 2 requests, 2 trades, 2 approvals (one fits both trades), buckets lost at creation and update, metadata lost, failures, crashes | a used approval bought one fitting order; a bucket mismatch consumes nothing; the refinement of `ApprovalLedger` |
| Replacement | a reconciliation and an upgrade over every book of up to an OCO and another order, 2 shares, every failure; plans with an OCO end verified, too | an order is replaced only after the broker confirmed its cancellation, also when another request works on it; a request that was alone reports the gap it leaves, and has verified what it calls verified |
| EntryPrices | every order over 20 prices on both sides of the dollar | rounding keeps the order of the prices, and sends ticks no further than half a tick away |
| AccountTraffic | 3 orders and a holding over 2 symbols, funds for some of them; two batches and a worker, or one batch that executes its orders; a cleanup; a report | the reserve survives stale figures when one process executes; batches that run one at a time open one deal per symbol; what is being cancelled still blocks its symbol, unless a cleanup named a lower limit than the preflight's; the cleanup cancels only what is older than its own limit by then; no snapshot counts a deal twice |

`MaxAttempts` is the code's 3. The claims are between
two executors of one order; a third only repeats the second. Two or three shares are a first fill, a later one, and the completion. `Limit` is
2, which lists every order: what a smaller one does is said in 3.3. In
`EntryPrices` the dollar is 16 units, the cent 8 and the sub-cent tick 4, so ties, neighbours of
the dollar, and prices less than a tick apart all occur. In `AccountTraffic` two orders share a symbol with the holding, `MaxOrdersPerRun` is 2 and the funds (3) pay
for some pairs of the orders (1, 2 and 1) beside the reserve (1) but not for all, so that every rule of batch and preflight both passes and refuses; a
third symbol or batch repeats what two show. An order is 0, 200 or 400 minutes old, the preflight's limit is 390, a cleanup's 120 or
390: young for both, old for the lower limit only, old for both. Counters need no bound: attempts end, an
order is filled in `Quantity` steps, and every process of `ProtectionReplacement` serves one request.

### 3.2 Runs that are violated

Each is a disagreement between the code and what its own comments, docs or tests say;
`PROJECT.json` quotes the lines.

| Run | What happens |
|---|---|
| PaperDoubleSubmission | In PAPER the batch route executes an order without claiming its job while a worker holds it. The claim is a merge: each executor finds the order unclaimed, and each reads back its own claim. Two requests leave. |
| SimulatedFailure | While the simulator sleeps between PLACED and FAILED of a symbol that shall fail, a status request is answered EXECUTED; its shares are recorded. |
| ApprovalReused | Two requests verify one approval. The loser leaves an order that a replay returns and enqueues without any approval. |
| RefusedTradePlan | The exit envelope of a trade plan hides its guard plan from the validation, which then refuses every such order. |

### 3.3 What the properties assume

The passing runs leave some behaviour out because the code does not keep the property there.
Each line names the constant or conjunct to change to see it.

* *LiveExecution without `"job_reply"`.* The handler around the job write writes again after an
  error. If the first write was applied, the second takes a job that was claimed meanwhile back to the
  queue, and two requests leave.
* *LiveExecution without `DbDropsMetadata`.* A replay has the order queued and submitted before its
  creator writes the request's metadata over the row; the claim is gone and a retry submits again.
* *JobLiveness without `"db_call"` and `"crash"`.* See section 4. LIVE, where the batch executes nothing, is
  contained in it: nothing makes the batch act.
* *SettledOrders without `"db_call"`.* The checkpoint moves before the fill is recorded; when recording fails,
  which PAPER only logs, no later sweep sees a difference, although the code refuses incomplete evidence "so a later
  reconciliation can recover the missing fill" (`services/execution_service.py:304`).
  `CheckpointIsRecorded` is then violated.
* *`ReserveKept` and `OneOpenDealPerSymbol`, their first conjuncts.* Two executors judge by one figure, and two
  batches by one list; a worker executes later than the batch that read the list.
* *AccountTraffic with limit orders only.* The notional of a market order is zero, so it passes any reserve.
* *`CleanupSparesFreshOrders` says older than the limit, not entry.* The take profit of a held position is a limit
  order; after 390 minutes, the route's default, it counts as stale, and the nested stop goes with it. The deal then ends `bare`.
* *`CancelledEntryStillBlocks`, its exception.* The route's limit is its own (`main.py:1120`, 390 unless the request says otherwise), the
  preflight's a setting. A request with a lower limit cancels an entry that the preflight takes for young, and another order for
  the symbol passes while that entry may still fill. With FALSE for its conclusion the property is violated by that. What does pass is judged by one read of
  the open orders: a cancellation that begins between the read and the submission is not seen by either. The blocking itself
  is the default `FAIL_ON_STALE_OPEN_ORDERS = True`; otherwise the preflight only warns.
* *SingleSweeper without `Readers`, and with one sweeper.* Two updaters that read one checkpoint
  record the same shares twice.
* *SettledOrders without `Cancellers`.* A cancellation that the broker only accepted is written as
  CANCELLED, which is final; later fills are never learnt.
* *SettledOrders with one order.* With `Orders = {1, 2}` and `Limit = 1`, an order that is never
  submitted fills the sweep's limit for ever.
* *Intake in LIVE.* In PAPER a failed metadata repair is ignored, so that a bucket it lost is not seen
  and the approval is used.
* *`GapIsReported`, conjunct `GaveUpOnCancel`.* A cancellation that outlasts its confirmation, or whose confirmation is
  lost, is reported as a block without a gap; when it completes it removes the stop. Only a cancellation under way or done excuses
  the answer, not an order that ended because the other leg filled.
* *`GapIsReported` and `VerifiedIsProtected`, conjunct `Alone`.* Nothing keeps two approved requests
  for one symbol apart.
* *`RoundingKeepsSides` is not strict.* Prices less than a tick apart are valid and become equal when
  rounded.
* *`SentPricesAreTicks` counts 0 as a price.* A positive price below half a tick is valid and is rounded to 0.

## 4. Fairness

Only what the code schedules is fair. `execution_worker.run_forever` polls every two seconds and
goes on after an exception, so taking a job and each further step of a worker *loop* are weakly
fair; the routes are not, because nobody has to call them. `reconciliation_worker.run_forever`
gives the sweep the same. Calls return because they carry timeouts (10 s for the Database Agent,
30 s for the broker); in `FillReconciliation`, where a request that has begun keeps running,
every process is fair in continuing, and not in beginning. The broker is never fair: it need not fill or cancel.
Weak fairness is enough: no other party disables an enabled step for good.

`JobLiveness` has no failing or ending process, and `SettledOrders` no failures. A process that stops leaves its job running
for ever, since nothing returns running jobs to the queue; with crashes the property would only
restate that.

## 5. What is proved

`OrderExecutionProofs` proves for any sets of orders and processes and any number of attempts:

| Theorem | Statement | Assumptions |
|---|---|---|
| `TypeCorrect` | `Spec => []TypeOK` | `ExecutionAssumption` |
| `SucceededTracked` | `Spec => []SucceededIsTracked` | `ExecutionAssumption`: every mode, every failure |
| `OneExecutor` | `Spec => []ExclusiveExecution` | and `LiveSetting` |
| `OneSubmission` | `Spec => []AtMostOneSubmission` | and `LiveSetting` |
| `SubmissionWitnessed` | `Spec => []SubmissionIsWitnessed` | and `LiveSetting` |
| `FinishedJobsStay` | `Spec => FinishedJobStays` | and `LiveSetting` |
| `ProtocolFollowed` | `Spec => FollowsSubmissionProtocol` | and `LiveSetting` |

`ExecutionAssumption` types the constants. `LiveSetting` says LIVE mode, a Database Agent that
returns the metadata it stored, and no job write that is applied although it seems to fail;
crashes and failing calls remain. Each of the three conjuncts is needed: `PaperDoubleSubmission`
drops the first, section 3.3 says what happens without the others.

*`TrackedInv`.* "A succeeded job has a broker id" is not inductive by itself: the job's status comes
from the outcome a process carries. The invariant follows the value backwards: a process that
settles with a submitted status works on an order whose id is persisted, one that reports such a
status carries an id, an id comes from an accepted request only, and a submitted status on a row
implies an id on it. Broker ids are never cleared, so other processes cannot spoil it.

*`ExclusiveInv`.* "At most one submission" rests on three facts that hold together or not at all:
the job of a held order is running and has one holder; from its first read to its claim the
holder finds the order unclaimed, hence unsent, since a claim witnesses every submission; and
between the confirmed claim and the request nothing has been sent. No step ever erases a claim,
because no creator is left that would rewrite the metadata.

The refinement maps each step to a step of the protocol or to a stutter: writing the claim is
`Reserve`, placing is `Request`, the callback is `LearnId`, all others leave phase and counter alone. It
uses `ExclusiveInv` for the reservation being open and the request being the first.

`OrderIntakeProofs` proves for any sets of requests, trades and approvals, for every way the approvals
may fit, and for every failure:

| Theorem | Statement | Assumptions |
|---|---|---|
| `IntakeTypes` | `Spec => []TypeOK` | `IntakeAssumption` |
| `OneOrderPerApproval` | `Spec => []ApprovalBuysOneOrder` | `IntakeAssumption` |
| `LedgerKeptAlways` | `Spec => KeepsLedger` | `IntakeAssumption` |
| `MismatchedKeepApprovals` | `Spec => []MismatchKeepsApproval` | and `TradingMode = "LIVE"` |

*`IntakeInv`.* `verify_risk_approval` reads the approval long before `mark_risk_approval_used` writes
it, so what was verified says nothing of the approval's status at the write; that status is read again there. What
keeps a trade from costing two approvals is the Database Agent's refusal of a trade id it
knows: a request between `create_order` and the use of its approval is the only one on its trade
(`CreatorsAlone`), its trade fits its approval because the fit does not change (`AuthorisedFits`),
and an order that does not exist was never paid for (`CreatedOnce`, `UnusedBuysNothing`).

*`BucketChecked`.* A request reaches the use of its approval in LIVE only with an order that was
read back with its bucket, and no other request writes that order's bucket. In PAPER this is false: a metadata
write that is applied with the default bucket and seems to fail is passed over.

The refinement `KeepsLedger` maps the use of an approval to `Spend` and everything else, expiry
included, to a stutter.

`FillReconciliationProofs` proves for any sets of orders, shares and processes, in both modes and under
every failure:

| Theorem | Statement | Assumptions |
|---|---|---|
| `ReconciliationTypes` | `Spec => []TypeOK` | `ReconciliationAssumption` |
| `RowsNeverAhead` | `Spec => []RowNeverAheadOfBroker` | `ReconciliationAssumption`: any number of updaters |
| `SharesRecordedOnce` | `Spec => []NoShareRecordedTwice` | and `LoneUpdater` |
| `FillsPricedFromCheckpoint` | `Spec => []FillIsPricedFromItsCheckpoint` | and `LoneUpdater` |
| `CheckpointsAdvance` | `Spec => CheckpointNeverMovesBack` | and `LoneUpdater` |
| `CheckpointsRecorded` | `Spec => []CheckpointIsRecorded` | and `ReliableDatabase`: any number of updaters |

*`TruthInv`.* An answer was true when it was given, the broker takes no fill back and a filled order stays filled,
so an answer stays true for as long as a process carries it, and with it the row it is written to.
This needs no order among the updaters.

*`LoneUpdater`, `UpdaterInv`.* `LoneUpdater`: the sweeps and the status route are one process, or one of them does not
run; submitters and cancellers are as many as there are. Then from the read of a checkpoint to its write nobody
else writes it (`CheckpointHeld`): an order has one submitter (`OneSubmitter`), and the
updater comes when the submitter has written the row (`RowsFirst`). Fills recorded and fills
about to be recorded are therefore disjoint intervals of shares (`FillsDisjoint`). With a second updater all three
statements are false of the code (section 3.3).

*`CoverageInv`.* `ReliableDatabase`: no database call fails and no process stops; the broker's calls and its
averages may fail. A process that has written a checkpoint still carries the interval up to it, until it records
it. The checkpoint may have moved back and forth since it was read, so the invariant is about every share below what a
process *read*, too: each is recorded or somebody carries it (`Covered`). That holds with any number
of updaters; it is `NoShareRecordedTwice` that needs a lone one.

`ProtectionReplacementProofs` proves, for any number of requests, any initial book, any position and every failure:

| Theorem | Statement | Assumptions |
|---|---|---|
| `ReplacementTypes` | `Spec => []TypeOK` | `ReplacementAssumption` |
| `CancelledBeforeReplaced` | `Spec => []ReplacedAfterCancelled` | `ReplacementAssumption` |
| `VerifiedMeansProtected` | `Spec => []VerifiedIsProtected` | `ReplacementAssumption` |
| `GapsAreReported` | `Spec => []GapIsReported` | `ReplacementAssumption` |

*`BookInv`.* The position stays a natural number because what the book reserves never exceeds what is held: a sell
takes the same quantity from both. The broker reserves an OCO once, by its first leg, and a fill closes both legs, so this
needs the legs of an OCO to be a stop and a limit of one quantity (`Paired`, an assumption about the
initial books, kept by every submission) that work together or not at all (`LegsTogether`). It also
needs every plan to be for a positive number of shares, from the moment it is made to the submission (`TypeOK`).

*`CancelledForGood`.* A request counts an order as cancelled only when it saw it canceled, and canceled is final.

*`VerifiedInv`.* The verification reads the position, then the orders. In between, and after the answer, only sales may
fill: a reconciliation has cancelled every entry order before it submits, and nobody adds one
(`NoneBuying`). A sale takes from the position what it takes, at most, from the stops and from the take profits. A
cancellation would take from the protection alone; but a request that is alone started every pending
one itself (`PendingIsPlanned`), and it waits for each before it submits (`RouteInv`).

*`GapInv`.* The position never outgrows what was planned for, but by what was bought since; so a replacement
that succeeded covers it. Until the first cancellation of a plan happens the stops cover what they covered, beside what
fills; when one happens the request learns of it and answers with a gap, or it has given up waiting for it
(`UntouchedPlan`; the leg that closes because the other one filled is no cancellation, the fill has sold its shares). Both invariants need `Alone`: two requests for one symbol do cancel each other's protection.

The quantities of orders are summed by the community modules' fold over a set, whose induction theorems the provers
cannot use. `SumTheorems` proves what is needed of such sums for finite sets of any size (no element, one more element, equal
summands, more elements) by least counterexamples instead: a sum is the last of the partial sums along an
enumeration, and the smallest set without partial sums would have one element more than a set that has them.

`EntryProtectionProofs` proves for every pair of ticks of which the fine one divides the coarse one, both even in units, and for
every range of prices (`TickAssumption`):

| Theorem | Statement |
|---|---|
| `PayloadTypes` | `Spec => []TypeOK` |
| `SidesKept` | `Spec => []RoundingKeepsSides` |
| `SentPricesTicks` | `Spec => []SentPricesAreTicks` |

The dollar is a multiple of both ticks, so no price is rounded past it, in either direction
(`DollarIsABarrier`); rounding is therefore monotone on all prices, not only on those that share a tick
(`PriceIsMonotone`), and the tick a price was rounded to is the tick that holds where it has come to lie
(`PriceIsTick`). The invariant `PayloadInv` adds to `TypeOK` that a payload is the bracket of the order's plan.

`AccountTrafficProofs` proves for any finite deployments of batches and workers, any orders, symbols, buckets, funds, cleanups and
reports:

| Theorem | Statement | Invariant it needs |
|---|---|---|
| `TrafficTypes` | `Spec => []TypeOK` | `TypeOK` |
| `DealsCountedOnce` | `Spec => []NoDealCountedTwice` | `PositionsCameFirst` |
| `CancelledEntriesBlock` | `Spec => CancelledEntryStillBlocks` | `ListedStaysStale`, `CancelledEntriesAreStale` |
| `FreshOrdersSpared` | `Spec => CleanupSparesFreshOrders` | the same |
| `ReserveUntouched` | `Spec => []ReserveKept` | `JudgedByEnough`, `IdleBeyondDeployment` |
| `OneOpenDeal` | `Spec => []OneOpenDealPerSymbol` | `PendingIsClear`, `IdleBeyondDeployment` |

What was listed as stale is still older than its request's limit, or is not the order that was listed (`ListedStaysStale`): age only grows
until an order ends. An entry that is being cancelled is therefore older than one of `MaxAges`; what passes beside it is not older
than `MaxStaleAge`. Nobody but the executor lowers the buying power, so figures it read earlier are too low at worst
(`JudgedByEnough`). Orders of a lone batch have symbols of their own, and until it comes to one nothing of its
symbol opens, since entries are opened by that batch only and exits take the place of entries (`PendingIsClear`).
`AccountAssumption` says that ages are natural numbers and 0 is one of them, `CleanupAssumption` that a request's limit is any
integer, `AdmissionAssumption` that the batches and workers of a deployment are finitely many, because "one executor" is
a statement about their number.

Only model-checked: liveness (`EveryJobFinishes`, `SettledOrderIsLearnt`), which needs fairness. Every other property of
the passing runs is the subject of a theorem. The properties of the violated runs are false.

## 6. Plan

1. Done: `OrderExecution` with its promise and proofs, `FillReconciliation`, `OrderIntake` with its promise,
   `ProtectionReplacement`, `EntryProtection`, the account (`BrokerAccount`, `OrderAdmission`,
   `BrokerCleanup`, `AccountReport`, `AccountTraffic`), `SimulatedFills`.
2. Theorems: done for every invariant, action property and refinement that a passing run checks. Next: the safety half of
   `SettledOrderIsLearnt` (what a row has learnt of a settled order is never written over), and `SimulatedFills`.
3. Approval tickets: a preview's ticket, confirmed later, against the plan of the execution's own reads.

## 7. What is not modelled

* *The simulator's account, positions and exit orders*: constants. In `OrderExecution` its answers are among
  those the broker may give.
* *`cleanup_status` and `cancel_all_open_orders`*: no route calls them. A dry run of the cleanup changes nothing.
* *What becomes of a pushed account snapshot*: the Database Agent is outside the repository, and the service
  never reads a snapshot back.
* *Listings of more than 100 open orders, entries that fill in parts, market orders* in the account
  modules; an order whose submission time is unknown counts as young there, as in the code.
* *Portfolio helpers* (`services/portfolio_execution.py`, `services/portfolio_approval_safety.py`):
  no route calls them.
* *Previews, diagnostics, ticket hashing, HTTP surface, logging, configuration*: reading and
  formatting; their verdicts are nondeterministic where a modelled step depends on them.
* *Partial fills of protective orders*: in `ProtectionReplacement` an order fills as a whole.
* *Late writes*: a database call that timed out is applied then or never, not afterwards.
* *Quantities and identifiers* in `EntryProtection`: reduced to whether plan and order agree.
