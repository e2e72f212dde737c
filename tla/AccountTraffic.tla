---------------------------- MODULE AccountTraffic ----------------------------
(***************************************************************************)
(* Order admission, broker cleanup and broker state reports on one account *)
(* that moves by itself.                                                   *)
(***************************************************************************)
EXTENDS OrderAdmission, BrokerCleanup, AccountReport

vars == <<account, admission, cleanup, report>>

TypeOK == AccountOK /\ AdmissionOK /\ CleanupOK /\ ReportOK

Init == AccountInit /\ AdmissionInit /\ CleanupInit /\ ReportInit

Next ==
  \/ AccountMoves /\ UNCHANGED <<admission, cleanup, report>>
  \/ AdmissionNext /\ UNCHANGED <<cleanup, report>>
  \/ CleanupNext /\ UNCHANGED <<admission, report>>
  \/ ReportNext /\ UNCHANGED <<admission, cleanup>>

Spec == Init /\ [][Next]_vars

----------------------------------------------------------------------------
(* Properties. *)

\* Those who execute orders.
Spenders == running.workers \cup (IF running.processNow THEN running.batches ELSE {})

\* One process executes orders: the worker, or the one batch that runs.
OneExecutor == Cardinality(Spenders) <= 1

\* The reserve stays untouched however old the figures are by which the preflight
\* judged, with whatever the exits, the cleanup and other batches do meanwhile: one
\* executor is the only one who spends (insufficient_buying_power_after_order).
ReserveKept == OneExecutor /\ Funds >= Reserve => buyingPower >= Reserve

\* Batches run one at a time and execute their orders themselves.
LoneBatch == running.processNow /\ Cardinality(running.batches) <= 1 /\ running.workers = {}

\* Then no two deals of a symbol have open orders, though each batch judged by the open
\* orders it read before its first order left (SYMBOL_ALREADY_HAS_OPEN_ORDER).
OneOpenDealPerSymbol ==
  LoneBatch =>
    \A d, e \in OpenDeals : SymbolOf[d] = SymbolOf[e] /\ {d, e} \cap Orders # {} => d = e

\* An executor's preflight lets its order pass.
Passes(e) == step[e] = "open_orders" /\ step'[e] = "submit"

\* The preflight lets no order pass while an entry of its symbol is being cancelled, which
\* may still fill: what the cleanup found stale still counts as stale.  Only a request that
\* named a lower limit than the preflight's may have cancelled an entry the preflight
\* takes for young (same_symbol_stale_open_orders_present).
CancelledEntryStillBlocks ==
  [][\A e \in Executors, d \in Deals :
       Passes(e) /\ deal[d].phase = "entry" /\ deal[d].cancelling /\ SymbolOf[d] = SymbolOf[executing[e]] =>
         ~OlderThan(d, MaxStaleAge) /\ \E limit \in MaxAges : OlderThan(d, limit)]_vars

\* A cancellation that begins is of an order that a request listed, and that is at this
\* moment, not only when it was listed, older than that request's limit: exits that an
\* entry got meanwhile are spared.  Only include_protective takes more, the stops of held
\* positions (cancel_stale_open_orders).
CleanupSparesFreshOrders ==
  [][\A d \in Deals : deal'[d].cancelling /\ ~deal[d].cancelling =>
       \E c \in Cleanups :
         /\ <<d, deal[d].phase>> \in targets[c] \ targets'[c]
         /\ OlderThan(d, maxAge[c]) \/ (deal[d].phase = "stop" /\ thorough[c])]_vars

\* No snapshot shows the same shares as a position and as an open entry order, though
\* entries fill between its reads (collect_broker_state).
NoDealCountedTwice ==
  \A r \in Reports : snapshot[r].positions \cap snapshot[r].entries = {}

----------------------------------------------------------------------------
(* Strengthenings that are inductive, for the proofs. *)

\* Only who may execute orders ever does, and only batches that run have orders to create.
IdleBeyondDeployment ==
  /\ \A e \in Executors : step[e] # "idle" => e \in Spenders
  /\ \A b \in Batches \ running.batches : toCreate[b] = {}

\* The only executor judged by no more buying power than there is, and what it is about
\* to spend leaves the reserve.
JudgedByEnough ==
  OneExecutor => \A e \in Executors :
    /\ step[e] = "open_orders" => power[e] <= buyingPower
    /\ step[e] = "submit" => buyingPower - Notional(executing[e]) >= Reserve

\* The orders of a batch that have not reached the broker.
Pending(b) == toCreate[b] \cup ({executing[b]} \cap Orders)

\* Until the lone batch has come to an order nothing of its symbol is open, neither of
\* the batch's own orders nor from before.
PendingIsClear ==
  LoneBatch => \A b \in Batches :
    /\ executing[b] \notin toCreate[b]
    /\ OneSymbolEach(Pending(b))
    /\ \A o \in Pending(b) : SymbolOf[o] \notin OpenSymbols

\* What a target names was open once; if it still is, it is older than its request's limit.
ListedStaysStale ==
  \A c \in Cleanups : \A target \in targets[c] :
    LET now == deal[target[1]] IN
    /\ now.phase # "new"
    /\ target[2] # "entry" => now.phase # "entry"
    /\ now.phase = target[2] => OlderThan(target[1], maxAge[c]) \/ (target[2] = "stop" /\ thorough[c])

CancelledEntriesAreStale ==
  \A d \in Deals : deal[d].phase = "entry" /\ deal[d].cancelling => \E limit \in MaxAges : OlderThan(d, limit)

\* The positions come first, and what was held never becomes an entry again.
PositionsCameFirst ==
  \A r \in Reports :
    /\ reporting[r] = 1 => snapshot[r].positions = {}
    /\ reporting[r] # 3 => snapshot[r].entries = {}
    /\ \A d \in snapshot[r].positions : deal[d].phase \in HeldPhase \cup {"closed"}
=============================================================================
