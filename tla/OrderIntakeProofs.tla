-------------------------- MODULE OrderIntakeProofs --------------------------
(***************************************************************************)
(* Proofs about OrderIntake, for any number of requests, trades and        *)
(* approvals, and for every way the approvals may fit.                     *)
(***************************************************************************)
EXTENDS OrderIntake, TLAPS

----------------------------------------------------------------------------
(* Types. *)

\* A step of a request that keeps what it wants keeps the types of the requests.
LEMMA GotoType ==
  ASSUME TypeOK, NEW r \in Requests,
         NEW l \in {"idle", "lookup", "verify", "create", "reject", "metadata", "consume", "enqueue"},
         Goto(r, l)
  PROVE  /\ pc' \in [Requests -> {"idle", "lookup", "verify", "create", "reject", "metadata",
                                  "consume", "enqueue"}]
         /\ wants' \in [Requests -> Intent]
BY DEF TypeOK, Goto

\* What the Database Agent stores as a bucket is a bucket.
LEMMA StoredType ==
  ASSUME NEW call, NEW bucket \in Buckets
  PROVE  Stored(call, bucket) \subseteq Buckets
BY IntakeAssumption DEF Stored

\* A request asks for a trade, an approval and a bucket.
LEMMA WantsType ==
  ASSUME TypeOK, NEW r \in Requests
  PROVE  /\ wants[r] \in Intent
         /\ Trade(r) \in Trades /\ wants[r].approval \in Approvals /\ wants[r].bucket \in Buckets
BY DEF TypeOK, Intent, Trade

\* Writing a row of an order that exists keeps the tables that depend on it.
LEMMA RowType ==
  ASSUME TypeOK, NEW t \in Trades, NEW row \in OrderRow,
         order' = [order EXCEPT ![t] = row], row.status # "absent"
  PROVE  /\ order' \in [Trades -> OrderRow]
         /\ enqueued \subseteq {x \in Trades : order'[x].status # "absent"}
BY DEF TypeOK

\* Every step keeps every variable in its type.  A request enqueues an order that
\* exists, which is the only place where OrdersExist is needed.
LEMMA TypeStep == TypeOK /\ OrdersExist /\ [Next]_vars => TypeOK'
<1> SUFFICES ASSUME TypeOK, OrdersExist, [Next]_vars
             PROVE  TypeOK'
  OBVIOUS
<1>1. ASSUME NEW r \in Requests, Receive(r)
      PROVE  TypeOK'
  BY <1>1 DEF TypeOK, Receive
<1>2. ASSUME NEW r \in Requests, LookUp(r)
      PROVE  TypeOK'
  BY <1>2, GotoType DEF TypeOK, LookUp, Answer
<1>3. ASSUME NEW r \in Requests, VerifyRiskApproval(r)
      PROVE  TypeOK'
  BY <1>3, GotoType DEF TypeOK, VerifyRiskApproval, Answer
<1>4. ASSUME NEW r \in Requests, CreateOrder(r)
      PROVE  TypeOK'
  <2>1. Trade(r) \in Trades /\ wants[r] \in Intent /\ wants[r].bucket \in Buckets
    BY WantsType
  <2>2. \E l \in {"idle", "reject", "metadata", "consume"} : Goto(r, l)
    BY <1>4 DEF CreateOrder, Checked, Answer
  <2>3. CASE UNCHANGED <<order, created>>
    BY <1>4, <2>2, <2>3, GotoType DEF CreateOrder, TypeOK
  <2>4. CASE IsNew(Trade(r)) /\ ~UNCHANGED <<order, created>>
    <3>1. PICK bucket \in Stored("create", wants[r].bucket) :
            order' = [order EXCEPT ![Trade(r)] = [status |-> "pending", bucket |-> bucket]]
      BY <1>4, <2>4 DEF CreateOrder
    <3>2. [status |-> "pending", bucket |-> bucket] \in OrderRow
      BY <2>1, <3>1, StoredType DEF OrderRow
    <3>3. created' = created \cup {wants[r]}
      BY <1>4, <2>4 DEF CreateOrder
    <3> QED
      BY <1>4, <2>1, <2>2, <3>1, <3>2, <3>3, GotoType, RowType DEF CreateOrder, TypeOK
  <2> QED
    BY <1>4, <2>3, <2>4 DEF CreateOrder
<1>5. ASSUME NEW r \in Requests, EnsureProtectionMetadata(r)
      PROVE  TypeOK'
  <2>1. Trade(r) \in Trades /\ order[Trade(r)].status # "absent"
    BY <1>5, WantsType DEF EnsureProtectionMetadata, OrdersExist, Creating
  <2>2. \E l \in {"idle", "reject", "consume"} : Goto(r, l)
    BY <1>5 DEF EnsureProtectionMetadata, Checked, Answer
  <2>3. CASE UNCHANGED order
    BY <1>5, <2>2, <2>3, GotoType DEF EnsureProtectionMetadata, TypeOK
  <2>4. CASE ~UNCHANGED order
    <3>1. PICK bucket \in Stored("update", order[Trade(r)].bucket) :
            order' = [order EXCEPT ![Trade(r)].bucket = bucket]
      BY <1>5, <2>4 DEF EnsureProtectionMetadata
    <3>2. bucket \in Buckets
      BY <2>1, <3>1, StoredType DEF TypeOK, OrderRow
    <3> DEFINE row == [order[Trade(r)] EXCEPT !.bucket = bucket]
    <3>3. row \in OrderRow /\ row.status # "absent" /\ order' = [order EXCEPT ![Trade(r)] = row]
      BY <2>1, <3>1, <3>2 DEF TypeOK, OrderRow
    <3> HIDE DEF row
    <3> QED
      BY <1>5, <2>1, <2>2, <3>3, GotoType, RowType DEF EnsureProtectionMetadata, TypeOK
  <2> QED
    BY <2>3, <2>4
<1>6. ASSUME NEW r \in Requests, MarkMismatchFailed(r)
      PROVE  TypeOK'
  <2>1. Trade(r) \in Trades
    BY WantsType
  <2> DEFINE row == [order[Trade(r)] EXCEPT !.status = "failed"]
  <2>2. row \in OrderRow /\ row.status # "absent"
    BY <2>1 DEF TypeOK, OrderRow
  <2>3. UNCHANGED order \/ order' = [order EXCEPT ![Trade(r)] = row]
    BY <1>6 DEF MarkMismatchFailed
  <2> HIDE DEF row
  <2>4. CASE UNCHANGED order
    BY <1>6, <2>4, GotoType DEF MarkMismatchFailed, Answer, TypeOK
  <2>5. CASE order' = [order EXCEPT ![Trade(r)] = row]
    BY <1>6, <2>1, <2>2, <2>5, GotoType, RowType DEF MarkMismatchFailed, Answer, TypeOK
  <2> QED
    BY <2>3, <2>4, <2>5
<1>7. ASSUME NEW r \in Requests, ConsumeApproval(r)
      PROVE  TypeOK'
  <2>1. Trade(r) \in Trades /\ wants[r].approval \in Approvals
    BY WantsType
  <2>2. approval' \in [Approvals -> ApprovalRow]
    BY <1>7, <2>1 DEF ConsumeApproval, TypeOK, ApprovalRow
  <2>3. \E l \in {"idle", "enqueue"} : Goto(r, l)
    BY <1>7 DEF ConsumeApproval, Answer
  <2> QED
    BY <1>7, <2>2, <2>3, GotoType DEF ConsumeApproval, TypeOK
<1>8. ASSUME NEW r \in Requests, Enqueue(r)
      PROVE  TypeOK'
  <2>1. Trade(r) \in Trades /\ order[Trade(r)].status # "absent"
    BY <1>8, WantsType DEF Enqueue, OrdersExist
  <2> QED
    BY <1>8, <2>1, GotoType DEF Enqueue, Answer, TypeOK
<1>9. ASSUME NEW r \in Requests, Crash(r)
      PROVE  TypeOK'
  BY <1>9, GotoType DEF TypeOK, Crash, Answer
<1>10. ASSUME NEW t \in Trades, Submit(t)
       PROVE  TypeOK'
  <2> DEFINE row == [order[t] EXCEPT !.status = "placed"]
  <2>1. row \in OrderRow /\ row.status # "absent" /\ order' = [order EXCEPT ![t] = row]
    BY <1>10 DEF Submit, TypeOK, OrderRow
  <2> HIDE DEF row
  <2> QED
    BY <1>10, <2>1, RowType DEF Submit, TypeOK
<1>11. ASSUME NEW a \in Approvals, Expire(a)
       PROVE  TypeOK'
  BY <1>11 DEF Expire, TypeOK, ApprovalRow
<1>12. CASE UNCHANGED vars
  BY <1>12 DEF vars, TypeOK
<1> QED
  BY <1>1, <1>2, <1>3, <1>4, <1>5, <1>6, <1>7, <1>8, <1>9, <1>10, <1>11, <1>12 DEF Next, Serve

----------------------------------------------------------------------------
(* One approval buys one order. *)

\* What the state of the requests' steps and of the tables must keep for IntakeInv:
\* nothing is created or spent, and no request becomes a creator.
LEMMA QuietStep ==
  ASSUME TypeOK, IntakeInv, UNCHANGED created,
         \A a \in Approvals : /\ approval'[a].status = approval[a].status
                              /\ approval'[a].boughtOrder = approval[a].boughtOrder,
         \A t \in Trades : order[t].status # "absent" => order'[t].status # "absent",
         \A q \in Requests : pc'[q] \in Creating => pc[q] \in Creating /\ wants'[q] = wants[q],
         \A q \in Requests : pc'[q] = "create" => wants'[q].trade \in Fits[wants'[q].approval],
         \A q \in Requests : pc'[q] = "enqueue" => order'[wants'[q].trade].status # "absent"
  PROVE  IntakeInv'
<1>1. OrdersExist'
  BY WantsType DEF IntakeInv, OrdersExist, Trade
<1>2. CreatorsAlone'
  BY DEF IntakeInv, CreatorsAlone, Trade
<1>3. CreatedOnce'
  BY DEF IntakeInv, CreatedOnce, TypeOK, Intent
<1>4. AuthorisedFits'
  BY DEF AuthorisedFits, Trade
<1>5. UnusedBuysNothing'
  BY DEF IntakeInv, UnusedBuysNothing
<1>6. ApprovalBuysOneOrder'
  BY DEF IntakeInv, ApprovalBuysOneOrder
<1> QED
  BY <1>1, <1>2, <1>3, <1>4, <1>5, <1>6 DEF IntakeInv

\* A request that goes to its next step is quiet unless it creates or spends.
LEMMA QuietGoto ==
  ASSUME TypeOK, IntakeInv, UNCHANGED <<created, approval>>, NEW r \in Requests, NEW l, Goto(r, l),
         \A t \in Trades : order[t].status # "absent" => order'[t].status # "absent",
         l \in Creating => pc[r] \in Creating,
         l = "create" => Trade(r) \in Fits[wants[r].approval],
         l = "enqueue" => order[Trade(r)].status # "absent"
  PROVE  IntakeInv'
<1>1. /\ wants' = wants /\ pc'[r] = l
      /\ \A q \in Requests \ {r} : pc'[q] = pc[q]
  BY DEF Goto, TypeOK
<1>2. \A q \in Requests : pc'[q] \in Creating => pc[q] \in Creating /\ wants'[q] = wants[q]
  BY <1>1
<1>3. \A q \in Requests : pc'[q] = "create" => wants'[q].trade \in Fits[wants'[q].approval]
  BY <1>1 DEF IntakeInv, AuthorisedFits, Trade
<1>4. \A q \in Requests : pc'[q] = "enqueue" => order'[wants'[q].trade].status # "absent"
  BY <1>1, WantsType DEF IntakeInv, OrdersExist, Trade
<1> QED
  BY <1>2, <1>3, <1>4, QuietStep

\* Of an order that does not exist nothing was created, and no approval bought it.
LEMMA NewOrder ==
  ASSUME TypeOK, IntakeInv, NEW t \in Trades, order[t].status = "absent"
  PROVE  /\ \A c \in created : c.trade # t
         /\ \A a \in Approvals : approval[a].boughtOrder # t
<1>1. \A c \in created : c.trade # t
  BY DEF IntakeInv, CreatedOnce
<1>2. ASSUME NEW a \in Approvals, approval[a].boughtOrder = t
      PROVE  FALSE
  <2>1. approval[a].status = "used"
    BY <1>2, IntakeAssumption DEF TypeOK, ApprovalRow, IntakeInv, UnusedBuysNothing
  <2> QED
    BY <1>1, <1>2, <2>1 DEF IntakeInv, ApprovalBuysOneOrder
<1> QED
  BY <1>1, <1>2

\* The order of a new trade: nobody created it before and no approval was spent on it.
LEMMA CreateKeeps ==
  ASSUME TypeOK, IntakeInv, NEW r \in Requests, CreateOrder(r)
  PROVE  IntakeInv'
<1> DEFINE t == Trade(r)
<1>1. t \in Trades /\ wants[r] \in Intent /\ wants[r].approval \in Approvals
  BY WantsType
<1>2. CASE Answer(r) /\ UNCHANGED <<order, created>>
  BY <1>2, QuietGoto DEF CreateOrder, Answer, Creating
<1>3. CASE ~(Answer(r) /\ UNCHANGED <<order, created>>)
  <2>1. /\ order[t].status = "absent" /\ created' = created \cup {wants[r]}
        /\ order'[t].status = "pending" /\ \A x \in Trades \ {t} : order'[x] = order[x]
        /\ UNCHANGED approval
    BY <1>1, <1>3 DEF CreateOrder, IsNew, TypeOK
  <2>2. PICK l \in Creating \cup {"idle"} : Goto(r, l)
    BY DEF CreateOrder, Checked, Answer, Creating
  <2>3. /\ wants' = wants /\ pc'[r] = l /\ pc[r] = "create"
        /\ \A q \in Requests \ {r} : pc'[q] = pc[q]
    BY <2>2 DEF Goto, TypeOK, CreateOrder
  <2>4. \A q \in Requests : pc[q] \in Creating \cup {"enqueue"} => Trade(q) # t
    BY <2>1 DEF IntakeInv, OrdersExist
  <2>5. \A c \in created : c.trade # t
    BY <1>1, <2>1, NewOrder
  <2>6. \A a \in Approvals : approval[a].boughtOrder # t
    BY <1>1, <2>1, NewOrder
  <2>7. OrdersExist'
    BY <1>1, <2>1, <2>2, <2>3, WantsType DEF IntakeInv, OrdersExist, Trade, Creating
  <2>8. CreatorsAlone'
    <3> SUFFICES ASSUME NEW q \in Requests, pc'[q] \in Creating
                 PROVE  /\ wants[q] \in created' /\ Trade(q) \in Fits[wants[q].approval]
                        /\ \A a \in Approvals : approval[a].boughtOrder # Trade(q)
                        /\ \A s \in Requests \ {q} : pc'[s] \in Creating => Trade(s) # Trade(q)
      BY <2>1, <2>3 DEF CreatorsAlone, Trade
    <3>1. CASE q = r
      BY <2>1, <2>3, <2>4, <2>6, <3>1 DEF IntakeInv, AuthorisedFits
    <3>2. CASE q # r
      BY <2>1, <2>3, <2>4, <3>2 DEF IntakeInv, CreatorsAlone
    <3> QED
      BY <3>1, <3>2
  <2>9. CreatedOnce'
    BY <1>1, <2>1, <2>5 DEF IntakeInv, CreatedOnce, TypeOK, Intent, Trade
  <2>10. AuthorisedFits'
    BY <2>2, <2>3 DEF IntakeInv, AuthorisedFits, Trade, Creating
  <2>11. UnusedBuysNothing'
    BY <2>1 DEF IntakeInv, UnusedBuysNothing
  <2>12. ApprovalBuysOneOrder'
    BY <2>1 DEF IntakeInv, ApprovalBuysOneOrder
  <2> QED
    BY <2>7, <2>8, <2>9, <2>10, <2>11, <2>12 DEF IntakeInv
<1> QED
  BY <1>2, <1>3

\* The approval a creator spends buys the order it created, which cost no other one.
LEMMA ConsumeKeeps ==
  ASSUME TypeOK, IntakeInv, NEW r \in Requests, ConsumeApproval(r)
  PROVE  IntakeInv'
<1> DEFINE t == Trade(r)
           a == wants[r].approval
<1>1. t \in Trades /\ wants[r] \in Intent /\ a \in Approvals
  BY WantsType
<1>2. PICK l \in {"idle", "enqueue"} : Goto(r, l)
  BY DEF ConsumeApproval, Answer
<1>3. pc[r] = "consume" /\ order[t].status # "absent"
  BY DEF ConsumeApproval, IntakeInv, OrdersExist, Creating
<1>4. CASE UNCHANGED approval
  BY <1>2, <1>3, <1>4, QuietGoto DEF ConsumeApproval, Creating
<1>5. CASE Consumable(a) /\ ~UNCHANGED approval
  <2>1. /\ approval'[a].status = "used" /\ approval'[a].boughtOrder = t
        /\ \A b \in Approvals \ {a} : approval'[b] = approval[b]
        /\ UNCHANGED <<order, created>>
    BY <1>1, <1>5 DEF ConsumeApproval, TypeOK, ApprovalRow
  <2>2. /\ wants' = wants /\ pc'[r] = l
        /\ \A q \in Requests \ {r} : pc'[q] = pc[q]
    BY <1>2 DEF Goto, TypeOK
  <2>3. /\ wants[r] \in created /\ t \in Fits[a]
        /\ \A b \in Approvals : approval[b].boughtOrder # t
        /\ \A q \in Requests \ {r} : pc[q] \in Creating => Trade(q) # t
    BY <1>3 DEF IntakeInv, CreatorsAlone, Creating
  <2>4. OrdersExist'
    BY <1>2, <1>3, <2>1, <2>2 DEF IntakeInv, OrdersExist, Trade
  <2>5. CreatorsAlone'
    BY <1>2, <2>1, <2>2, <2>3 DEF IntakeInv, CreatorsAlone, Trade, Creating
  <2>6. CreatedOnce'
    BY <2>1 DEF IntakeInv, CreatedOnce
  <2>7. AuthorisedFits'
    BY <1>2, <2>2 DEF IntakeInv, AuthorisedFits, Trade
  <2>8. UnusedBuysNothing'
    BY <2>1 DEF IntakeInv, UnusedBuysNothing
  <2>9. ApprovalBuysOneOrder'
    BY <1>1, <2>1, <2>3 DEF IntakeInv, ApprovalBuysOneOrder, Trade
  <2> QED
    BY <2>4, <2>5, <2>6, <2>7, <2>8, <2>9 DEF IntakeInv
<1> QED
  BY <1>4, <1>5 DEF ConsumeApproval

\* Every step keeps the invariant.
LEMMA IntakeStep == TypeOK /\ IntakeInv /\ [Next]_vars => IntakeInv'
<1> SUFFICES ASSUME TypeOK, IntakeInv, [Next]_vars
             PROVE  IntakeInv'
  OBVIOUS
<1>1. ASSUME NEW r \in Requests, Receive(r)
      PROVE  IntakeInv'
  <2>1. pc'[r] = "lookup" /\ \A q \in Requests \ {r} : pc'[q] = pc[q] /\ wants'[q] = wants[q]
    BY <1>1 DEF Receive, TypeOK
  <2>2. UNCHANGED <<order, created, approval>>
    BY <1>1 DEF Receive
  <2>3. \A q \in Requests : pc'[q] \in Creating => pc[q] \in Creating /\ wants'[q] = wants[q]
    BY <2>1 DEF Creating
  <2>4. \A q \in Requests : pc'[q] = "create" => wants'[q].trade \in Fits[wants'[q].approval]
    BY <2>1 DEF IntakeInv, AuthorisedFits, Trade
  <2>5. \A q \in Requests : pc'[q] = "enqueue" => order'[wants'[q].trade].status # "absent"
    BY <2>1, <2>2 DEF IntakeInv, OrdersExist, Trade
  <2> QED
    BY <2>2, <2>3, <2>4, <2>5, QuietStep
<1>2. ASSUME NEW r \in Requests, LookUp(r)
      PROVE  IntakeInv'
  BY <1>2, QuietGoto DEF LookUp, Answer, Creating
<1>3. ASSUME NEW r \in Requests, VerifyRiskApproval(r)
      PROVE  IntakeInv'
  BY <1>3, QuietGoto DEF VerifyRiskApproval, Authorises, Answer, Creating
<1>4. ASSUME NEW r \in Requests, CreateOrder(r)
      PROVE  IntakeInv'
  BY <1>4, CreateKeeps
<1>5. ASSUME NEW r \in Requests, EnsureProtectionMetadata(r)
      PROVE  IntakeInv'
  <2>1. \E l \in {"idle", "reject", "consume"} : Goto(r, l)
    BY <1>5 DEF EnsureProtectionMetadata, Checked, Answer
  <2>2. \A t \in Trades : order'[t].status = order[t].status
    BY <1>5 DEF EnsureProtectionMetadata, TypeOK, OrderRow
  <2> QED
    BY <1>5, <2>1, <2>2, QuietGoto DEF EnsureProtectionMetadata, Creating
<1>6. ASSUME NEW r \in Requests, MarkMismatchFailed(r)
      PROVE  IntakeInv'
  <2>1. \A t \in Trades : order[t].status # "absent" => order'[t].status # "absent"
    BY <1>6 DEF MarkMismatchFailed, TypeOK, OrderRow
  <2> QED
    BY <1>6, <2>1, QuietGoto DEF MarkMismatchFailed, Answer, Creating
<1>7. ASSUME NEW r \in Requests, ConsumeApproval(r)
      PROVE  IntakeInv'
  BY <1>7, ConsumeKeeps
<1>8. ASSUME NEW r \in Requests, Enqueue(r)
      PROVE  IntakeInv'
  BY <1>8, QuietGoto DEF Enqueue, Answer, Creating
<1>9. ASSUME NEW r \in Requests, Crash(r)
      PROVE  IntakeInv'
  BY <1>9, QuietGoto DEF Crash, Answer, Creating
<1>10. ASSUME NEW t \in Trades, Submit(t)
       PROVE  IntakeInv'
  <2>1. \A x \in Trades : order[x].status # "absent" => order'[x].status # "absent"
    BY <1>10 DEF Submit, TypeOK, OrderRow
  <2> QED
    BY <1>10, <2>1, QuietStep DEF Submit, IntakeInv, AuthorisedFits, OrdersExist, Trade
<1>11. ASSUME NEW a \in Approvals, Expire(a)
       PROVE  IntakeInv'
  <2>1. \A b \in Approvals : /\ approval'[b].status = approval[b].status
                             /\ approval'[b].boughtOrder = approval[b].boughtOrder
    BY <1>11 DEF Expire, TypeOK, ApprovalRow
  <2> QED
    BY <1>11, <2>1, QuietStep DEF Expire, IntakeInv, AuthorisedFits, OrdersExist, Trade
<1>12. CASE UNCHANGED vars
  BY <1>12, QuietStep DEF vars, IntakeInv, AuthorisedFits, OrdersExist, Trade
<1> QED
  BY <1>1, <1>2, <1>3, <1>4, <1>5, <1>6, <1>7, <1>8, <1>9, <1>10, <1>11, <1>12 DEF Next, Serve

\* Every reachable state is well typed and has the invariant.
THEOREM IntakeInvariant == Spec => [](TypeOK /\ IntakeInv)
<1>1. Init => TypeOK /\ IntakeInv
  <2> SUFFICES ASSUME Init
               PROVE  TypeOK /\ IntakeInv
    OBVIOUS
  <2>1. TypeOK
    BY IntakeAssumption DEF Init, TypeOK, NoOrder, OrderRow, NewApproval, ApprovalRow
  <2>2. IntakeInv
    BY DEF Init, IntakeInv, OrdersExist, CreatorsAlone, CreatedOnce, AuthorisedFits,
           UnusedBuysNothing, ApprovalBuysOneOrder, NewApproval, Creating
  <2> QED
    BY <2>1, <2>2
<1>2. TypeOK /\ IntakeInv /\ [Next]_vars => (TypeOK /\ IntakeInv)'
  BY TypeStep, IntakeStep DEF IntakeInv
<1> QED
  BY <1>1, <1>2, PTL DEF Spec

\* The tables and the requests hold what their columns and fields may hold, and only
\* orders that exist are enqueued, only enqueued orders are submitted.
THEOREM IntakeTypes == Spec => []TypeOK
<1>1. TypeOK /\ IntakeInv => TypeOK
  OBVIOUS
<1> QED
  BY <1>1, IntakeInvariant, PTL

\* However requests race between verify_risk_approval and mark_risk_approval_used,
\* a used approval bought one order, which was created under it and which it fits.
THEOREM OneOrderPerApproval == Spec => []ApprovalBuysOneOrder
<1>1. TypeOK /\ IntakeInv => ApprovalBuysOneOrder
  BY DEF IntakeInv
<1> QED
  BY <1>1, IntakeInvariant, PTL

----------------------------------------------------------------------------
(* The ledger of the approvals. *)

\* A step that writes no order_id of an approval keeps the ledger.
LEMMA LedgerKept ==
  ASSUME \A a \in Approvals : approval'[a].boughtOrder = approval[a].boughtOrder
  PROVE  UNCHANGED OrderIds
BY DEF OrderIds

\* Spending an approval is one entry of the ledger; every other step leaves it alone.
LEMMA LedgerStep ==
  TypeOK /\ IntakeInv /\ [Next]_vars => [Ledger!Next]_OrderIds
<1> SUFFICES ASSUME TypeOK, IntakeInv, [Next]_vars
             PROVE  [Ledger!Next]_OrderIds
  OBVIOUS
<1>1. ASSUME NEW r \in Requests, ConsumeApproval(r)
      PROVE  [Ledger!Next]_OrderIds
  <2> DEFINE a == wants[r].approval
             t == Trade(r)
  <2>1. t \in Trades /\ a \in Approvals
    BY WantsType
  <2>2. CASE UNCHANGED approval
    BY <2>2, LedgerKept
  <2>3. CASE Consumable(a) /\ ~UNCHANGED approval
    <3>1. approval' = [approval EXCEPT ![a].status = "used", ![a].boughtOrder = t]
      BY <1>1, <2>3 DEF ConsumeApproval
    <3>2. approval[a].boughtOrder = NoTrade
      BY <2>1, <2>3 DEF Consumable, IntakeInv, UnusedBuysNothing
    <3>3. t \in Fits[a] /\ \A b \in Approvals : approval[b].boughtOrder # t
      BY <1>1 DEF ConsumeApproval, IntakeInv, CreatorsAlone, Creating
    <3>4. OrderIds' = [OrderIds EXCEPT ![a] = t]
      BY <2>1, <3>1 DEF OrderIds, TypeOK, ApprovalRow
    <3>5. Ledger!Spend(a, t)
      BY <2>1, <3>2, <3>3, <3>4 DEF Ledger!Spend, Ledger!Paid, OrderIds
    <3> HIDE DEF a, t
    <3>6. Ledger!Next
      BY <2>1, <3>5 DEF Ledger!Next
    <3> QED
      BY <3>6
  <2> QED
    BY <1>1, <2>2, <2>3 DEF ConsumeApproval
<1>2. ASSUME NEW a \in Approvals, Expire(a)
      PROVE  UNCHANGED OrderIds
  BY <1>2, LedgerKept DEF Expire, TypeOK, ApprovalRow
<1>3. CASE UNCHANGED approval
  BY <1>3, LedgerKept
<1>4. \/ UNCHANGED approval
      \/ \E r \in Requests : ConsumeApproval(r)
      \/ \E a \in Approvals : Expire(a)
  BY DEF Next, vars, Serve, Receive, LookUp, VerifyRiskApproval, CreateOrder,
         EnsureProtectionMetadata, MarkMismatchFailed, Enqueue, Crash, Submit
<1> QED
  BY <1>1, <1>2, <1>3, <1>4

\* Order intake implements the ledger: an approval is spent once, on one trade that it
\* fits and that cost no other approval, and for good.
THEOREM LedgerKeptAlways == Spec => KeepsLedger
<1>1. Init => Ledger!Init
  BY DEF Init, Ledger!Init, OrderIds, NewApproval
<1>2. TypeOK /\ IntakeInv /\ [Next]_vars => [Ledger!Next]_OrderIds
  BY LedgerStep
<1> QED
  BY <1>1, <1>2, IntakeInvariant, PTL DEF Spec, KeepsLedger, Ledger!Spec

----------------------------------------------------------------------------
(* Strategy buckets in LIVE. *)

\* A step that writes no bucket, creates and spends nothing, and brings no request to
\* mark_risk_approval_used.
LEMMA QuietBucket ==
  ASSUME TypeOK, BucketChecked, UNCHANGED created,
         \A t \in Trades : order'[t].bucket = order[t].bucket,
         \A a \in Approvals : approval'[a].boughtOrder = approval[a].boughtOrder,
         \A q \in Requests : pc'[q] = "consume" => pc[q] = "consume" /\ wants'[q] = wants[q]
  PROVE  BucketChecked'
<1>1. \A q \in Requests : pc'[q] = "consume" => BucketPersisted(q)'
  BY WantsType DEF BucketChecked, BucketPersisted, Trade
<1>2. MismatchKeepsApproval'
  BY DEF BucketChecked, MismatchKeepsApproval, TypeOK, Intent
<1> QED
  BY <1>1, <1>2 DEF BucketChecked

\* A request at another step than mark_risk_approval_used, at a quiet step.
LEMMA QuietBucketGoto ==
  ASSUME TypeOK, BucketChecked, NEW r \in Requests, NEW l, Goto(r, l), l # "consume",
         UNCHANGED <<created, approval>>,
         \A t \in Trades : order'[t].bucket = order[t].bucket
  PROVE  BucketChecked'
<1>1. \A q \in Requests : pc'[q] = "consume" => pc[q] = "consume" /\ wants'[q] = wants[q]
  BY DEF Goto, TypeOK
<1> QED
  BY <1>1, QuietBucket

\* The writes of a creator: its order may lose its bucket, but then it does not go on,
\* and no approval was spent on the order yet.
LEMMA CreatorBucket ==
  ASSUME TypeOK, BucketChecked, NEW r \in Requests, NEW l, Goto(r, l),
         UNCHANGED approval,
         created' \in {created, created \cup {wants[r]}},
         \A t \in Trades \ {Trade(r)} : order'[t].bucket = order[t].bucket,
         l = "consume" => order'[Trade(r)].bucket = wants[r].bucket,
         \A q \in Requests \ {r} : pc[q] = "consume" => Trade(q) # Trade(r),
         \A a \in Approvals : approval[a].boughtOrder # Trade(r)
  PROVE  BucketChecked'
<1>1. /\ wants' = wants /\ pc'[r] = l
      /\ \A q \in Requests \ {r} : pc'[q] = pc[q]
  BY DEF Goto, TypeOK
<1>2. ASSUME NEW q \in Requests, pc'[q] = "consume"
      PROVE  order'[Trade(q)].bucket = wants[q].bucket
  <2>1. CASE q = r
    BY <1>1, <1>2, <2>1
  <2>2. CASE q # r
    BY <1>1, <1>2, <2>2, WantsType DEF BucketChecked, BucketPersisted
  <2> QED
    BY <2>1, <2>2
<1>3. ASSUME NEW c \in created', order'[c.trade].bucket # c.bucket
      PROVE  approval[c.approval].boughtOrder # c.trade
  <2>1. c \in Intent
    BY WantsType DEF TypeOK
  <2>2. CASE c.trade = Trade(r)
    BY <2>1, <2>2 DEF Intent
  <2>3. CASE c.trade # Trade(r)
    BY <1>3, <2>1, <2>3 DEF BucketChecked, MismatchKeepsApproval, Intent, Trade
  <2> QED
    BY <2>2, <2>3
<1> QED
  BY <1>1, <1>2, <1>3 DEF BucketChecked, BucketPersisted, MismatchKeepsApproval, Trade

\* In LIVE every step keeps what is checked of buckets: create_order goes on with its
\* approval only when every write of the order was read back with the bucket asked for.
LEMMA BucketStep ==
  ASSUME TradingMode = "LIVE", TypeOK, IntakeInv, BucketChecked, [Next]_vars
  PROVE  BucketChecked'
<1>1. ASSUME NEW r \in Requests, Receive(r)
      PROVE  BucketChecked'
  <2>1. \A q \in Requests : pc'[q] = "consume" => pc[q] = "consume" /\ wants'[q] = wants[q]
    BY <1>1 DEF Receive, TypeOK
  <2> QED
    BY <1>1, <2>1, QuietBucket DEF Receive
<1>2. ASSUME NEW r \in Requests, LookUp(r)
      PROVE  BucketChecked'
  BY <1>2, QuietBucketGoto DEF LookUp, Answer
<1>3. ASSUME NEW r \in Requests, VerifyRiskApproval(r)
      PROVE  BucketChecked'
  BY <1>3, QuietBucketGoto DEF VerifyRiskApproval, Answer
<1>4. ASSUME NEW r \in Requests, CreateOrder(r)
      PROVE  BucketChecked'
  <2>1. Trade(r) \in Trades
    BY WantsType
  <2>2. CASE Answer(r) /\ UNCHANGED <<order, created>>
    BY <1>4, <2>2, QuietBucketGoto DEF CreateOrder, Answer
  <2>3. CASE ~(Answer(r) /\ UNCHANGED <<order, created>>)
    <3>1. /\ order[Trade(r)].status = "absent" /\ created' = created \cup {wants[r]}
          /\ UNCHANGED approval
      BY <1>4, <2>3 DEF CreateOrder, IsNew
    <3>2. \A q \in Requests \ {r} : pc[q] = "consume" => Trade(q) # Trade(r)
      BY <3>1 DEF IntakeInv, OrdersExist, Creating
    <3>3. \A a \in Approvals : approval[a].boughtOrder # Trade(r)
      BY <2>1, <3>1, NewOrder
    <3>4. PICK bucket \in Stored("create", wants[r].bucket) :
            /\ order' = [order EXCEPT ![Trade(r)] = [status |-> "pending", bucket |-> bucket]]
            /\ \/ Checked(r, bucket, IF MetadataLost THEN "metadata" ELSE "consume")
               \/ Answer(r)
      BY <1>4, <2>3 DEF CreateOrder
    <3>5. /\ \A t \in Trades \ {Trade(r)} : order'[t].bucket = order[t].bucket
          /\ order'[Trade(r)].bucket = bucket
      BY <2>1, <3>4 DEF TypeOK
    <3>6. \E l : Goto(r, l) /\ (l = "consume" => bucket = wants[r].bucket)
      BY <3>4 DEF Checked, Answer
    <3> QED
      BY <3>1, <3>2, <3>3, <3>5, <3>6, CreatorBucket
  <2> QED
    BY <2>2, <2>3
<1>5. ASSUME NEW r \in Requests, EnsureProtectionMetadata(r)
      PROVE  BucketChecked'
  <2>1. Trade(r) \in Trades /\ UNCHANGED <<created, approval>>
    BY <1>5, WantsType DEF EnsureProtectionMetadata
  <2>2. CASE UNCHANGED order /\ Answer(r)
    BY <2>1, <2>2, QuietBucketGoto DEF Answer
  <2>3. CASE ~(UNCHANGED order /\ Answer(r))
    <3>1. PICK bucket \in Stored("update", order[Trade(r)].bucket) :
            /\ order' = [order EXCEPT ![Trade(r)].bucket = bucket]
            /\ Checked(r, bucket, "consume") \/ Answer(r)
      BY <1>5, <2>3 DEF EnsureProtectionMetadata
    <3>2. /\ \A t \in Trades \ {Trade(r)} : order'[t].bucket = order[t].bucket
          /\ order'[Trade(r)].bucket = bucket
      BY <2>1, <3>1 DEF TypeOK, OrderRow
    <3>3. \E l : Goto(r, l) /\ (l = "consume" => bucket = wants[r].bucket)
      BY <3>1 DEF Checked, Answer
    <3>4. /\ \A q \in Requests \ {r} : pc[q] = "consume" => Trade(q) # Trade(r)
          /\ \A a \in Approvals : approval[a].boughtOrder # Trade(r)
      BY <1>5 DEF EnsureProtectionMetadata, IntakeInv, CreatorsAlone, Creating
    <3> QED
      BY <2>1, <3>2, <3>3, <3>4, CreatorBucket
  <2> QED
    BY <2>2, <2>3
<1>6. ASSUME NEW r \in Requests, MarkMismatchFailed(r)
      PROVE  BucketChecked'
  <2>1. \A t \in Trades : order'[t].bucket = order[t].bucket
    BY <1>6 DEF MarkMismatchFailed, TypeOK, OrderRow
  <2> QED
    BY <1>6, <2>1, QuietBucketGoto DEF MarkMismatchFailed, Answer
<1>7. ASSUME NEW r \in Requests, ConsumeApproval(r)
      PROVE  BucketChecked'
  <2> DEFINE a == wants[r].approval
  <2>1. a \in Approvals /\ wants[r] \in created /\ order[Trade(r)].bucket = wants[r].bucket
    BY <1>7, WantsType DEF ConsumeApproval, IntakeInv, CreatorsAlone, Creating,
                           BucketChecked, BucketPersisted
  <2>2. PICK l \in {"idle", "enqueue"} : Goto(r, l)
    BY <1>7 DEF ConsumeApproval, Answer
  <2>3. CASE UNCHANGED approval
    BY <1>7, <2>2, <2>3, QuietBucketGoto DEF ConsumeApproval
  <2>4. CASE ~UNCHANGED approval
    <3>1. /\ UNCHANGED <<order, created>>
          /\ approval'[a].boughtOrder = Trade(r)
          /\ \A b \in Approvals \ {a} : approval'[b] = approval[b]
      BY <1>7, <2>1, <2>4 DEF ConsumeApproval, TypeOK, ApprovalRow
    <3>2. ASSUME NEW c \in created, order[c.trade].bucket # c.bucket
          PROVE  approval'[c.approval].boughtOrder # c.trade
      <4>1. c.approval \in Approvals
        BY DEF TypeOK, Intent
      <4>2. c # wants[r]
        BY <2>1, <3>2 DEF Trade
      <4>3. c.trade # Trade(r)
        BY <2>1, <4>2 DEF IntakeInv, CreatedOnce, Trade
      <4>4. approval[c.approval].boughtOrder # c.trade
        BY <3>2 DEF BucketChecked, MismatchKeepsApproval
      <4> QED
        BY <3>1, <4>1, <4>3, <4>4
    <3>3. \A q \in Requests : pc'[q] = "consume" => BucketPersisted(q)'
      BY <2>2, <3>1 DEF BucketChecked, BucketPersisted, Trade, Goto, TypeOK
    <3> QED
      BY <3>1, <3>2, <3>3 DEF BucketChecked, MismatchKeepsApproval
  <2> QED
    BY <2>3, <2>4
<1>8. ASSUME NEW r \in Requests, Enqueue(r)
      PROVE  BucketChecked'
  BY <1>8, QuietBucketGoto DEF Enqueue, Answer
<1>9. ASSUME NEW r \in Requests, Crash(r)
      PROVE  BucketChecked'
  BY <1>9, QuietBucketGoto DEF Crash, Answer
<1>10. ASSUME NEW t \in Trades, Submit(t)
       PROVE  BucketChecked'
  <2>1. \A x \in Trades : order'[x].bucket = order[x].bucket
    BY <1>10 DEF Submit, TypeOK, OrderRow
  <2> QED
    BY <1>10, <2>1, QuietBucket DEF Submit
<1>11. ASSUME NEW a \in Approvals, Expire(a)
       PROVE  BucketChecked'
  <2>1. \A b \in Approvals : approval'[b].boughtOrder = approval[b].boughtOrder
    BY <1>11 DEF Expire, TypeOK, ApprovalRow
  <2> QED
    BY <1>11, <2>1, QuietBucket DEF Expire
<1>12. CASE UNCHANGED vars
  BY <1>12, QuietBucket DEF vars
<1> QED
  BY <1>1, <1>2, <1>3, <1>4, <1>5, <1>6, <1>7, <1>8, <1>9, <1>10, <1>11, <1>12 DEF Next, Serve

\* In LIVE an order that was stored with another bucket than was asked for, at its
\* creation or with its protection metadata, never consumes the approval.
THEOREM MismatchedKeepApprovals == TradingMode = "LIVE" /\ Spec => []MismatchKeepsApproval
<1>1. Init => BucketChecked
  BY DEF Init, BucketChecked, MismatchKeepsApproval
<1>2. ASSUME TradingMode = "LIVE"
      PROVE  Spec => []MismatchKeepsApproval
  <2>1. TypeOK /\ IntakeInv /\ BucketChecked /\ [Next]_vars => BucketChecked'
    BY <1>2, BucketStep
  <2>2. BucketChecked => MismatchKeepsApproval
    BY DEF BucketChecked
  <2> QED
    BY <1>1, <2>1, <2>2, IntakeInvariant, PTL DEF Spec
<1> QED
  BY <1>2
=============================================================================
