-------------------- MODULE ProtectionReplacementProofs --------------------
(***************************************************************************)
(* Proofs about ProtectionReplacement, for any number of requests and any  *)
(* order book.                                                             *)
(***************************************************************************)
EXTENDS ProtectionReplacement, SumTheorems

----------------------------------------------------------------------------
(* The order book and its sums. *)

Types == {"stop", "limit", "buy"}
Statuses == {"open", "pending_cancel", "canceled", "filled"}

BookFacts ==
  /\ Len(book) \in Nat /\ DOMAIN book = 1 .. Len(book) /\ DOMAIN Quantities = DOMAIN book
  /\ \A i \in DOMAIN book : /\ book[i].type \in Types /\ book[i].status \in Statuses
                            /\ book[i].qty \in Nat \ {0} /\ book[i].oco \in Nat \ {0}
                            /\ Quantities[i] = book[i].qty
  /\ \A S \in SUBSET DOMAIN book : IsFiniteSet(S) /\ SumFunctionOnSet(Quantities, S) \in Nat

\* The quantities of any of the orders add up to a number of shares.
LEMMA BookIsFinite == book \in Seq(OrderRecord) => BookFacts
<1> SUFFICES ASSUME book \in Seq(OrderRecord)
             PROVE  BookFacts
  OBVIOUS
<1>1. Len(book) \in Nat /\ DOMAIN book = 1 .. Len(book) /\ DOMAIN Quantities = DOMAIN book
  BY DEF Quantities
<1>2. ASSUME NEW i \in DOMAIN book
      PROVE  /\ book[i].type \in Types /\ book[i].status \in Statuses
             /\ book[i].qty \in Nat \ {0} /\ book[i].oco \in Nat \ {0}
             /\ Quantities[i] = book[i].qty
  <2>1. book[i] \in OrderRecord
    BY <1>2
  <2> QED
    BY <2>1 DEF OrderRecord, Types, Statuses, Quantities
<1>3. ASSUME NEW S \in SUBSET DOMAIN book
      PROVE  IsFiniteSet(S) /\ SumFunctionOnSet(Quantities, S) \in Nat
  <2>1. IsFiniteSet(1 .. Len(book))
    BY <1>1, FS_Interval
  <2>2. IsFiniteSet(S)
    BY <1>1, <2>1, FS_Subset
  <2>3. \A i \in S : Quantities[i] \in Nat
    BY <1>2
  <2> QED
    BY <2>2, <2>3, SumIsNatural
<1> QED
  BY <1>1, <1>2, <1>3 DEF BookFacts

\* So do those that work, that reserve and that were bought.
Amounts ==
  /\ \A t \in Types : CoveredQuantity(t) \in Nat
  /\ Reserved \in Nat /\ Bought \in Nat

\* Those sums are natural numbers.
LEMMA AmountsAreNumbers == book \in Seq(OrderRecord) => Amounts
<1> SUFFICES ASSUME book \in Seq(OrderRecord)
             PROVE  Amounts
  OBVIOUS
<1>1. BookFacts
  BY BookIsFinite
<1>2. /\ \A t \in Types : Working(t) \in SUBSET DOMAIN book
      /\ Reserving \in SUBSET DOMAIN book /\ FilledBuys \in SUBSET DOMAIN book
  BY DEF Working, Reserving, Sells, FilledBuys
<1> QED
  BY <1>1, <1>2 DEF BookFacts, Amounts, CoveredQuantity, Reserved, Bought

\* Also after a step.
LEMMA AmountsAfter == (book \in Seq(OrderRecord))' => BookFacts' /\ Amounts'
BY BookIsFinite, AmountsAreNumbers, PTL

----------------------------------------------------------------------------
(* What a step does to the book: orders change their status, or are added. *)

\* The orders are the same but for their status.
SameOrders ==
  /\ book' \in Seq(OrderRecord) /\ DOMAIN book' = DOMAIN book
  /\ \A i \in DOMAIN book : /\ book'[i].type = book[i].type /\ book'[i].qty = book[i].qty
                            /\ book'[i].oco = book[i].oco

\* Then they have the same quantities and legs.
LEMMA SameOrdersKeep ==
  ASSUME SameOrders, Paired(book)
  PROVE  Quantities' = Quantities /\ Paired(book')
<1>1. Quantities' = Quantities
  BY DEF SameOrders, Quantities
<1>2. \A i \in DOMAIN book' : book'[i].oco \in DOMAIN book'
  BY DEF SameOrders, Paired
<1>3. ASSUME NEW i \in DOMAIN book', NEW k \in DOMAIN book', i # k, book'[i].oco = book'[k].oco
      PROVE  book'[i].qty = book'[k].qty /\ {book'[i].type, book'[k].type} = {"stop", "limit"}
  <2>1. /\ i \in DOMAIN book /\ k \in DOMAIN book /\ book[i].oco = book[k].oco
        /\ book'[i].type = book[i].type /\ book'[k].type = book[k].type
        /\ book'[i].qty = book[i].qty /\ book'[k].qty = book[k].qty
    BY <1>3 DEF SameOrders
  <2>2. book[i].qty = book[k].qty /\ {book[i].type, book[k].type} = {"stop", "limit"}
    BY <1>3, <2>1 DEF Paired
  <2> QED
    BY <2>1, <2>2
<1> QED
  BY <1>1, <1>2, <1>3 DEF Paired

\* Closing an OCO changes the status of working orders only.
LEMMA ClosingShape ==
  ASSUME book \in Seq(OrderRecord), NEW o, NEW s \in Statuses
  PROVE  /\ Closing(o, s) \in Seq(OrderRecord)
         /\ DOMAIN Closing(o, s) = DOMAIN book
         /\ \A i \in DOMAIN book :
              LET c == Closing(o, s)[i] IN
              /\ c.type = book[i].type /\ c.qty = book[i].qty /\ c.oco = book[i].oco
              /\ c.status = IF book[i].oco = o /\ Active(i) THEN s ELSE book[i].status
<1> DEFINE closed == [i \in DOMAIN book |-> IF book[i].oco = o /\ Active(i)
                                            THEN [book[i] EXCEPT !.status = s] ELSE book[i]]
<1>1. DOMAIN book = 1 .. Len(book) /\ Len(book) \in Nat
  OBVIOUS
<1>2. ASSUME NEW i \in DOMAIN book
      PROVE  /\ closed[i] \in OrderRecord
             /\ closed[i].type = book[i].type /\ closed[i].qty = book[i].qty /\ closed[i].oco = book[i].oco
             /\ closed[i].status = IF book[i].oco = o /\ Active(i) THEN s ELSE book[i].status
  <2>1. book[i] \in OrderRecord
    BY <1>2
  <2> QED
    BY <2>1 DEF OrderRecord, Statuses
<1>3. closed \in [1 .. Len(book) -> OrderRecord]
  BY <1>1, <1>2
<1>4. closed \in Seq(OrderRecord)
  BY <1>1, <1>3
<1> QED
  BY <1>1, <1>2, <1>4 DEF Closing

\* What works, and what was bought, while cancellations are requested.
LEMMA Requesting ==
  ASSUME BookInv, NEW i \in DOMAIN book, Active(i), book' = Closing(book[i].oco, "pending_cancel")
  PROVE  /\ SameOrders /\ LegsTogether'
         /\ \A t \in Types : Working(t)' = Working(t)
         /\ Reserving' = Reserving /\ FilledBuys' = FilledBuys
         /\ \A k \in DOMAIN book : /\ book'[k].status = "pending_cancel" =>
                                        book[k].status = "pending_cancel" \/ book[k].oco = book[i].oco
                                   /\ book[k].status = "canceled" <=> book'[k].status = "canceled"
                                   /\ book'[k].status = "filled" => book[k].status = "filled"
<1>1. /\ SameOrders
      /\ \A k \in DOMAIN book :
           book'[k].status = IF book[k].oco = book[i].oco /\ Active(k) THEN "pending_cancel" ELSE book[k].status
  BY ClosingShape DEF BookInv, TypeOK, SameOrders, Statuses
<1>2. \A k \in DOMAIN book : Active(k)' <=> Active(k)
  BY <1>1 DEF Active
<1>3. \A t \in Types : Working(t)' = Working(t)
  BY <1>1, <1>2 DEF SameOrders, Working
<1>4. Reserving' = Reserving
  BY <1>1, <1>3 DEF SameOrders, Reserving, Sells, Types, Working
<1>5. FilledBuys' = FilledBuys
  BY <1>1 DEF SameOrders, FilledBuys, Active
<1>6. LegsTogether'
  BY <1>1, <1>2 DEF BookInv, LegsTogether, SameOrders, Active
<1> QED
  BY <1>1, <1>3, <1>4, <1>5, <1>6 DEF Active

\* Two legs of an OCO are of different types, and no leg is an entry order.
LEMMA LegTypes ==
  ASSUME Paired(book), NEW i \in DOMAIN book, NEW k \in DOMAIN book, i # k, book[i].oco = book[k].oco
  PROVE  /\ book[i].qty = book[k].qty /\ book[i].type # book[k].type
         /\ book[i].type \in {"stop", "limit"} /\ book[k].type \in {"stop", "limit"}
<1>1. book[i].qty = book[k].qty /\ {book[i].type, book[k].type} = {"stop", "limit"}
  BY DEF Paired
<1> QED
  BY <1>1

\* The step ends the work of the OCO of order i.
LegsEnd(i) ==
  /\ SameOrders
  /\ \A k \in DOMAIN book : Active(k)' <=> Active(k) /\ book[k].oco # book[i].oco

\* Each type of orders loses at most the quantity of the OCO.
LEMMA CoverFalls ==
  ASSUME BookInv, NEW i \in DOMAIN book, LegsEnd(i), NEW t \in Types
  PROVE  /\ Working(t)' \subseteq Working(t)
         /\ CoveredQuantity(t)' <= CoveredQuantity(t)
         /\ CoveredQuantity(t) - book[i].qty <= CoveredQuantity(t)'
         /\ book[i].type = "buy" /\ t # "buy" => CoveredQuantity(t)' = CoveredQuantity(t)
<1>0. BookFacts /\ Amounts /\ Paired(book)
  BY BookIsFinite, AmountsAreNumbers DEF BookInv, TypeOK
<1>1. Quantities' = Quantities
  BY <1>0, SameOrdersKeep DEF LegsEnd
<1>2. Working(t)' = {k \in Working(t) : book[k].oco # book[i].oco}
  BY DEF Working, LegsEnd, SameOrders
<1>3. CASE \A k \in Working(t) : book[k].oco # book[i].oco
  <2>1. Working(t)' = Working(t)
    BY <1>2, <1>3
  <2> QED
    BY <1>0, <1>1, <2>1 DEF CoveredQuantity, Amounts, BookFacts
<1>4. ASSUME NEW k \in Working(t), book[k].oco = book[i].oco
      PROVE  /\ Working(t)' \subseteq Working(t)
             /\ CoveredQuantity(t)' = CoveredQuantity(t) - book[i].qty
             /\ ~(book[i].type = "buy" /\ t # "buy")
  <2>1. k \in DOMAIN book /\ book[k].type = t
    BY <1>4 DEF Working
  <2>2. book[k].qty = book[i].qty /\ (k # i => book[i].type # "buy")
    BY <1>0, <1>4, <2>1, LegTypes
  <2>3. \A j \in Working(t) : j # k => book[j].oco # book[i].oco
    <3> TAKE j \in Working(t)
    <3>1. j \in DOMAIN book /\ book[j].type = t
      BY DEF Working
    <3> QED
      BY <1>0, <1>4, <2>1, <3>1, LegTypes
  <2>4. Working(t)' = Working(t) \ {k}
    BY <1>2, <1>4, <2>3
  <2>5. IsFiniteSet(Working(t)) /\ \A j \in Working(t) : Quantities[j] \in Int
    BY <1>0 DEF BookFacts, Working
  <2>6. SumFunctionOnSet(Quantities, Working(t)) =
          Quantities[k] + SumFunctionOnSet(Quantities, Working(t) \ {k})
    BY <1>4, <2>5, SumWithElement
  <2>7. CoveredQuantity(t) = Quantities[k] + CoveredQuantity(t)'
    BY <1>1, <2>4, <2>6 DEF CoveredQuantity
  <2>8. Quantities[k] = book[i].qty /\ book[i].qty \in Nat /\ CoveredQuantity(t) \in Nat
    BY <1>0, <2>1, <2>2 DEF BookFacts, Amounts
  <2>9. CoveredQuantity(t)' \in Nat
    BY AmountsAfter DEF LegsEnd, SameOrders, Amounts
  <2> QED
    BY <2>1, <2>2, <2>4, <2>7, <2>8, <2>9
<1>5. book[i].qty \in Nat /\ CoveredQuantity(t) \in Nat
  BY <1>0 DEF BookFacts, Amounts
<1> QED
  BY <1>3, <1>4, <1>5

\* The OCO of a sell order reserves its quantity once.
LEMMA ReservedFalls ==
  ASSUME BookInv, NEW i \in DOMAIN book, LegsEnd(i), i \in Sells
  PROVE  Reserved' = Reserved - book[i].qty
<1>0. BookFacts /\ Amounts /\ Paired(book)
  BY BookIsFinite, AmountsAreNumbers DEF BookInv, TypeOK
<1>1. Quantities' = Quantities
  BY <1>0, SameOrdersKeep DEF LegsEnd
<1>2. Sells' = {k \in Sells : book[k].oco # book[i].oco} /\ Sells \subseteq DOMAIN book
  BY DEF Sells, Working, LegsEnd, SameOrders
<1>3. Reserving' = {k \in Reserving : book[k].oco # book[i].oco}
  BY <1>2 DEF Reserving, LegsEnd, SameOrders
<1>4. \A k, j \in Sells : k # j /\ book[k].oco = book[j].oco => book[k].type # book[j].type /\ book[k].qty = book[j].qty
  BY <1>0, <1>2, LegTypes
<1>5. \A k \in Sells : book[k].type \in {"stop", "limit"} /\ k \in Nat
  BY <1>0 DEF Sells, Working, BookFacts
<1>6. PICK k \in Reserving : book[k].oco = book[i].oco
  <2>1. CASE i \in Reserving
    BY <2>1
  <2>2. CASE i \notin Reserving
    <3>1. PICK j \in Sells : book[j].oco = book[i].oco /\ ~(i <= j)
      BY <2>2 DEF Reserving
    <3>2. ASSUME NEW h \in Sells, book[h].oco = book[j].oco
          PROVE  j <= h
      <4>1. h = i \/ h = j
        BY <1>4, <1>5, <3>1, <3>2
      <4> QED
        BY <1>5, <3>1, <4>1
    <3>3. j \in Reserving
      BY <3>2 DEF Reserving
    <3> QED
      BY <3>1, <3>3
  <2> QED
    BY <2>1, <2>2
<1>7. k \in Sells /\ k \in DOMAIN book /\ book[k].qty = book[i].qty
  BY <1>2, <1>4, <1>6 DEF Reserving
<1>8. ASSUME NEW j \in Reserving, book[j].oco = book[i].oco
      PROVE  j = k
  <2>1. j \in Sells /\ j <= k /\ k <= j
    BY <1>6, <1>7, <1>8 DEF Reserving
  <2> QED
    BY <1>5, <1>7, <2>1
<1>9. Reserving' = Reserving \ {k}
  BY <1>3, <1>6, <1>8
<1>10. IsFiniteSet(Reserving) /\ \A j \in Reserving : Quantities[j] \in Int
  BY <1>0, <1>2 DEF BookFacts, Reserving
<1>11. SumFunctionOnSet(Quantities, Reserving) = Quantities[k] + SumFunctionOnSet(Quantities, Reserving \ {k})
  BY <1>6, <1>10, SumWithElement
<1>12. Reserved = Quantities[k] + Reserved'
  BY <1>1, <1>9, <1>11 DEF Reserved
<1>13. Reserved' \in Nat /\ Reserved \in Nat /\ Quantities[k] = book[i].qty /\ book[i].qty \in Nat
  BY <1>0, <1>7, AmountsAfter DEF LegsEnd, SameOrders, Amounts, BookFacts
<1> QED
  BY <1>12, <1>13

\* A cancellation that happens.
LEMMA Cancelling ==
  ASSUME BookInv, NEW i \in DOMAIN book, BrokerCancels(i)
  PROVE  /\ LegsEnd(i) /\ LegsTogether' /\ FilledBuys' = FilledBuys /\ held' = held
         /\ \A k \in DOMAIN book : /\ book[k].status = "canceled" => book'[k].status = "canceled"
                                   /\ book'[k].status = "pending_cancel" => book[k].status = "pending_cancel"
                                   /\ book[k].oco = book[i].oco => book'[k].status = "canceled"
                                   /\ book'[k].status = "filled" => book[k].status = "filled"
<1>1. /\ SameOrders /\ Active(i)
      /\ \A k \in DOMAIN book :
           book'[k].status = IF book[k].oco = book[i].oco /\ Active(k) THEN "canceled" ELSE book[k].status
  BY ClosingShape DEF BookInv, TypeOK, SameOrders, Statuses, BrokerCancels, Active
<1>2. \A k \in DOMAIN book : book[k].oco = book[i].oco => Active(k)
  BY <1>1 DEF BookInv, LegsTogether, Active
<1>3. \A k \in DOMAIN book : Active(k)' <=> Active(k) /\ book[k].oco # book[i].oco
  BY <1>1 DEF Active
<1>4. FilledBuys' = FilledBuys
  BY <1>1 DEF SameOrders, FilledBuys, Active
<1>5. LegsTogether'
  BY <1>1, <1>3 DEF BookInv, LegsTogether, SameOrders, Active
<1> QED
  BY <1>1, <1>2, <1>3, <1>4, <1>5 DEF LegsEnd, BrokerCancels

\* A fill.
LEMMA Filling ==
  ASSUME BookInv, NEW i \in DOMAIN book, BrokerFills(i)
  PROVE  /\ LegsEnd(i) /\ LegsTogether' /\ Active(i)
         /\ FilledBuys' = IF book[i].type = "buy" THEN FilledBuys \cup {i} ELSE FilledBuys
         /\ \A k \in DOMAIN book : /\ book[k].status = "canceled" => book'[k].status = "canceled"
                                   /\ book'[k].status = "pending_cancel" => book[k].status = "pending_cancel"
                                   /\ book'[k].status = "filled" => k = i \/ book[k].status = "filled"
<1> DEFINE closed == Closing(book[i].oco, "canceled")
<1>1. /\ closed \in Seq(OrderRecord) /\ DOMAIN closed = DOMAIN book /\ Active(i)
      /\ \A k \in DOMAIN book :
            /\ closed[k].type = book[k].type /\ closed[k].qty = book[k].qty /\ closed[k].oco = book[k].oco
            /\ closed[k].status = IF book[k].oco = book[i].oco /\ Active(k) THEN "canceled" ELSE book[k].status
  BY ClosingShape DEF BookInv, TypeOK, Statuses, BrokerFills
<1>2. book' = [closed EXCEPT ![i].status = "filled"]
  BY DEF BrokerFills
<1> HIDE DEF closed
<1>3. closed[i] \in OrderRecord
  BY <1>1
<1> DEFINE filled == [closed[i] EXCEPT !.status = "filled"]
<1>4. /\ filled \in OrderRecord /\ filled.status = "filled"
      /\ filled.type = closed[i].type /\ filled.qty = closed[i].qty /\ filled.oco = closed[i].oco
  BY <1>3 DEF OrderRecord
<1>5. book' = [closed EXCEPT ![i] = filled]
  BY <1>2
<1> HIDE DEF filled
<1>6. SameOrders
  BY <1>1, <1>4, <1>5 DEF SameOrders
<1>7. \A k \in DOMAIN book :
        book'[k].status = IF k = i THEN "filled"
                          ELSE IF book[k].oco = book[i].oco /\ Active(k) THEN "canceled" ELSE book[k].status
  BY <1>1, <1>4, <1>5
<1>8. \A k \in DOMAIN book : Active(k)' <=> Active(k) /\ book[k].oco # book[i].oco
  BY <1>7 DEF Active
<1>9. FilledBuys' = IF book[i].type = "buy" THEN FilledBuys \cup {i} ELSE FilledBuys
  <2>1. \A k \in DOMAIN book : k \in FilledBuys' <=> book[k].type = "buy" /\ (k = i \/ book[k].status = "filled")
    BY <1>1, <1>6, <1>7 DEF SameOrders, FilledBuys, Active
  <2>2. FilledBuys' \subseteq DOMAIN book /\ FilledBuys \subseteq DOMAIN book
    BY <1>6 DEF SameOrders, FilledBuys
  <2>3. \A k \in DOMAIN book : k \in FilledBuys <=> book[k].type = "buy" /\ book[k].status = "filled"
    BY DEF FilledBuys
  <2> QED
    BY <2>1, <2>2, <2>3
<1>10. LegsTogether'
  BY <1>6, <1>7, <1>8 DEF BookInv, LegsTogether, SameOrders, Active
<1> QED
  BY <1>1, <1>6, <1>7, <1>8, <1>9, <1>10 DEF LegsEnd, Active

\* What is covered, reserved and bought does not change when none of the sets does.
LEMMA SumsStay ==
  ASSUME BookInv, SameOrders, \A t \in Types : Working(t)' = Working(t),
         Reserving' = Reserving, FilledBuys' = FilledBuys
  PROVE  /\ Paired(book')
         /\ \A t \in Types : CoveredQuantity(t)' = CoveredQuantity(t)
         /\ Reserved' = Reserved /\ Bought' = Bought
<1>1. Quantities' = Quantities /\ Paired(book')
  BY SameOrdersKeep DEF BookInv
<1> QED
  BY <1>1 DEF CoveredQuantity, Reserved, Bought

\* The old orders of a longer book add up to what they did.
LEMMA OldSumsStay ==
  ASSUME book \in Seq(OrderRecord), (book \in Seq(OrderRecord))', DOMAIN book \subseteq DOMAIN book',
         \A i \in DOMAIN book : book'[i] = book[i], NEW S \in SUBSET DOMAIN book
  PROVE  SumFunctionOnSet(Quantities', S) = SumFunctionOnSet(Quantities, S)
<1>1. IsFiniteSet(S)
  BY BookIsFinite DEF BookFacts
<1>2. \A i \in S : Quantities'[i] = Quantities[i]
  BY DEF Quantities
<1> QED
  BY <1>1, <1>2, SumsOfEqualsAgree

\* An OCO, or a stop, of n shares that the broker takes.
LEMMA Adding ==
  ASSUME BookInv, NEW n \in Nat \ {0}, NEW orders \in {Oco(n), Stop(n)}, book' = book \o orders
  PROVE  /\ (book \in Seq(OrderRecord))' /\ DOMAIN book \subseteq DOMAIN book'
         /\ \A i \in DOMAIN book : book'[i] = book[i]
         /\ Paired(book') /\ LegsTogether'
         /\ \A i \in DOMAIN book' \ DOMAIN book : book'[i].status = "open"
         /\ Working("buy")' = Working("buy")
         /\ CoveredQuantity("stop")' = CoveredQuantity("stop") + n
         /\ Reserved' = Reserved + n /\ Bought' = Bought
<1> DEFINE L == Len(book)
           last == IF orders = Oco(n) THEN L + 2 ELSE L + 1
<1>0. BookFacts /\ Amounts /\ Paired(book) /\ book \in Seq(OrderRecord)
  BY BookIsFinite, AmountsAreNumbers DEF BookInv, TypeOK
<1>1. L \in Nat /\ DOMAIN book = 1 .. L
  BY <1>0 DEF BookFacts
<1>2. NewOrder("limit", n, L + 1) \in OrderRecord /\ NewOrder("stop", n, L + 1) \in OrderRecord
  BY <1>1 DEF NewOrder, OrderRecord
<1>3. /\ (book \in Seq(OrderRecord))' /\ DOMAIN book' = 1 .. last
      /\ \A i \in DOMAIN book : book'[i] = book[i]
      /\ book'[last] = NewOrder("stop", n, L + 1)
      /\ last = L + 2 => book'[L + 1] = NewOrder("limit", n, L + 1)
  <2>1. CASE orders = Oco(n)
    BY <1>0, <1>1, <1>2, <2>1 DEF Oco
  <2>2. CASE orders # Oco(n)
    <3>1. orders = Stop(n)
      BY <2>2
    <3> QED
      BY <1>0, <1>1, <1>2, <2>2, <3>1 DEF Stop
  <2> QED
    BY <2>1, <2>2
<1>4. last \in {L + 1, L + 2}
  OBVIOUS
<1> HIDE DEF last, L
<1>5. /\ \A i \in DOMAIN book' : i \in DOMAIN book \/ i = last \/ (i = L + 1 /\ last = L + 2)
      /\ last \in DOMAIN book' \ DOMAIN book /\ L + 1 \in DOMAIN book' \ DOMAIN book
  BY <1>1, <1>3, <1>4
<1>6. \A i \in DOMAIN book' \ DOMAIN book :
        /\ book'[i].status = "open" /\ book'[i].qty = n /\ book'[i].oco = L + 1
        /\ book'[i].type = IF i = last THEN "stop" ELSE "limit"
  BY <1>3, <1>5, SMTT(40) DEF NewOrder
<1>7. \A i \in DOMAIN book : book'[i].oco \in DOMAIN book /\ book'[i].oco # L + 1
  BY <1>0, <1>1, <1>3 DEF Paired
<1>8. Paired(book')
  <2>1. \A i \in DOMAIN book' : book'[i].oco \in DOMAIN book'
    BY <1>1, <1>3, <1>4, <1>5, <1>6, <1>7
  <2>2. ASSUME NEW i \in DOMAIN book', NEW k \in DOMAIN book', i # k, book'[i].oco = book'[k].oco
        PROVE  book'[i].qty = book'[k].qty /\ {book'[i].type, book'[k].type} = {"stop", "limit"}
    <3>1. CASE i \in DOMAIN book
      <4>1. k \in DOMAIN book
        BY <1>6, <1>7, <2>2, <3>1
      <4>2. book[i].qty = book[k].qty /\ {book[i].type, book[k].type} = {"stop", "limit"}
        BY <1>0, <1>3, <2>2, <3>1, <4>1, ZenonT(60) DEF Paired
      <4> QED
        BY <1>3, <3>1, <4>1, <4>2
    <3>2. CASE i \notin DOMAIN book
      <4>1. k \notin DOMAIN book
        BY <1>6, <1>7, <2>2, <3>2
      <4>2. \/ book'[i].type = "stop" /\ book'[k].type = "limit"
            \/ book'[i].type = "limit" /\ book'[k].type = "stop"
        BY <1>5, <1>6, <2>2, <3>2, <4>1
      <4>3. book'[i].qty = n /\ book'[k].qty = n
        BY <1>6, <2>2, <3>2, <4>1
      <4> QED
        BY <4>2, <4>3
    <3> QED
      BY <3>1, <3>2
  <2> QED
    BY <2>1, <2>2 DEF Paired
<1>9. LegsTogether'
  <2> SUFFICES ASSUME NEW i \in DOMAIN book', NEW k \in DOMAIN book',
                      book'[i].oco = book'[k].oco, Active(i)'
               PROVE  book'[k].status = book'[i].status
    BY DEF LegsTogether
  <2>1. CASE i \in DOMAIN book
    <3>1. k \in DOMAIN book
      BY <1>6, <1>7, <2>1
    <3> QED
      BY <1>3, <2>1, <3>1 DEF BookInv, LegsTogether, Active
  <2>2. CASE i \notin DOMAIN book
    <3>1. k \notin DOMAIN book
      BY <1>6, <1>7, <2>2
    <3> QED
      BY <1>6, <2>2, <3>1
  <2> QED
    BY <2>1, <2>2
<1>10. \A i \in DOMAIN book' : Active(i)' <=> i \notin DOMAIN book \/ Active(i)
  BY <1>3, <1>6 DEF Active
<1>11. /\ Working("buy")' = Working("buy")
       /\ Working("stop")' = Working("stop") \cup {last}
       /\ Sells' = Sells \cup {last, L + 1} /\ FilledBuys' = FilledBuys
  <2>1. DOMAIN book \subseteq DOMAIN book'
    BY <1>1, <1>3, <1>4
  <2>2. Working("buy")' = Working("buy")
    BY <1>3, <1>6, <1>10, <2>1 DEF Working
  <2>3. Working("stop")' = Working("stop") \cup {last}
    BY <1>3, <1>5, <1>6, <1>10, <2>1, SMTT(40) DEF Working
  <2>4. Working("limit")' = Working("limit") \cup ({L + 1} \ {last})
    BY <1>3, <1>5, <1>6, <1>10, <2>1 DEF Working
  <2>5. FilledBuys' = FilledBuys
    <3>1. \A i \in DOMAIN book' : i \in FilledBuys' => i \in FilledBuys
      BY <1>3, <1>6 DEF FilledBuys
    <3>2. \A i \in DOMAIN book : i \in FilledBuys => i \in FilledBuys'
      BY <1>3, <2>1 DEF FilledBuys
    <3>3. FilledBuys' \subseteq DOMAIN book' /\ FilledBuys \subseteq DOMAIN book
      BY DEF FilledBuys
    <3> QED
      BY <3>1, <3>2, <3>3
  <2> QED
    BY <2>2, <2>3, <2>4, <2>5 DEF Sells
<1>12. Sells \subseteq DOMAIN book
  BY DEF Sells, Working
<1>13. Reserving' = Reserving \cup {L + 1}
  <2>1. \A i \in Sells : i < L + 1 /\ book'[i].oco # L + 1 /\ book'[i].oco = book[i].oco
    BY <1>1, <1>3, <1>7, <1>12
  <2>2. L + 1 <= last /\ book'[L + 1].oco = L + 1 /\ book'[last].oco = L + 1
    BY <1>1, <1>4, <1>5, <1>6
  <2>3. Reserving' = {i \in Sells' : \A k \in Sells' : book'[k].oco = book'[i].oco => i <= k}
    BY DEF Reserving
  <2>4. ASSUME NEW i \in Sells
        PROVE  i \in Reserving' <=> i \in Reserving
    BY <1>11, <2>1, <2>2, <2>3, <2>4, ZenonT(60) DEF Reserving
  <2>5. L + 1 \in Reserving'
    <3>1. L + 1 \in Sells'
      BY <1>11
    <3>2. ASSUME NEW k \in Sells', book'[k].oco = book'[L + 1].oco
          PROVE  L + 1 <= k
      <4>1. k \notin Sells
        BY <2>1, <2>2, <3>2
      <4>2. k = last \/ k = L + 1
        BY <1>11, <4>1
      <4> QED
        BY <1>1, <2>2, <4>2
    <3> QED
      BY <2>3, <3>1, <3>2
  <2>6. last # L + 1 => last \notin Reserving'
    <3>1. L + 1 \in Sells' /\ book'[L + 1].oco = book'[last].oco
      BY <1>11, <2>2
    <3>2. last # L + 1 => ~(last <= L + 1)
      BY <1>1, <1>4
    <3> QED
      BY <2>3, <3>1, <3>2
  <2>7. Reserving \subseteq Sells /\ Reserving' \subseteq Sells \cup {last, L + 1}
    BY <1>11, <2>3 DEF Reserving
  <2> QED
    BY <2>4, <2>5, <2>6, <2>7
<1>14. /\ Working("stop") \in SUBSET DOMAIN book /\ Reserving \in SUBSET DOMAIN book
       /\ FilledBuys \in SUBSET DOMAIN book
  BY <1>12 DEF Working, Reserving, FilledBuys
<1>15. BookFacts' /\ Amounts' /\ DOMAIN book \subseteq DOMAIN book'
  BY <1>1, <1>3, <1>4, AmountsAfter
<1>16. ASSUME NEW S \in SUBSET DOMAIN book, NEW e \in DOMAIN book' \ DOMAIN book
       PROVE  SumFunctionOnSet(Quantities', S \cup {e}) = n + SumFunctionOnSet(Quantities, S)
  <2>0. \A i \in DOMAIN book' : Quantities'[i] \in Nat
    BY <1>15 DEF BookFacts
  <2>1. \A i \in S \cup {e} : Quantities'[i] \in Int
    BY <1>15, <2>0
  <2>2. IsFiniteSet(S) /\ e \notin S /\ Quantities'[e] = n
    BY <1>0, <1>6, <1>15, <1>16 DEF BookFacts
  <2>3. SumFunctionOnSet(Quantities', S \cup {e}) = Quantities'[e] + SumFunctionOnSet(Quantities', S)
    BY <2>1, <2>2, SumWithNew
  <2> QED
    BY <1>0, <1>3, <1>15, <2>2, <2>3, OldSumsStay
<1>17. CoveredQuantity("stop")' = CoveredQuantity("stop") + n
  <2>1. SumFunctionOnSet(Quantities', Working("stop") \cup {last}) = n + SumFunctionOnSet(Quantities, Working("stop"))
    BY <1>5, <1>14, <1>16
  <2>2. CoveredQuantity("stop")' = n + CoveredQuantity("stop")
    BY <1>11, <2>1 DEF CoveredQuantity
  <2> QED
    BY <1>0, <2>2 DEF Amounts, Types
<1>18. Reserved' = Reserved + n
  <2>1. SumFunctionOnSet(Quantities', Reserving \cup {L + 1}) = n + SumFunctionOnSet(Quantities, Reserving)
    BY <1>5, <1>14, <1>16
  <2>2. Reserved' = n + Reserved
    BY <1>13, <2>1 DEF Reserved
  <2> QED
    BY <1>0, <2>2 DEF Amounts
<1>19. Bought' = Bought
  BY <1>0, <1>3, <1>11, <1>14, <1>15, OldSumsStay DEF Bought
<1> QED
  BY <1>3, <1>6, <1>8, <1>9, <1>11, <1>15, <1>17, <1>18, <1>19

\* An entry order reserves nothing.
LEMMA BuyReservesNothing ==
  ASSUME BookInv, NEW i \in DOMAIN book, LegsEnd(i), book[i].type = "buy"
  PROVE  Reserving' = Reserving
<1>1. \A k \in DOMAIN book : book[k].type \in {"stop", "limit"} => book[k].oco # book[i].oco
  BY LegTypes DEF BookInv
<1>2. Sells' = Sells
  BY <1>1 DEF Sells, Working, LegsEnd, SameOrders
<1> QED
  BY <1>2 DEF Reserving, LegsEnd, SameOrders, Sells, Working

\* What a fill does to the quantities: a sale takes as much from the position as from
\* each kind of protection, at most.
LEMMA FillAmounts ==
  ASSUME BookInv, NEW i \in DOMAIN book, BrokerFills(i)
  PROVE  /\ Paired(book') /\ held' \in Nat /\ Reserved' <= held'
         /\ book[i].type \in Types /\ book[i].qty \in Nat
         /\ held' = IF book[i].type = "buy" THEN held + book[i].qty ELSE held - book[i].qty
         /\ Bought' = IF book[i].type = "buy" THEN Bought + book[i].qty ELSE Bought
         /\ \A t \in {"stop", "limit"} :
              CoveredQuantity(t)' >= IF book[i].type = "buy" THEN CoveredQuantity(t)
                                     ELSE CoveredQuantity(t) - book[i].qty
<1>1. /\ LegsEnd(i) /\ Active(i)
      /\ FilledBuys' = IF book[i].type = "buy" THEN FilledBuys \cup {i} ELSE FilledBuys
  BY Filling
<1>2. /\ BookFacts /\ Amounts /\ Paired(book) /\ held \in Nat /\ Reserved <= held
      /\ Amounts' /\ Quantities' = Quantities /\ Paired(book')
  BY <1>1, BookIsFinite, AmountsAreNumbers, AmountsAfter, SameOrdersKeep
     DEF BookInv, TypeOK, LegsEnd, SameOrders
<1>3. book[i].type \in Types /\ book[i].qty \in Nat
  BY <1>2 DEF BookFacts
<1>4. held' = IF book[i].type = "buy" THEN held + book[i].qty ELSE held - book[i].qty
  BY DEF BrokerFills
<1>5. \A t \in {"stop", "limit"} :
        /\ CoveredQuantity(t) \in Nat /\ CoveredQuantity(t)' \in Nat
        /\ CoveredQuantity(t)' >= IF book[i].type = "buy" THEN CoveredQuantity(t)
                                  ELSE CoveredQuantity(t) - book[i].qty
  <2> TAKE t \in {"stop", "limit"}
  <2>1. t \in Types /\ t # "buy"
    BY DEF Types
  <2>2. CoveredQuantity(t) \in Nat /\ CoveredQuantity(t)' \in Nat
    BY <1>2, <2>1 DEF Amounts
  <2>3. /\ CoveredQuantity(t) - book[i].qty <= CoveredQuantity(t)'
        /\ book[i].type = "buy" => CoveredQuantity(t)' = CoveredQuantity(t)
    BY <1>1, <2>1, CoverFalls
  <2> QED
    BY <1>3, <2>2, <2>3
<1>6. CASE book[i].type = "buy"
  <2>1. i \in DOMAIN book /\ i \notin FilledBuys /\ FilledBuys \in SUBSET DOMAIN book
    BY <1>1 DEF FilledBuys, Active
  <2>2. \A k \in FilledBuys \cup {i} : Quantities[k] \in Int
    BY <1>2, <2>1 DEF BookFacts
  <2>3. IsFiniteSet(FilledBuys) /\ Quantities[i] = book[i].qty
    BY <1>2, <2>1 DEF BookFacts
  <2>4. SumFunctionOnSet(Quantities, FilledBuys \cup {i}) = Quantities[i] + SumFunctionOnSet(Quantities, FilledBuys)
    BY <2>1, <2>2, <2>3, SumWithNew
  <2>5. Bought' = book[i].qty + Bought
    BY <1>1, <1>2, <1>6, <2>3, <2>4 DEF Bought
  <2>6. Reserved' = Reserved
    BY <1>1, <1>2, <1>6, BuyReservesNothing DEF Reserved
  <2>7. Bought \in Nat /\ Reserved \in Nat
    BY <1>2 DEF Amounts
  <2> QED
    BY <1>2, <1>3, <1>4, <1>5, <1>6, <2>5, <2>6, <2>7
<1>7. CASE book[i].type # "buy"
  <2>1. i \in Sells
    BY <1>1, <1>3, <1>7 DEF Sells, Working, Types
  <2>2. Reserved' = Reserved - book[i].qty
    BY <1>1, <2>1, ReservedFalls
  <2>3. Bought' = Bought
    BY <1>1, <1>2, <1>7 DEF Bought
  <2>4. Reserved \in Nat /\ Reserved' \in Nat
    BY <1>2 DEF Amounts
  <2> QED
    BY <1>2, <1>3, <1>4, <1>5, <1>7, <2>2, <2>3, <2>4
<1> QED
  BY <1>6, <1>7

\* And a cancellation.
LEMMA CancelAmounts ==
  ASSUME BookInv, NEW i \in DOMAIN book, BrokerCancels(i)
  PROVE  Paired(book') /\ Reserved' <= held
<1>1. LegsEnd(i) /\ Active(i)
  BY Cancelling DEF BrokerCancels, Active
<1>2. /\ BookFacts /\ Amounts /\ Paired(book) /\ held \in Nat /\ Reserved <= held
      /\ Amounts' /\ Quantities' = Quantities /\ Paired(book')
  BY <1>1, BookIsFinite, AmountsAreNumbers, AmountsAfter, SameOrdersKeep
     DEF BookInv, TypeOK, LegsEnd, SameOrders
<1>3. book[i].type \in Types /\ book[i].qty \in Nat /\ Reserved \in Nat /\ Reserved' \in Nat
  BY <1>2 DEF BookFacts, Amounts
<1>4. CASE book[i].type = "buy"
  BY <1>1, <1>2, <1>4, BuyReservesNothing DEF Reserved
<1>5. CASE book[i].type # "buy"
  <2>1. i \in Sells
    BY <1>1, <1>3, <1>5 DEF Sells, Working, Types
  <2>2. Reserved' = Reserved - book[i].qty
    BY <1>1, <2>1, ReservedFalls
  <2> QED
    BY <1>2, <1>3, <2>2
<1> QED
  BY <1>2, <1>4, <1>5

----------------------------------------------------------------------------
(* The types, and what the broker promises: it never sells more than is held. *)

\* What the requests carry.
PlansOK ==
  /\ pc \in [Procs -> PcLabel]
  /\ qty \in [Procs -> Nat]
  /\ \A p \in Procs : pc[p] \in {"cancel", "confirm", "submit", "restore"} => qty[p] > 0
  /\ todo \in [Procs -> SUBSET DOMAIN book]
  /\ \A p \in Procs : pc[p] = "cancel" => todo[p] # {}
  /\ waiting \in [Procs -> Nat]
  /\ \A p \in Procs : pc[p] = "confirm" => waiting[p] \in todo[p]
  /\ cancelled \in [Procs -> SUBSET DOMAIN book]
  /\ exposed \in [Procs -> Nat]
  /\ report \in [Procs -> [status : ReportStatus, gap : BOOLEAN]]

\* What the broker holds.
BrokerOK ==
  /\ held \in Nat /\ book \in Seq(OrderRecord)
  /\ Paired(book) /\ LegsTogether /\ Reserved <= held

\* The book changes by a fill, a cancellation, a request to cancel, or an order.
BookSteps ==
  \/ UNCHANGED <<held, book>>
  \/ \E i \in DOMAIN book : BrokerFills(i) \/ BrokerCancels(i)
  \/ \E p \in Procs : \E i \in todo[p] :
       /\ pc[p] = "cancel" /\ Active(i)
       /\ held' = held /\ book' = Closing(book[i].oco, "pending_cancel")
  \/ \E p \in Procs : \E orders \in {Oco(qty[p]), Stop(qty[p])} :
       /\ pc[p] \in {"submit", "restore"} /\ qty[p] + Reserved <= held
       /\ held' = held /\ book' = book \o orders

\* A request to cancel changes the book for an order that is working, or not at all.
LEMMA RequestsToCancel ==
  ASSUME NEW p \in Procs, CancelOrder(p)
  PROVE  /\ pc[p] = "cancel" /\ held' = held
         /\ \/ book' = book
            \/ \E i \in todo[p] : Active(i) /\ book' = Closing(book[i].oco, "pending_cancel")
<1>1. pc[p] = "cancel" /\ held' = held
  BY DEF CancelOrder
<1>2. PICK i \in todo[p] : book' = Requested(i) \/ UNCHANGED book
  BY DEF CancelOrder
<1>3. CASE book[i].status = "open"
  BY <1>1, <1>2, <1>3 DEF Requested, Active
<1>4. CASE book[i].status # "open"
  BY <1>1, <1>2, <1>4 DEF Requested
<1> QED
  BY <1>3, <1>4

\* No step does anything else to it.
LEMMA StepsOfTheBook == TypeOK /\ [Next]_vars => BookSteps
<1> SUFFICES ASSUME TypeOK, [Next]_vars
             PROVE  BookSteps
  OBVIOUS
<1>1. ASSUME NEW p \in Procs, CancelOrder(p)
      PROVE  BookSteps
  BY <1>1, RequestsToCancel DEF BookSteps
<1>2. ASSUME NEW p \in Procs, SubmitExitBracket(p) \/ RestoreStop(p)
      PROVE  BookSteps
  BY <1>2 DEF SubmitExitBracket, RestoreStop, Submission, BookSteps
<1>3. ASSUME NEW p \in Procs,
             \/ ReadPositions(p) \/ ReadOpenOrders(p) \/ CancelConfirmed(p) \/ CancelTimesOut(p)
             \/ VerifyPositions(p) \/ VerifyOpenOrders(p) \/ Crash(p)
      PROVE  BookSteps
  BY <1>3 DEF ReadPositions, ReadOpenOrders, CancelConfirmed, CancelTimesOut, VerifyPositions,
              VerifyOpenOrders, Crash, broker, BookSteps
<1>4. CASE UNCHANGED vars
  BY <1>4 DEF vars, BookSteps
<1>5. CASE \E i \in DOMAIN book : BrokerFills(i) \/ BrokerCancels(i)
  BY <1>5 DEF BookSteps
<1> QED
  BY <1>1, <1>2, <1>3, <1>4, <1>5 DEF Next, Request

\* No order disappears, and a canceled one stays canceled.
BookGrows ==
  /\ DOMAIN book \subseteq DOMAIN book'
  /\ \A i \in DOMAIN book : /\ book'[i].type = book[i].type /\ book'[i].oco = book[i].oco
                            /\ book[i].status = "canceled" => book'[i].status = "canceled"

\* So the broker keeps its promise.
LEMMA BrokerStep == BookInv /\ [Next]_vars => BrokerOK' /\ BookGrows
<1> SUFFICES ASSUME BookInv, [Next]_vars
             PROVE  BrokerOK' /\ BookGrows
  OBVIOUS
<1>0. /\ BookSteps /\ TypeOK /\ held \in Nat /\ Reserved \in Nat /\ Reserved <= held
      /\ book \in Seq(OrderRecord) /\ Paired(book) /\ LegsTogether
  BY StepsOfTheBook, AmountsAreNumbers DEF BookInv, TypeOK, Amounts
<1>1. CASE UNCHANGED <<held, book>>
  <2>1. Reserved' = Reserved
    BY <1>1 DEF Reserved, Quantities, Reserving, Sells, Working, Active
  <2>2. LegsTogether'
    BY <1>0, <1>1 DEF LegsTogether, Active
  <2> QED
    BY <1>0, <1>1, <2>1, <2>2 DEF BrokerOK, BookGrows
<1>2. ASSUME NEW i \in DOMAIN book, BrokerFills(i)
      PROVE  BrokerOK' /\ BookGrows
  BY <1>2, Filling, FillAmounts DEF BrokerOK, BookGrows, LegsEnd, SameOrders
<1>3. ASSUME NEW i \in DOMAIN book, BrokerCancels(i)
      PROVE  BrokerOK' /\ BookGrows
  BY <1>0, <1>3, Cancelling, CancelAmounts DEF BrokerOK, BookGrows, LegsEnd, SameOrders
<1>4. ASSUME NEW p \in Procs, NEW i \in todo[p], Active(i), held' = held,
             book' = Closing(book[i].oco, "pending_cancel")
      PROVE  BrokerOK' /\ BookGrows
  <2>1. i \in DOMAIN book
    BY <1>0 DEF TypeOK
  <2>2. /\ SameOrders /\ LegsTogether' /\ \A t \in Types : Working(t)' = Working(t)
        /\ Reserving' = Reserving /\ FilledBuys' = FilledBuys
        /\ \A k \in DOMAIN book : book[k].status = "canceled" <=> book'[k].status = "canceled"
    BY <1>4, <2>1, Requesting
  <2>3. Paired(book') /\ Reserved' = Reserved
    BY <2>2, SumsStay
  <2> QED
    BY <1>0, <1>4, <2>2, <2>3 DEF BrokerOK, BookGrows, SameOrders
<1>5. ASSUME NEW p \in Procs, NEW orders \in {Oco(qty[p]), Stop(qty[p])}, pc[p] \in {"submit", "restore"},
             qty[p] + Reserved <= held, held' = held, book' = book \o orders
      PROVE  BrokerOK' /\ BookGrows
  <2>1. qty[p] \in Nat \ {0}
    BY <1>0, <1>5 DEF TypeOK
  <2>2. /\ (book \in Seq(OrderRecord))' /\ DOMAIN book \subseteq DOMAIN book'
        /\ \A i \in DOMAIN book : book'[i] = book[i]
        /\ Paired(book') /\ LegsTogether' /\ Reserved' = Reserved + qty[p]
    BY <1>5, <2>1, Adding
  <2> QED
    BY <1>0, <1>5, <2>1, <2>2 DEF BrokerOK, BookGrows
<1> QED
  BY <1>0, <1>1, <1>2, <1>3, <1>4, <1>5 DEF BookSteps

\* The next step of request p is some l, and the others are where they were.
LEMMA FinishMoves ==
  ASSUME PlansOK, NEW p \in Procs, NEW s \in ReportStatus, NEW gap \in BOOLEAN, Finish(p, s, gap)
  PROVE  /\ pc' \in [Procs -> PcLabel] /\ pc'[p] = "done" /\ \A q \in Procs \ {p} : pc'[q] = pc[q]
         /\ report' \in [Procs -> [status : ReportStatus, gap : BOOLEAN]]
BY DEF Finish, PlansOK, PcLabel

\* Plans keep their types while the book grows.
LEMMA PlansStay ==
  ASSUME PlansOK, BookGrows, pc' \in [Procs -> PcLabel], qty' \in [Procs -> Nat],
         UNCHANGED <<todo, waiting, cancelled>>, exposed' \in [Procs -> Nat],
         report' \in [Procs -> [status : ReportStatus, gap : BOOLEAN]],
         \A q \in Procs : /\ pc'[q] \in {"cancel", "confirm", "submit", "restore"} => qty'[q] > 0
                          /\ pc'[q] \in {"cancel", "confirm"} => pc'[q] = pc[q]
  PROVE  PlansOK'
<1>1. todo' \in [Procs -> SUBSET DOMAIN book'] /\ cancelled' \in [Procs -> SUBSET DOMAIN book']
  BY DEF PlansOK, BookGrows
<1> QED
  BY <1>1 DEF PlansOK

\* Every step keeps the types of the plans.
LEMMA PlansStep == BookInv /\ BookGrows /\ [Next]_vars => PlansOK'
<1> SUFFICES ASSUME BookInv, BookGrows, [Next]_vars
             PROVE  PlansOK'
  OBVIOUS
<1>0. /\ PlansOK /\ held \in Nat /\ BookFacts /\ Amounts
      /\ pc \in [Procs -> PcLabel] /\ qty \in [Procs -> Nat] /\ exposed \in [Procs -> Nat]
      /\ report \in [Procs -> [status : ReportStatus, gap : BOOLEAN]]
      /\ \A p \in Procs : pc[p] \in {"cancel", "confirm", "submit", "restore"} => qty[p] > 0
  BY BookIsFinite, AmountsAreNumbers DEF BookInv, TypeOK, PlansOK
<1> USE DEF broker, plan
<1>1. CASE UNCHANGED <<pc, plan, report>>
  BY <1>0, <1>1, PlansStay
<1>2. ASSUME NEW p \in Procs, ReadPositions(p) \/ VerifyPositions(p)
      PROVE  PlansOK'
  <2>1. PICK l \in {"orders", "verify_orders"} : pc' = [pc EXCEPT ![p] = l]
    BY <1>2 DEF ReadPositions, VerifyPositions
  <2>2. qty' = [qty EXCEPT ![p] = held] /\ UNCHANGED <<todo, waiting, cancelled, exposed, report>>
    BY <1>2 DEF ReadPositions, VerifyPositions
  <2>3. pc' \in [Procs -> PcLabel] /\ qty' \in [Procs -> Nat]
    BY <1>0, <2>1, <2>2 DEF PcLabel
  <2>4. \A q \in Procs : /\ pc'[q] \in {"cancel", "confirm", "submit", "restore"} => qty'[q] > 0
                         /\ pc'[q] \in {"cancel", "confirm"} => pc'[q] = pc[q]
    BY <1>0, <2>1, <2>2
  <2> QED
    BY <1>0, <2>2, <2>3, <2>4, PlansStay
<1>3. ASSUME NEW p \in Procs, ReadOpenOrders(p)
      PROVE  PlansOK'
  <2>1. CASE Finish(p, "blocked", FALSE) /\ UNCHANGED <<todo, exposed>>
    <3>1. /\ pc' \in [Procs -> PcLabel] /\ pc'[p] = "done" /\ \A q \in Procs \ {p} : pc'[q] = pc[q]
          /\ report' \in [Procs -> [status : ReportStatus, gap : BOOLEAN]]
      BY <1>0, <2>1, FinishMoves DEF ReportStatus
    <3> QED
      BY <1>0, <1>3, <2>1, <3>1, PlansStay DEF ReadOpenOrders
  <2>2. CASE ~(Finish(p, "blocked", FALSE) /\ UNCHANGED <<todo, exposed>>)
    <3>1. PICK ids \in Planned(p) :
            /\ todo' = [todo EXCEPT ![p] = ids]
            /\ pc' = [pc EXCEPT ![p] = IF ids = {} THEN "submit" ELSE "cancel"]
      BY <1>3, <2>2 DEF ReadOpenOrders
    <3>2. /\ exposed' = [exposed EXCEPT ![p] = Uncovered(qty[p])] /\ Plannable(p)
          /\ UNCHANGED <<qty, waiting, cancelled, report>> /\ pc[p] = "orders"
      BY <1>3, <2>2 DEF ReadOpenOrders
    <3>3. ids \subseteq DOMAIN book /\ DOMAIN book \subseteq DOMAIN book'
      BY <3>1 DEF Planned, Working, Sells, BookGrows
    <3>4. todo' \in [Procs -> SUBSET DOMAIN book'] /\ cancelled' \in [Procs -> SUBSET DOMAIN book']
      BY <1>0, <3>1, <3>2, <3>3 DEF PlansOK
    <3>5. pc' \in [Procs -> PcLabel]
      BY <1>0, <3>1 DEF PcLabel
    <3>6. exposed' \in [Procs -> Nat]
      <4>1. CoveredQuantity("stop") \in Nat /\ qty[p] \in Nat
        BY <1>0 DEF Amounts, Types
      <4>2. Uncovered(qty[p]) \in Nat
        BY <4>1 DEF Uncovered
      <4> QED
        BY <1>0, <3>2, <4>2
    <3>7. \A q \in Procs : /\ pc'[q] \in {"cancel", "confirm", "submit", "restore"} => qty'[q] > 0
                           /\ pc'[q] = "cancel" => todo'[q] # {}
                           /\ pc'[q] = "confirm" => waiting'[q] \in todo'[q]
      BY <1>0, <3>1, <3>2 DEF PlansOK, Plannable
    <3> QED
      BY <1>0, <3>2, <3>4, <3>5, <3>6, <3>7 DEF PlansOK
  <2> QED
    BY <2>1, <2>2
<1>4. ASSUME NEW p \in Procs, CancelFailed(p)
      PROVE  PlansOK'
  <2>1. CancelFailureGap(p) \in BOOLEAN
    BY DEF CancelFailureGap
  <2>2. /\ pc' \in [Procs -> PcLabel] /\ pc'[p] = "done" /\ \A q \in Procs \ {p} : pc'[q] = pc[q]
        /\ report' \in [Procs -> [status : ReportStatus, gap : BOOLEAN]]
    BY <1>0, <1>4, <2>1, FinishMoves DEF CancelFailed, ReportStatus
  <2> QED
    BY <1>0, <1>4, <2>2, PlansStay DEF CancelFailed
<1>5. ASSUME NEW p \in Procs, CancelOrder(p)
      PROVE  PlansOK'
  <2>1. CASE CancelFailed(p)
    BY <1>4, <2>1
  <2>2. CASE ~CancelFailed(p)
    <3>1. PICK i \in todo[p] :
            /\ pc' = [pc EXCEPT ![p] = "confirm"] /\ waiting' = [waiting EXCEPT ![p] = i]
            /\ UNCHANGED <<qty, todo, cancelled, exposed, report>>
      BY <1>5, <2>2 DEF CancelOrder
    <3>2. i \in Nat
      BY <1>0 DEF PlansOK, BookFacts
    <3>3. pc' \in [Procs -> PcLabel] /\ waiting' \in [Procs -> Nat]
      BY <1>0, <3>1, <3>2 DEF PlansOK, PcLabel
    <3>4. \A q \in Procs : /\ pc'[q] \in {"cancel", "confirm", "submit", "restore"} => qty'[q] > 0
                           /\ pc'[q] = "cancel" => todo'[q] # {}
                           /\ pc'[q] = "confirm" => waiting'[q] \in todo'[q]
      BY <1>0, <1>5, <3>1 DEF PlansOK, CancelOrder
    <3>5. todo' \in [Procs -> SUBSET DOMAIN book'] /\ cancelled' \in [Procs -> SUBSET DOMAIN book']
      BY <1>0, <3>1 DEF PlansOK, BookGrows
    <3> QED
      BY <1>0, <3>1, <3>3, <3>4, <3>5 DEF PlansOK
  <2> QED
    BY <2>1, <2>2
<1>6. ASSUME NEW p \in Procs, CancelConfirmed(p)
      PROVE  PlansOK'
  <2>1. waiting[p] \in todo[p] /\ waiting[p] \in DOMAIN book
    BY <1>0, <1>6 DEF CancelConfirmed, PlansOK
  <2>2. todo' \in [Procs -> SUBSET DOMAIN book'] /\ cancelled' \in [Procs -> SUBSET DOMAIN book']
    BY <1>0, <1>6, <2>1 DEF CancelConfirmed, PlansOK, BookGrows
  <2>3. pc' = [pc EXCEPT ![p] = IF todo[p] = {waiting[p]} THEN "submit" ELSE "cancel"]
    BY <1>6 DEF CancelConfirmed
  <2>4. pc' \in [Procs -> PcLabel]
    BY <1>0, <2>3 DEF PcLabel
  <2>5. \A q \in Procs : /\ pc'[q] = "cancel" => todo'[q] # {}
                         /\ pc'[q] = "confirm" => waiting'[q] \in todo'[q]
    BY <1>0, <1>6, <2>1, <2>3 DEF CancelConfirmed, PlansOK
  <2>6. \A q \in Procs : pc'[q] \in {"cancel", "confirm", "submit", "restore"} => qty'[q] > 0
    BY <1>0, <1>6, <2>3 DEF CancelConfirmed
  <2> QED
    BY <1>0, <1>6, <2>2, <2>4, <2>5, <2>6 DEF CancelConfirmed, PlansOK
<1>7. ASSUME NEW p \in Procs, VerifyOpenOrders(p)
      PROVE  PlansOK'
  <2>1. PICK s \in {"executed_and_verified", "submitted_verification_pending_or_failed"} : Finish(p, s, FALSE)
    BY <1>7 DEF VerifyOpenOrders
  <2>2. /\ pc' \in [Procs -> PcLabel] /\ pc'[p] = "done" /\ \A q \in Procs \ {p} : pc'[q] = pc[q]
        /\ report' \in [Procs -> [status : ReportStatus, gap : BOOLEAN]]
    BY <1>0, <2>1, FinishMoves DEF ReportStatus
  <2> QED
    BY <1>0, <1>7, <2>2, PlansStay DEF VerifyOpenOrders
<1>8. ASSUME NEW p \in Procs, SubmitExitBracket(p)
      PROVE  PlansOK'
  <2>1. CASE Finish(p, "submitted", FALSE)
    <3>1. /\ pc' \in [Procs -> PcLabel] /\ pc'[p] = "done" /\ \A q \in Procs \ {p} : pc'[q] = pc[q]
          /\ report' \in [Procs -> [status : ReportStatus, gap : BOOLEAN]]
      BY <1>0, <2>1, FinishMoves DEF ReportStatus
    <3> QED
      BY <1>0, <1>8, <3>1, PlansStay DEF SubmitExitBracket
  <2>2. CASE ~Finish(p, "submitted", FALSE)
    <3>1. PICK l \in {"restore", "verify"} : pc' = [pc EXCEPT ![p] = l]
      BY <1>8, <2>2 DEF SubmitExitBracket
    <3>2. UNCHANGED <<plan, report>> /\ pc[p] = "submit"
      BY <1>8, <2>2 DEF SubmitExitBracket
    <3>3. pc' \in [Procs -> PcLabel]
      BY <1>0, <3>1 DEF PcLabel
    <3> QED
      BY <1>0, <3>1, <3>2, <3>3, PlansStay
  <2> QED
    BY <2>1, <2>2
<1>9. ASSUME NEW p \in Procs, RestoreStop(p)
      PROVE  PlansOK'
  <2>1. PICK gap \in BOOLEAN : Finish(p, "stop_restore_attempted", gap)
    BY <1>9 DEF RestoreStop, RollbackGap
  <2>2. /\ pc' \in [Procs -> PcLabel] /\ pc'[p] = "done" /\ \A q \in Procs \ {p} : pc'[q] = pc[q]
        /\ report' \in [Procs -> [status : ReportStatus, gap : BOOLEAN]]
    BY <1>0, <2>1, FinishMoves DEF ReportStatus
  <2> QED
    BY <1>0, <1>9, <2>2, PlansStay DEF RestoreStop
<1>10. ASSUME NEW p \in Procs, Crash(p)
       PROVE  PlansOK'
  <2>1. pc' = [pc EXCEPT ![p] = "crashed"] /\ pc' \in [Procs -> PcLabel]
    BY <1>0, <1>10 DEF Crash, PcLabel
  <2> QED
    BY <1>0, <1>10, <2>1, PlansStay DEF Crash
<1>11. ASSUME NEW p \in Procs, CancelTimesOut(p)
       PROVE  PlansOK'
  BY <1>4, <1>11 DEF CancelTimesOut
<1>12. ASSUME NEW i \in DOMAIN book, BrokerFills(i) \/ BrokerCancels(i)
       PROVE  PlansOK'
  BY <1>1, <1>12 DEF BrokerFills, BrokerCancels
<1>13. CASE UNCHANGED vars
  BY <1>1, <1>13 DEF vars
<1> QED
  BY <1>2, <1>3, <1>5, <1>6, <1>7, <1>8, <1>9, <1>10, <1>11, <1>12, <1>13 DEF Next, Request

\* So the types and the broker's promise are kept together.
LEMMA BookStep == BookInv /\ [Next]_vars => BookInv' /\ BookGrows
<1> SUFFICES ASSUME BookInv, [Next]_vars
             PROVE  BookInv' /\ BookGrows
  OBVIOUS
<1>1. BrokerOK' /\ BookGrows
  BY BrokerStep
<1>2. PlansOK'
  BY <1>1, PlansStep
<1>3. TypeOK'
  BY <1>1, <1>2 DEF BrokerOK, PlansOK, TypeOK
<1> QED
  BY <1>1, <1>3 DEF BrokerOK, BookInv

\* The first state is well typed, and every order in it works.
LEMMA BookInit == Init => BookInv
<1> SUFFICES ASSUME Init
             PROVE  BookInv
  OBVIOUS
<1>1. held \in Nat /\ book \in Seq(OrderRecord) /\ Paired(book)
  BY ReplacementAssumption DEF Init
<1>2. TypeOK
  BY <1>1 DEF Init, TypeOK, PcLabel, ReportStatus
<1>3. LegsTogether
  BY DEF Init, LegsTogether
<1> QED
  BY <1>1, <1>2, <1>3 DEF Init, BookInv

\* Every reachable state is well typed.  In particular no interleaving of requests and
\* fills sells more than is held: what is reserved is held.
THEOREM ReplacementTypes == Spec => []TypeOK
<1>1. BookInv => TypeOK
  BY DEF BookInv
<1> QED
  BY <1>1, BookInit, BookStep, PTL DEF Spec

----------------------------------------------------------------------------
(* Cancelled orders stay cancelled. *)

\* Every step keeps the cancelled orders cancelled.
LEMMA CancelledStep == BookInv /\ CancelledForGood /\ [Next]_vars => CancelledForGood'
<1> SUFFICES ASSUME BookInv, CancelledForGood, [Next]_vars
             PROVE  CancelledForGood'
  OBVIOUS
<1>0. BookGrows /\ cancelled \in [Procs -> SUBSET DOMAIN book]
  BY BookStep DEF BookInv, TypeOK
<1>1. CASE UNCHANGED cancelled
  BY <1>0, <1>1 DEF CancelledForGood, BookGrows
<1>2. ASSUME NEW p \in Procs, CancelConfirmed(p)
      PROVE  CancelledForGood'
  <2>1. book[waiting[p]].status = "canceled" /\ UNCHANGED book
    BY <1>2 DEF CancelConfirmed, Confirmed, broker
  <2>2. \A q \in Procs : cancelled'[q] = IF q = p THEN cancelled[q] \cup {waiting[q]} ELSE cancelled[q]
    BY <1>0, <1>2 DEF CancelConfirmed
  <2> QED
    BY <2>1, <2>2 DEF CancelledForGood
<1>3. UNCHANGED cancelled \/ \E p \in Procs : CancelConfirmed(p)
  BY DEF Next, Request, ReadPositions, ReadOpenOrders, CancelOrder, CancelFailed, CancelTimesOut, SubmitExitBracket,
         RestoreStop, VerifyPositions, VerifyOpenOrders, Crash, BrokerFills, BrokerCancels, vars, plan, broker
<1> QED
  BY <1>1, <1>2, <1>3

\* However requests and the broker interleave, what a request has cancelled is canceled
\* at the broker while it submits, restores and verifies.
THEOREM CancelledBeforeReplaced == Spec => []ReplacedAfterCancelled
<1>1. Init => CancelledForGood
  BY DEF Init, CancelledForGood
<1>2. CancelledForGood => ReplacedAfterCancelled
  BY DEF CancelledForGood, ReplacedAfterCancelled, Active
<1> QED
  BY <1>1, <1>2, BookInit, BookStep, CancelledStep, PTL DEF Spec

----------------------------------------------------------------------------
(* Who moves, and where the routes go. *)

\* Nothing of request q changes.
Rests(q) ==
  /\ pc'[q] = pc[q] /\ qty'[q] = qty[q] /\ todo'[q] = todo[q]
  /\ cancelled'[q] = cancelled[q] /\ exposed'[q] = exposed[q] /\ report'[q] = report[q]

\* A step of one request leaves the others alone.
LEMMA OneMoves ==
  ASSUME TypeOK, NEW p \in Procs, Request(p)
  PROVE  /\ pc'[p] # "idle" /\ pc[p] \notin {"done", "crashed"}
         /\ \A q \in Procs \ {p} : Rests(q)
<1> USE DEF TypeOK, Rests, plan
<1>1. CASE ReadPositions(p)
  BY <1>1 DEF ReadPositions
<1>2. CASE ReadOpenOrders(p)
  BY <1>2 DEF ReadOpenOrders, Finish
<1>3. CASE CancelOrder(p)
  BY <1>3 DEF CancelOrder, CancelFailed, Finish
<1>4. CASE CancelConfirmed(p)
  BY <1>4 DEF CancelConfirmed
<1>5. CASE CancelTimesOut(p)
  BY <1>5 DEF CancelTimesOut, CancelFailed, Finish
<1>6. CASE SubmitExitBracket(p)
  BY <1>6 DEF SubmitExitBracket, Finish
<1>7. CASE RestoreStop(p)
  BY <1>7 DEF RestoreStop, Finish
<1>8. CASE VerifyPositions(p)
  BY <1>8 DEF VerifyPositions
<1>9. CASE VerifyOpenOrders(p)
  BY <1>9 DEF VerifyOpenOrders, Finish
<1>10. CASE Crash(p)
  BY <1>10 DEF Crash
<1> QED
  BY <1>1, <1>2, <1>3, <1>4, <1>5, <1>6, <1>7, <1>8, <1>9, <1>10 DEF Request

\* A step is that of a request, of the broker, or none.
LEMMA WhoMoves ==
  ASSUME TypeOK, [Next]_vars, NEW q \in Procs
  PROVE  Request(q) \/ Rests(q)
<1>1. ASSUME NEW p \in Procs, p # q, Request(p)
      PROVE  Rests(q)
  BY <1>1, OneMoves
<1>2. CASE UNCHANGED <<pc, plan, report>>
  BY <1>2 DEF plan, Rests
<1> QED
  BY <1>1, <1>2 DEF Next, vars, plan, BrokerFills, BrokerCancels

\* A request that is alone after the step was alone before it, and nobody else moved.
LEMMA AloneStep ==
  ASSUME TypeOK, [Next]_vars, NEW p \in Procs, Alone(p)'
  PROVE  /\ Alone(p)
         /\ \/ Request(p)
            \/ Rests(p) /\ UNCHANGED broker
            \/ Rests(p) /\ \E i \in DOMAIN book : BrokerFills(i) \/ BrokerCancels(i)
<1>1. \A q \in Procs \ {p} : pc'[q] = "idle"
  BY DEF Alone
<1>2. \A q \in Procs \ {p} : ~Request(q)
  BY <1>1, OneMoves
<1>3. \A q \in Procs \ {p} : Rests(q)
  BY <1>2, WhoMoves
<1>4. Alone(p)
  BY <1>1, <1>3 DEF Alone, Rests
<1>5. CASE ~Request(p)
  <2>1. Rests(p)
    BY <1>5, WhoMoves
  <2> QED
    BY <1>2, <1>4, <1>5, <2>1 DEF Next, vars, broker
<1> QED
  BY <1>4, <1>5

\* RouteInv, for one request.
Route(p) ==
  /\ pc[p] \in {"verify", "verify_orders"} \/ report[p].status = "executed_and_verified" => p \in Reconcilers
  /\ pc[p] \in {"idle", "orders", "submit", "restore", "verify", "verify_orders"} \/ Submitted(p) => todo[p] = {}
  /\ report[p].status # "none" <=> pc[p] = "done"
  /\ report[p].status = "blocked_cancel_failed" /\ ~report[p].gap => cancelled[p] = {}

\* Every step keeps the routes.
LEMMA RouteStep == BookInv /\ RouteInv /\ [Next]_vars => RouteInv'
<1> SUFFICES ASSUME BookInv, RouteInv, [Next]_vars
             PROVE  RouteInv'
  OBVIOUS
<1> SUFFICES ASSUME NEW p \in Procs
             PROVE  Route(p)'
  BY DEF RouteInv, Route
<1>0. TypeOK /\ Route(p)
  BY DEF BookInv, RouteInv, Route
<1>1. CASE Rests(p)
  BY <1>0, <1>1 DEF Route, Rests, Submitted
<1> USE DEF TypeOK, Route, Submitted, plan
<1>2. CASE ReadPositions(p)
  BY <1>0, <1>2 DEF ReadPositions
<1>3. CASE ReadOpenOrders(p)
  BY <1>0, <1>3 DEF ReadOpenOrders, Finish
<1>4. ASSUME CancelFailed(p), pc[p] \in {"cancel", "confirm"}
      PROVE  Route(p)'
  BY <1>0, <1>4 DEF CancelFailed, CancelFailureGap, Finish
<1>5. CASE CancelOrder(p)
  BY <1>0, <1>4, <1>5 DEF CancelOrder
<1>6. CASE CancelConfirmed(p)
  BY <1>0, <1>6 DEF CancelConfirmed
<1>7. CASE CancelTimesOut(p)
  BY <1>4, <1>7 DEF CancelTimesOut
<1>8. CASE SubmitExitBracket(p)
  BY <1>0, <1>8 DEF SubmitExitBracket, Finish, Procs
<1>9. CASE RestoreStop(p)
  BY <1>0, <1>9 DEF RestoreStop, Finish
<1>10. CASE VerifyPositions(p)
  BY <1>0, <1>10 DEF VerifyPositions
<1>11. CASE VerifyOpenOrders(p)
  BY <1>0, <1>11 DEF VerifyOpenOrders, Finish
<1>12. CASE Crash(p)
  BY <1>0, <1>12 DEF Crash
<1> QED
  BY <1>0, <1>1, <1>2, <1>3, <1>5, <1>6, <1>7, <1>8, <1>9, <1>10, <1>11, <1>12, WhoMoves DEF Request

----------------------------------------------------------------------------
(* A verified replacement protects the position. *)

\* No step adds an entry order, and the others keep their type.
LEMMA BuysFall == BookInv /\ [Next]_vars => Working("buy")' \subseteq Working("buy")
<1> SUFFICES ASSUME BookInv, [Next]_vars
             PROVE  Working("buy")' \subseteq Working("buy")
  OBVIOUS
<1>0. BookSteps /\ TypeOK /\ "buy" \in Types
  BY StepsOfTheBook DEF BookInv, Types
<1>1. CASE UNCHANGED <<held, book>>
  BY <1>1 DEF Working, Active
<1>2. ASSUME NEW i \in DOMAIN book, BrokerFills(i) \/ BrokerCancels(i)
      PROVE  Working("buy")' \subseteq Working("buy")
  <2>1. LegsEnd(i)
    BY <1>2, Filling, Cancelling
  <2> QED
    BY <1>0, <2>1, CoverFalls
<1>3. ASSUME NEW p \in Procs, NEW i \in todo[p], Active(i), book' = Closing(book[i].oco, "pending_cancel")
      PROVE  Working("buy")' \subseteq Working("buy")
  <2>1. i \in DOMAIN book
    BY <1>0 DEF TypeOK
  <2> QED
    BY <1>0, <1>3, <2>1, Requesting
<1>4. ASSUME NEW p \in Procs, NEW orders \in {Oco(qty[p]), Stop(qty[p])}, pc[p] \in {"submit", "restore"},
             book' = book \o orders
      PROVE  Working("buy")' \subseteq Working("buy")
  <2>1. qty[p] \in Nat \ {0}
    BY <1>0, <1>4 DEF TypeOK
  <2> QED
    BY <1>4, <2>1, Adding
<1> QED
  BY <1>0, <1>1, <1>2, <1>3, <1>4 DEF BookSteps

\* Once a reconciliation has read the open orders, each entry order is cancelled before
\* it submits.
LEMMA NoneBuyingStep == BookInv /\ RouteInv /\ NoneBuying /\ [Next]_vars => NoneBuying'
<1> SUFFICES ASSUME BookInv, RouteInv, NoneBuying, [Next]_vars, NEW p \in Reconcilers
             PROVE  /\ pc'[p] \in {"cancel", "confirm"} => Working("buy")' \subseteq todo'[p]
                    /\ \/ pc'[p] \in {"submit", "restore", "verify", "verify_orders"}
                       \/ report'[p].status = "executed_and_verified"
                       => Working("buy")' = {}
  BY DEF NoneBuying
<1>0. /\ TypeOK /\ Working("buy")' \subseteq Working("buy") /\ p \in Procs /\ p \notin Upgraders
      /\ report[p].status # "none" <=> pc[p] = "done"
  BY BuysFall, ReplacementAssumption DEF BookInv, Procs, RouteInv
<1>a. /\ pc[p] \in {"cancel", "confirm"} => Working("buy") \subseteq todo[p]
      /\ \/ pc[p] \in {"submit", "restore", "verify", "verify_orders"}
         \/ report[p].status = "executed_and_verified"
         => Working("buy") = {}
  BY DEF NoneBuying
<1>1. CASE Rests(p)
  BY <1>0, <1>a, <1>1 DEF Rests
<1>2. CASE ReadOpenOrders(p)
  <2>1. CASE Finish(p, "blocked", FALSE)
    BY <1>0, <2>1 DEF Finish, TypeOK
  <2>2. CASE ~Finish(p, "blocked", FALSE)
    <3>1. PICK ids \in Planned(p) :
            /\ todo' = [todo EXCEPT ![p] = ids]
            /\ pc' = [pc EXCEPT ![p] = IF ids = {} THEN "submit" ELSE "cancel"]
      BY <1>2, <2>2 DEF ReadOpenOrders
    <3>2. ids = Sells \cup Working("buy") /\ report' = report /\ pc[p] = "orders"
      BY <1>0, <1>2, <2>2, <3>1 DEF ReadOpenOrders, Planned
    <3> QED
      BY <1>0, <3>1, <3>2 DEF TypeOK
  <2> QED
    BY <2>1, <2>2
<1>3. CASE CancelConfirmed(p)
  <2>1. waiting[p] \notin Working("buy")
    BY <1>3 DEF CancelConfirmed, Confirmed, Working, Active
  <2> QED
    BY <1>0, <1>a, <1>3, <2>1 DEF CancelConfirmed, TypeOK
<1>4. CASE \/ ReadPositions(p) \/ CancelOrder(p) \/ CancelTimesOut(p) \/ SubmitExitBracket(p)
           \/ RestoreStop(p) \/ VerifyPositions(p) \/ VerifyOpenOrders(p) \/ Crash(p)
  <2> USE DEF TypeOK, plan
  <2>1. CASE ReadPositions(p) \/ VerifyPositions(p) \/ Crash(p)
    BY <1>0, <1>a, <2>1 DEF ReadPositions, VerifyPositions, Crash
  <2>2. CASE CancelOrder(p) \/ CancelTimesOut(p)
    BY <1>0, <1>a, <2>2 DEF CancelOrder, CancelTimesOut, CancelFailed, Finish
  <2>3. CASE SubmitExitBracket(p) \/ RestoreStop(p)
    BY <1>0, <1>a, <2>3 DEF SubmitExitBracket, RestoreStop, Finish
  <2>4. CASE VerifyOpenOrders(p)
    BY <1>0, <1>a, <2>4 DEF VerifyOpenOrders, Finish
  <2> QED
    BY <1>4, <2>1, <2>2, <2>3, <2>4
<1> QED
  BY <1>0, <1>1, <1>2, <1>3, <1>4, WhoMoves DEF Request

\* A request that is alone started every cancellation that is pending.
PlannedPending(p) ==
  \A k \in DOMAIN book : book[k].status = "pending_cancel" => \E i \in todo[p] : book[i].oco = book[k].oco

\* Every step keeps that: a request starts cancellations of its plan only.
LEMMA PendingStep == BookInv /\ RouteInv /\ PendingIsPlanned /\ [Next]_vars => PendingIsPlanned'
<1> SUFFICES ASSUME BookInv, RouteInv, PendingIsPlanned, [Next]_vars
             PROVE  PendingIsPlanned'
  OBVIOUS
<1> SUFFICES ASSUME NEW p \in Procs, Alone(p)'
             PROVE  PlannedPending(p)'
  BY DEF PendingIsPlanned, PlannedPending
<1>0. /\ TypeOK /\ BookFacts /\ LegsTogether /\ todo[p] \subseteq DOMAIN book /\ BookGrows
      /\ pc[p] = "orders" => todo[p] = {}
  BY BookIsFinite, BookStep DEF BookInv, TypeOK, RouteInv
<1>a. /\ \/ Request(p)
         \/ Rests(p) /\ UNCHANGED broker
         \/ Rests(p) /\ \E i \in DOMAIN book : BrokerFills(i) \/ BrokerCancels(i)
      /\ PlannedPending(p)
  BY <1>0, AloneStep DEF PendingIsPlanned, PlannedPending
<1>b. CASE UNCHANGED book /\ todo'[p] = todo[p]
  BY <1>a, <1>b DEF PlannedPending
<1>1. ASSUME Rests(p), NEW i \in DOMAIN book, BrokerFills(i) \/ BrokerCancels(i)
      PROVE  PlannedPending(p)'
  <2>1. SameOrders /\ \A k \in DOMAIN book : book'[k].status = "pending_cancel" => book[k].status = "pending_cancel"
    BY <1>1, Filling, Cancelling DEF LegsEnd
  <2> QED
    BY <1>0, <1>1, <1>a, <2>1 DEF PlannedPending, SameOrders, Rests
<1>2. CASE ReadOpenOrders(p)
  <2>1. \A k \in DOMAIN book : book[k].status # "pending_cancel"
    BY <1>0, <1>2, <1>a DEF PlannedPending, ReadOpenOrders
  <2>2. UNCHANGED book
    BY <1>2 DEF ReadOpenOrders, broker
  <2> QED
    BY <2>1, <2>2 DEF PlannedPending
<1>3. CASE CancelOrder(p)
  <2>1. todo' = todo
    BY <1>3 DEF CancelOrder, CancelFailed, plan
  <2>2. CASE book' # book
    <3>1. PICK i \in todo[p] : Active(i) /\ book' = Closing(book[i].oco, "pending_cancel")
      BY <1>3, <2>2, RequestsToCancel
    <3>2. /\ SameOrders
          /\ \A k \in DOMAIN book : book'[k].status = "pending_cancel" =>
                                      book[k].status = "pending_cancel" \/ book[k].oco = book[i].oco
      BY <1>0, <3>1, Requesting
    <3> QED
      BY <1>0, <1>a, <2>1, <3>1, <3>2 DEF PlannedPending, SameOrders
  <2> QED
    BY <1>b, <2>1, <2>2
<1>4. CASE CancelConfirmed(p)
  <2>1. /\ UNCHANGED book /\ book[waiting[p]].status = "canceled"
        /\ todo'[p] = todo[p] \ {waiting[p]} /\ waiting[p] \in todo[p]
    BY <1>0, <1>4 DEF CancelConfirmed, Confirmed, broker, TypeOK
  <2>2. ASSUME NEW k \in DOMAIN book, book[k].status = "pending_cancel", book[waiting[p]].oco = book[k].oco
        PROVE  FALSE
    BY <1>0, <2>1, <2>2 DEF LegsTogether, Active
  <2> QED
    BY <1>a, <2>1, <2>2 DEF PlannedPending
<1>5. CASE SubmitExitBracket(p) \/ RestoreStop(p)
  <2>1. todo' = todo
    BY <1>5 DEF SubmitExitBracket, RestoreStop, plan
  <2>2. CASE book' # book
    <3>1. PICK orders \in {Oco(qty[p]), Stop(qty[p])} : book' = book \o orders
      BY <1>5, <2>2 DEF SubmitExitBracket, RestoreStop, Submission
    <3>2. qty[p] \in Nat \ {0}
      <4>1. pc[p] \in {"submit", "restore"}
        BY <1>5 DEF SubmitExitBracket, RestoreStop
      <4> QED
        BY <1>0, <4>1 DEF TypeOK
    <3>3. /\ \A i \in DOMAIN book : book'[i] = book[i]
          /\ \A i \in DOMAIN book' \ DOMAIN book : book'[i].status = "open"
      BY <3>1, <3>2, Adding
    <3> QED
      BY <1>0, <1>a, <2>1, <3>3 DEF PlannedPending
  <2> QED
    BY <1>b, <2>1, <2>2
<1>6. CASE ReadPositions(p) \/ CancelTimesOut(p) \/ VerifyPositions(p) \/ VerifyOpenOrders(p) \/ Crash(p)
  <2>1. UNCHANGED book /\ todo'[p] = todo[p]
    BY <1>6 DEF ReadPositions, CancelTimesOut, CancelFailed, VerifyPositions, VerifyOpenOrders, Crash, broker, plan
  <2> QED
    BY <1>b, <2>1
<1> QED
  BY <1>1, <1>2, <1>3, <1>4, <1>5, <1>6, <1>a, <1>b DEF Request, Rests, broker

\* So nothing is cancelled any more under a request that is alone and has nothing to cancel.
LEMMA NothingPending ==
  ASSUME BookInv, PendingIsPlanned, NEW p \in Procs, Alone(p), todo[p] = {}, NEW i \in DOMAIN book
  PROVE  ~BrokerCancels(i)
BY DEF PendingIsPlanned, BrokerCancels

\* A fill after the verification takes the shares of the stop, or of the take profit, with it.
LEMMA VerifiedStep == BookInv /\ VerifiedInv /\ [Next]_vars => VerifiedInv'
<1> SUFFICES ASSUME BookInv, VerifiedInv, [Next]_vars
             PROVE  VerifiedInv'
  OBVIOUS
<1>0. /\ RouteInv /\ NoneBuying /\ PendingIsPlanned /\ TypeOK /\ BookFacts /\ Amounts /\ BookSteps
      /\ held \in Nat /\ qty \in [Procs -> Nat]
  BY BookIsFinite, AmountsAreNumbers, StepsOfTheBook DEF VerifiedInv, BookInv, TypeOK
<1>1. RouteInv' /\ NoneBuying' /\ PendingIsPlanned'
  BY <1>0, RouteStep, NoneBuyingStep, PendingStep
<1>2. ASSUME NEW p \in Reconcilers, pc'[p] = "verify_orders"
      PROVE  held' <= qty'[p]
  <2>0. p \in Procs
    BY DEF Procs
  <2>1. CASE Rests(p)
    <3>1. pc[p] = "verify_orders" /\ held <= qty[p] /\ Working("buy") = {} /\ qty'[p] = qty[p]
      BY <1>0, <1>2, <2>1 DEF VerifiedInv, NoneBuying, Rests
    <3>2. ASSUME NEW i \in DOMAIN book, BrokerFills(i)
          PROVE  held' <= held
      <4>1. /\ book[i].type \in Types /\ book[i].qty \in Nat
            /\ held' = IF book[i].type = "buy" THEN held + book[i].qty ELSE held - book[i].qty
        BY <3>2, FillAmounts
      <4>2. book[i].type # "buy"
        BY <3>1, <3>2 DEF BrokerFills, Working
      <4> QED
        BY <1>0, <4>1, <4>2
    <3>3. held' <= held
      BY <1>0, <3>2 DEF BookSteps, BrokerCancels
    <3>4. held' \in Nat /\ qty[p] \in Nat
      BY <1>0, <2>0, BookStep DEF BookInv, TypeOK
    <3> QED
      BY <1>0, <3>1, <3>3, <3>4
  <2>2. CASE Request(p)
    <3>1. VerifyPositions(p)
      <4> USE DEF TypeOK, plan
      <4>1. ~(ReadPositions(p) \/ ReadOpenOrders(p) \/ CancelConfirmed(p) \/ Crash(p))
        BY <1>0, <1>2, <2>0 DEF ReadPositions, ReadOpenOrders, CancelConfirmed, Crash, Finish
      <4>2. ~(CancelOrder(p) \/ CancelTimesOut(p))
        BY <1>0, <1>2, <2>0 DEF CancelOrder, CancelTimesOut, CancelFailed, Finish
      <4>3. ~(SubmitExitBracket(p) \/ RestoreStop(p) \/ VerifyOpenOrders(p))
        BY <1>0, <1>2, <2>0 DEF SubmitExitBracket, RestoreStop, VerifyOpenOrders, Finish
      <4> QED
        BY <2>2, <4>1, <4>2, <4>3 DEF Request
    <3> QED
      BY <1>0, <2>0, <3>1 DEF VerifyPositions, broker
  <2> QED
    BY <1>0, <2>0, <2>1, <2>2, WhoMoves
<1>3. ASSUME NEW p \in Procs, report'[p].status = "executed_and_verified", Alone(p)', NEW t \in {"stop", "limit"}
      PROVE  CoveredQuantity(t)' >= held'
  <2>0. /\ Alone(p)
        /\ \/ Request(p)
           \/ Rests(p) /\ UNCHANGED broker
           \/ Rests(p) /\ \E i \in DOMAIN book : BrokerFills(i) \/ BrokerCancels(i)
    BY <1>0, <1>3, AloneStep
  <2>t. t \in Types /\ CoveredQuantity(t) \in Nat
    BY <1>0 DEF Amounts, Types
  <2>1. CASE Request(p)
    <3>1. VerifyOpenOrders(p)
      <4>1. report[p].status = "none"
        BY <1>0, <2>1, OneMoves DEF RouteInv
      <4> USE DEF TypeOK, plan
      <4>2. ~(ReadPositions(p) \/ ReadOpenOrders(p) \/ CancelConfirmed(p) \/ VerifyPositions(p) \/ Crash(p))
        BY <1>0, <1>3, <4>1 DEF ReadPositions, ReadOpenOrders, CancelConfirmed, VerifyPositions, Crash, Finish
      <4>3. ~(CancelOrder(p) \/ CancelTimesOut(p))
        BY <1>0, <1>3, <4>1 DEF CancelOrder, CancelTimesOut, CancelFailed, Finish
      <4>4. ~(SubmitExitBracket(p) \/ RestoreStop(p))
        BY <1>0, <1>3, <4>1 DEF SubmitExitBracket, RestoreStop, Finish
      <4> QED
        BY <2>1, <4>2, <4>3, <4>4 DEF Request
    <3>2. /\ ProtectionStatus(qty[p]) = "bracket_protected" /\ pc[p] = "verify_orders"
          /\ UNCHANGED <<held, book>>
      BY <1>0, <1>3, <3>1 DEF VerifyOpenOrders, Finish, broker, TypeOK
    <3>3. FullyCovered(t, qty[p])
      BY <1>3, <3>2 DEF ProtectionStatus
    <3>4. held <= qty[p]
      BY <1>0, <3>2 DEF RouteInv, VerifiedInv
    <3>5. CoveredQuantity(t)' = CoveredQuantity(t)
      BY <3>2 DEF CoveredQuantity, Working, Active, Quantities
    <3> QED
      BY <1>0, <2>t, <3>2, <3>3, <3>4, <3>5 DEF FullyCovered
  <2>2. CASE Rests(p)
    <3>1. report[p].status = "executed_and_verified" /\ CoveredQuantity(t) >= held
      BY <1>3, <2>0, <2>2 DEF Rests, VerifiedInv, VerifiedIsProtected
    <3>2. todo[p] = {} /\ Working("buy") = {}
      BY <1>0, <3>1 DEF RouteInv, Submitted, NoneBuying
    <3>3. CASE UNCHANGED broker
      BY <3>1, <3>3 DEF CoveredQuantity, Working, Active, Quantities, broker
    <3>4. ASSUME NEW i \in DOMAIN book, BrokerFills(i)
          PROVE  CoveredQuantity(t)' >= held'
      <4>1. /\ book[i].type \in Types /\ book[i].qty \in Nat
            /\ held' = IF book[i].type = "buy" THEN held + book[i].qty ELSE held - book[i].qty
            /\ CoveredQuantity(t)' >= IF book[i].type = "buy" THEN CoveredQuantity(t)
                                      ELSE CoveredQuantity(t) - book[i].qty
        BY <1>3, <3>4, FillAmounts
      <4>2. book[i].type # "buy"
        BY <3>2, <3>4 DEF BrokerFills, Working
      <4>3. CoveredQuantity(t)' \in Nat
        <5>1. (book \in Seq(OrderRecord))'
          BY BookStep DEF BookInv, TypeOK
        <5> QED
          BY <2>t, <5>1, AmountsAfter DEF Amounts
      <4> QED
        BY <1>0, <2>t, <3>1, <4>1, <4>2, <4>3
    <3>5. \A i \in DOMAIN book : ~BrokerCancels(i)
      BY <1>0, <2>0, <3>2, NothingPending
    <3> QED
      BY <2>0, <3>3, <3>4, <3>5, OneMoves, <1>0, <3>1 DEF RouteInv
  <2> QED
    BY <2>0, <2>1, <2>2
<1>4. VerifiedIsProtected'
  BY <1>3 DEF VerifiedIsProtected
<1> QED
  BY <1>1, <1>2, <1>4 DEF VerifiedInv

\* At first no request has done anything.
LEMMA VerifiedInit == Init => VerifiedInv
<1> SUFFICES ASSUME Init
             PROVE  VerifiedInv
  OBVIOUS
<1>1. RouteInv /\ NoneBuying /\ VerifiedIsProtected
  BY DEF Init, RouteInv, NoneBuying, VerifiedIsProtected, Submitted, Procs
<1>2. PendingIsPlanned
  BY DEF Init, PendingIsPlanned
<1> QED
  BY <1>1, <1>2 DEF Init, VerifiedInv, Procs

\* An answer "executed_and_verified" means that a stop and a take profit cover the whole
\* position, whatever filled between the two reads of the verification and after them.
THEOREM VerifiedMeansProtected == Spec => []VerifiedIsProtected
<1>1. VerifiedInv => VerifiedIsProtected
  BY DEF VerifiedInv
<1> QED
  BY <1>1, BookInit, VerifiedInit, BookStep, VerifiedStep, PTL DEF Spec

----------------------------------------------------------------------------
(* A gap that a request leaves behind is reported. *)

\* What a step of the broker does to the shares without a stop, beside those bought.
LEMMA BrokerKeepsCover ==
  ASSUME BookInv, NEW p \in Procs, Rests(p), CoverKept(p),
         UNCHANGED broker \/ \E i \in DOMAIN book : BrokerFills(i)
  PROVE  CoverKept(p)'
<1>0. /\ TypeOK /\ Amounts /\ "stop" \in Types /\ held \in Nat /\ exposed[p] \in Nat /\ exposed'[p] = exposed[p]
      /\ held - CoveredQuantity("stop") <= exposed[p] + Bought
  BY AmountsAreNumbers DEF BookInv, TypeOK, Types, Rests, CoverKept
<1>1. CASE UNCHANGED broker
  BY <1>0, <1>1 DEF CoverKept, CoveredQuantity, Bought, FilledBuys, Working, Active, Quantities, broker
<1>2. ASSUME NEW i \in DOMAIN book, BrokerFills(i)
      PROVE  CoverKept(p)'
  <2>1. /\ held' \in Nat /\ book[i].qty \in Nat
        /\ held' = IF book[i].type = "buy" THEN held + book[i].qty ELSE held - book[i].qty
        /\ Bought' = IF book[i].type = "buy" THEN Bought + book[i].qty ELSE Bought
        /\ CoveredQuantity("stop")' >= IF book[i].type = "buy" THEN CoveredQuantity("stop")
                                       ELSE CoveredQuantity("stop") - book[i].qty
    BY <1>2, FillAmounts
  <2>2. (book \in Seq(OrderRecord))'
    <3>1. LegsEnd(i)
      BY <1>2, Filling
    <3> QED
      BY <3>1 DEF LegsEnd, SameOrders
  <2>3. CoveredQuantity("stop")' \in Nat /\ Bought' \in Nat
    BY <1>0, <2>2, AmountsAfter DEF Amounts, Types
  <2>4. held' - CoveredQuantity("stop")' <= exposed[p] + Bought'
    <3>1. CoveredQuantity("stop") \in Nat /\ Bought \in Nat
      BY <1>0 DEF Amounts
    <3> QED
      BY <1>0, <2>1, <2>3, <3>1
  <2> QED
    BY <1>0, <2>4 DEF CoverKept
<1> QED
  BY <1>1, <1>2

\* Bought shares do not disappear, and nobody else changes the position.
HeldMoves ==
  \/ held' = held /\ Bought' = Bought
  \/ held' <= held /\ Bought' = Bought
  \/ \E n \in Nat : held' = held + n /\ Bought' = Bought + n

\* Every step moves the position in one of these ways.
LEMMA PositionStep == BookInv /\ [Next]_vars => HeldMoves
<1> SUFFICES ASSUME BookInv, [Next]_vars
             PROVE  HeldMoves
  OBVIOUS
<1>0. BookSteps /\ TypeOK /\ Paired(book) /\ held \in Nat /\ Amounts
  BY StepsOfTheBook, AmountsAreNumbers DEF BookInv, TypeOK
<1>1. CASE UNCHANGED <<held, book>>
  BY <1>1 DEF HeldMoves, Bought, FilledBuys, Quantities
<1>2. ASSUME NEW i \in DOMAIN book, BrokerFills(i)
      PROVE  HeldMoves
  <2>1. /\ held' \in Nat /\ book[i].qty \in Nat
        /\ held' = IF book[i].type = "buy" THEN held + book[i].qty ELSE held - book[i].qty
        /\ Bought' = IF book[i].type = "buy" THEN Bought + book[i].qty ELSE Bought
    BY <1>2, FillAmounts
  <2> QED
    BY <1>0, <2>1 DEF HeldMoves
<1>3. ASSUME NEW i \in DOMAIN book, BrokerCancels(i)
      PROVE  HeldMoves
  <2>1. LegsEnd(i) /\ FilledBuys' = FilledBuys /\ held' = held
    BY <1>3, Cancelling
  <2>2. Quantities' = Quantities
    BY <1>0, <2>1, SameOrdersKeep DEF LegsEnd
  <2> QED
    BY <2>1, <2>2 DEF HeldMoves, Bought
<1>4. ASSUME NEW p \in Procs, NEW i \in todo[p], Active(i), held' = held,
             book' = Closing(book[i].oco, "pending_cancel")
      PROVE  HeldMoves
  <2>1. i \in DOMAIN book
    BY <1>0 DEF TypeOK
  <2>2. /\ SameOrders /\ \A t \in Types : Working(t)' = Working(t)
        /\ Reserving' = Reserving /\ FilledBuys' = FilledBuys
    BY <1>4, <2>1, Requesting
  <2> QED
    BY <1>4, <2>2, SumsStay DEF HeldMoves
<1>5. ASSUME NEW p \in Procs, NEW orders \in {Oco(qty[p]), Stop(qty[p])}, pc[p] \in {"submit", "restore"},
             held' = held, book' = book \o orders
      PROVE  HeldMoves
  <2>1. qty[p] \in Nat \ {0}
    BY <1>0, <1>5 DEF TypeOK
  <2> QED
    BY <1>5, <2>1, Adding DEF HeldMoves
<1> QED
  BY <1>0, <1>1, <1>2, <1>3, <1>4, <1>5 DEF BookSteps

\* The plan was made for the shares held, up to those bought since.
PlanFits(p) ==
  pc[p] \in {"orders", "cancel", "confirm", "submit", "restore"} => held <= qty[p] + Bought

\* Every step of anybody keeps the plan that large.
LEMMA PlanFitsStep ==
  ASSUME BookInv, [Next]_vars, NEW p \in Procs, PlanFits(p)
  PROVE  PlanFits(p)'
<1>0. /\ TypeOK /\ HeldMoves /\ held \in Nat /\ Bought \in Nat /\ qty[p] \in Nat
      /\ held' \in Nat /\ Bought' \in Nat
  <2>1. TypeOK /\ TypeOK'
    BY BookStep DEF BookInv
  <2>2. Amounts /\ Amounts'
    <3>1. book \in Seq(OrderRecord) /\ (book \in Seq(OrderRecord))'
      BY <2>1 DEF TypeOK
    <3> QED
      BY <3>1, AmountsAreNumbers, AmountsAfter
  <2> QED
    BY <2>1, <2>2, PositionStep DEF TypeOK, Amounts
<1>1. CASE Rests(p)
  BY <1>0, <1>1 DEF PlanFits, Rests, HeldMoves
<1>2. CASE ReadPositions(p)
  <2>1. qty'[p] = held'
    BY <1>0, <1>2 DEF ReadPositions, broker, TypeOK
  <2>2. held' <= held' + Bought'
    <3>1. held' \in Nat
      BY <1>0
    <3>2. Bought' \in Nat
      BY <1>0
    <3>3. \A a, b \in Nat : a <= a + b
      OBVIOUS
    <3> QED
      BY <3>1, <3>2, <3>3, Zenon
  <2>3. held' <= qty'[p] + Bought'
    BY <2>1, <2>2
  <2> QED
    BY <2>3 DEF PlanFits
<1>3. ASSUME Request(p), ~ReadPositions(p), pc'[p] \in {"orders", "cancel", "confirm", "submit", "restore"}
      PROVE  held' <= qty'[p] + Bought'
  <2>1. pc[p] \in {"orders", "cancel", "confirm", "submit", "restore"} /\ qty'[p] = qty[p]
    <3> USE DEF TypeOK, plan
    <3>1. CASE ReadOpenOrders(p) \/ CancelConfirmed(p) \/ Crash(p)
      BY <1>0, <1>3, <3>1 DEF ReadOpenOrders, CancelConfirmed, Crash, Finish
    <3>2. CASE CancelOrder(p) \/ CancelTimesOut(p)
      BY <1>0, <1>3, <3>2 DEF CancelOrder, CancelTimesOut, CancelFailed, Finish
    <3>3. CASE SubmitExitBracket(p) \/ RestoreStop(p)
      BY <1>0, <1>3, <3>3 DEF SubmitExitBracket, RestoreStop, Finish
    <3>4. ~(VerifyPositions(p) \/ VerifyOpenOrders(p))
      BY <1>0, <1>3 DEF VerifyPositions, VerifyOpenOrders, Finish
    <3> QED
      BY <1>3, <3>1, <3>2, <3>3, <3>4 DEF Request
  <2> QED
    BY <1>0, <2>1 DEF PlanFits, HeldMoves
<1> QED
  BY <1>0, <1>1, <1>2, <1>3, WhoMoves DEF PlanFits

\* A fill or a request to cancel brings no withdrawn order back.
LEMMA WithdrawnStays ==
  ASSUME BookInv, NEW j \in DOMAIN book, Withdrawn(j), NEW i \in DOMAIN book,
         BrokerFills(i) \/ (Active(i) /\ book' = Closing(book[i].oco, "pending_cancel"))
  PROVE  Withdrawn(j)'
<1>1. /\ SameOrders /\ Active(i) /\ book'[j].status = "canceled"
      /\ \A k \in DOMAIN book : book'[k].status = "filled" => k = i \/ book[k].status = "filled"
  BY Filling, Requesting DEF LegsEnd, Withdrawn
<1>2. book[i].oco # book[j].oco \/ \A k \in DOMAIN book : book'[k].status = "filled" => book[k].status = "filled"
  BY <1>1 DEF BookInv, LegsTogether, Withdrawn, Active
<1> QED
  BY <1>1, <1>2 DEF Withdrawn, SameOrders

\* What GapInv says of a request that is alone.
StillCovered(p) ==
  /\ (pc[p] \in {"cancel", "confirm"} \/ report[p].status = "blocked_cancel_failed") /\ UntouchedPlan(p) => CoverKept(p)
  /\ pc[p] \in {"verify", "verify_orders"} \/ (Submitted(p) /\ ~report[p].gap) => CoverKept(p)

\* A submission that succeeded covers the shares the plan was made for.
LEMMA SubmittedCover ==
  ASSUME BookInv, NEW p \in Procs, PlanFits(p), pc[p] \in {"submit", "restore"},
         NEW orders \in {Oco(qty[p]), Stop(qty[p])}, Submission(orders, qty[p], TRUE),
         held' = held, exposed' = exposed
  PROVE  CoverKept(p)'
<1>1. qty[p] \in Nat \ {0} /\ held \in Nat /\ exposed[p] \in Nat /\ Amounts /\ book' = book \o orders
  BY AmountsAreNumbers DEF BookInv, TypeOK, Submission
<1>2. CoveredQuantity("stop")' = CoveredQuantity("stop") + qty[p] /\ Bought' = Bought
  BY <1>1, Adding
<1>3. CoveredQuantity("stop") \in Nat /\ Bought \in Nat /\ held <= qty[p] + Bought
  BY <1>1 DEF Amounts, Types, PlanFits
<1>4. held - CoveredQuantity("stop")' <= exposed[p] + Bought'
  BY <1>1, <1>2, <1>3
<1> QED
  BY <1>4 DEF CoverKept

\* A request's own steps.
LEMMA OwnCover ==
  ASSUME BookInv, RouteInv, NEW p \in Procs, PlanFits(p), StillCovered(p), Request(p)
  PROVE  StillCovered(p)'
<1>0. /\ TypeOK /\ Amounts /\ Paired(book) /\ report[p].status = "none" /\ report[p].status \notin {"blocked_cancel_failed"}
      /\ ~Submitted(p) /\ todo[p] \in SUBSET DOMAIN book
  BY AmountsAreNumbers, OneMoves DEF BookInv, TypeOK, RouteInv, Submitted
<1> DEFINE SameCover == UNCHANGED <<held, exposed>> /\ CoveredQuantity("stop")' = CoveredQuantity("stop") /\ Bought' = Bought
<1>a. ASSUME UNCHANGED <<held, book, exposed>>
      PROVE  SameCover
  BY <1>a DEF CoveredQuantity, Bought, FilledBuys, Working, Active, Quantities
<1>b. ASSUME SameCover
      PROVE  CoverKept(p)' <=> CoverKept(p)
  BY <1>b DEF CoverKept
<1> HIDE DEF SameCover
<1>1. CASE ReadPositions(p)
  BY <1>0, <1>1 DEF StillCovered, ReadPositions, TypeOK, Submitted
<1>2. CASE ReadOpenOrders(p)
  <2>1. CASE Finish(p, "blocked", FALSE)
    BY <1>0, <2>1 DEF Finish, StillCovered, TypeOK, Submitted
  <2>2. CASE ~Finish(p, "blocked", FALSE)
    <3>1. /\ pc'[p] \in {"submit", "cancel"} /\ report' = report /\ held' = held /\ UNCHANGED book
          /\ exposed'[p] = Uncovered(qty[p])
      BY <1>0, <1>2, <2>2 DEF ReadOpenOrders, TypeOK, broker
    <3>2. CoveredQuantity("stop") \in Nat /\ Bought \in Nat /\ held \in Nat /\ qty[p] \in Nat
      BY <1>0 DEF Amounts, Types, TypeOK
    <3>3. held <= qty[p] + Bought
      BY <1>2 DEF PlanFits, ReadOpenOrders
    <3>4. held - CoveredQuantity("stop") <= Uncovered(qty[p]) + Bought
      BY <3>2, <3>3 DEF Uncovered
    <3>5. CoveredQuantity("stop")' = CoveredQuantity("stop") /\ Bought' = Bought
      BY <3>1 DEF CoveredQuantity, Bought, FilledBuys, Working, Active, Quantities
    <3>6. CoverKept(p)'
      BY <3>1, <3>4, <3>5 DEF CoverKept
    <3> QED
      BY <3>6 DEF StillCovered
  <2> QED
    BY <2>1, <2>2
<1>3. CASE CancelOrder(p)
  <2>1. /\ pc[p] = "cancel" /\ UNCHANGED <<held, todo, cancelled, exposed>>
        /\ pc'[p] \notin {"verify", "verify_orders"} /\ ~Submitted(p)'
    BY <1>0, <1>3 DEF CancelOrder, CancelFailed, Finish, plan, TypeOK, Submitted
  <2>2. /\ UntouchedPlan(p)' => UntouchedPlan(p)
        /\ SameCover
    <3>1. CASE book' = book
      BY <1>a, <2>1, <3>1 DEF UntouchedPlan, Withdrawn
    <3>2. CASE book' # book
      <4>1. PICK i \in todo[p] : Active(i) /\ book' = Closing(book[i].oco, "pending_cancel")
        BY <1>3, <3>2, RequestsToCancel
      <4>2. /\ SameOrders /\ \A t \in Types : Working(t)' = Working(t)
            /\ Reserving' = Reserving /\ FilledBuys' = FilledBuys
            /\ \A k \in DOMAIN book : book[k].status = "canceled" <=> book'[k].status = "canceled"
        BY <1>0, <4>1, Requesting
      <4>3. CoveredQuantity("stop")' = CoveredQuantity("stop") /\ Bought' = Bought
        BY <4>2, SumsStay DEF Types
      <4>4. \A k \in todo[p] : Withdrawn(k) => Withdrawn(k)'
        BY <1>0, <4>1, WithdrawnStays
      <4> QED
        BY <1>0, <2>1, <4>3, <4>4 DEF UntouchedPlan, SameCover
    <3> QED
      BY <3>1, <3>2
  <2> QED
    BY <1>b, <2>1, <2>2 DEF StillCovered
<1>4. CASE CancelConfirmed(p)
  <2>1. cancelled'[p] # {} /\ pc'[p] \notin {"verify", "verify_orders"} /\ report' = report
    BY <1>0, <1>4 DEF CancelConfirmed, TypeOK
  <2> QED
    BY <1>0, <2>1 DEF StillCovered, UntouchedPlan, Submitted
<1>5. CASE CancelTimesOut(p)
  <2>1. /\ pc[p] = "confirm" /\ UNCHANGED <<held, book, todo, cancelled, exposed>>
        /\ pc'[p] \notin {"verify", "verify_orders"} /\ ~Submitted(p)'
    BY <1>0, <1>5 DEF CancelTimesOut, CancelFailed, Finish, plan, broker, TypeOK, Submitted
  <2> QED
    BY <1>a, <1>b, <2>1 DEF StillCovered, UntouchedPlan, Withdrawn
<1>6. CASE SubmitExitBracket(p)
  <2>1. PICK succeeded \in BOOLEAN :
          /\ Submission(Oco(qty[p]), qty[p], succeeded)
          /\ ~succeeded => pc' = [pc EXCEPT ![p] = "restore"] /\ UNCHANGED report
    BY <1>6 DEF SubmitExitBracket
  <2>2. pc[p] = "submit" /\ held' = held /\ exposed' = exposed
    BY <1>6 DEF SubmitExitBracket, plan
  <2>3. CASE succeeded
    <3>1. Submission(Oco(qty[p]), qty[p], TRUE)
      BY <2>1, <2>3
    <3>2. CoverKept(p)'
      BY <2>2, <3>1, SubmittedCover
    <3> QED
      BY <3>2 DEF StillCovered
  <2>4. CASE ~succeeded
    BY <1>0, <2>1, <2>4 DEF StillCovered, Submitted, TypeOK
  <2> QED
    BY <2>3, <2>4
<1>7. CASE RestoreStop(p)
  <2>1. PICK succeeded \in BOOLEAN :
          /\ Submission(Stop(qty[p]), qty[p], succeeded)
          /\ Finish(p, "stop_restore_attempted", RollbackGap(succeeded))
    BY <1>7 DEF RestoreStop
  <2>2. pc[p] = "restore" /\ held' = held /\ exposed' = exposed
    BY <1>7 DEF RestoreStop, plan
  <2>3. CASE succeeded
    <3>1. Submission(Stop(qty[p]), qty[p], TRUE)
      BY <2>1, <2>3
    <3>2. CoverKept(p)'
      BY <2>2, <3>1, SubmittedCover
    <3> QED
      BY <3>2 DEF StillCovered
  <2>4. CASE ~succeeded
    BY <1>0, <2>1, <2>4 DEF StillCovered, Finish, RollbackGap, TypeOK
  <2> QED
    BY <2>3, <2>4
<1>8. CASE VerifyPositions(p) \/ VerifyOpenOrders(p)
  <2>1. UNCHANGED <<held, book, exposed>> /\ pc[p] \in {"verify", "verify_orders"}
    BY <1>8 DEF VerifyPositions, VerifyOpenOrders, broker, plan
  <2> QED
    BY <1>a, <1>b, <2>1 DEF StillCovered
<1>9. CASE Crash(p)
  BY <1>0, <1>9 DEF StillCovered, Crash, TypeOK, Submitted
<1> QED
  BY <1>1, <1>2, <1>3, <1>4, <1>5, <1>6, <1>7, <1>8, <1>9 DEF Request

\* A cancellation that a planning request waits for touches its plan; no other happens.
LEMMA CancelTouchesPlan ==
  ASSUME BookInv, RouteInv, PendingIsPlanned, NEW p \in Procs, Alone(p), StillCovered(p), Rests(p),
         NEW k \in DOMAIN book, BrokerCancels(k)
  PROVE  StillCovered(p)'
<1>1. PICK i \in todo[p] : book[i].oco = book[k].oco
  BY DEF PendingIsPlanned, BrokerCancels
<1>2. i \in DOMAIN book /\ Withdrawn(i)'
  <2>1. i \in DOMAIN book
    BY DEF BookInv, TypeOK
  <2>2. SameOrders /\ \A j \in DOMAIN book : book[j].oco = book[k].oco => book'[j].status = "canceled"
    BY Cancelling DEF LegsEnd
  <2> QED
    BY <1>1, <2>1, <2>2 DEF Withdrawn, SameOrders
<1>3. ~UntouchedPlan(p)'
  BY <1>1, <1>2 DEF UntouchedPlan, Rests
<1>4. ~(pc'[p] \in {"verify", "verify_orders"} \/ Submitted(p)')
  BY <1>1 DEF RouteInv, Rests, Submitted
<1> QED
  BY <1>3, <1>4 DEF StillCovered

\* Every step keeps what is said of gaps.
LEMMA GapStep == BookInv /\ RouteInv /\ PendingIsPlanned /\ GapInv /\ [Next]_vars => GapInv'
<1> SUFFICES ASSUME BookInv, RouteInv, PendingIsPlanned, GapInv, [Next]_vars
             PROVE  GapInv'
  OBVIOUS
<1>1. ASSUME NEW p \in Procs
      PROVE  PlanFits(p)'
  <2>1. PlanFits(p)
    BY DEF GapInv, PlanFits
  <2> QED
    BY <2>1, PlanFitsStep
<1>2. ASSUME NEW p \in Procs, Alone(p)'
      PROVE  StillCovered(p)'
  <2>1. /\ Alone(p)
        /\ \/ Request(p)
           \/ Rests(p) /\ UNCHANGED broker
           \/ Rests(p) /\ \E i \in DOMAIN book : BrokerFills(i) \/ BrokerCancels(i)
    BY <1>2, AloneStep DEF BookInv
  <2>2. PlanFits(p) /\ StillCovered(p)
    BY <2>1 DEF GapInv, PlanFits, StillCovered
  <2>3. CASE Request(p)
    BY <2>2, <2>3, OwnCover
  <2>4. ASSUME Rests(p), UNCHANGED broker \/ \E i \in DOMAIN book : BrokerFills(i)
        PROVE  StillCovered(p)'
    <3>1. CoverKept(p) => CoverKept(p)'
      BY <2>4, BrokerKeepsCover
    <3>2. UntouchedPlan(p)' => UntouchedPlan(p)
      <4>1. todo[p] \subseteq DOMAIN book
        BY DEF BookInv, TypeOK
      <4>2. \A j \in todo[p] : Withdrawn(j) => Withdrawn(j)'
        <5> SUFFICES ASSUME NEW j \in DOMAIN book, Withdrawn(j)
                     PROVE  Withdrawn(j)'
          BY <4>1
        <5>1. CASE UNCHANGED broker
          BY <5>1 DEF broker, Withdrawn
        <5>2. ASSUME NEW i \in DOMAIN book, BrokerFills(i)
              PROVE  Withdrawn(j)'
          BY <5>2, WithdrawnStays
        <5> QED
          BY <2>4, <5>1, <5>2
      <4> QED
        BY <2>4, <4>2 DEF UntouchedPlan, Rests
    <3> QED
      BY <2>2, <2>4, <3>1, <3>2 DEF StillCovered, Rests, Submitted
  <2>5. ASSUME Rests(p), NEW k \in DOMAIN book, BrokerCancels(k)
        PROVE  StillCovered(p)'
    BY <2>1, <2>2, <2>5, CancelTouchesPlan
  <2> QED
    BY <2>1, <2>3, <2>4, <2>5
<1> QED
  BY <1>1, <1>2 DEF GapInv, PlanFits, StillCovered

\* At first no request has planned.
LEMMA GapInit == Init => GapInv
BY DEF Init, GapInv, Submitted

\* A request that planned, worked alone on the symbol and answers without a critical
\* protection gap leaves no more shares without a stop than it found, beside those bought.
THEOREM GapsAreReported == Spec => []GapIsReported
<1>1. BookInv /\ RouteInv /\ GapInv => GapIsReported
  <2> SUFFICES ASSUME BookInv, RouteInv, GapInv, NEW p \in Procs,
                      pc[p] = "done", report[p].status # "blocked", ~report[p].gap, Alone(p), ~GaveUpOnCancel(p)
               PROVE  Uncovered(held) <= exposed[p] + Bought
    BY DEF GapIsReported
  <2>1. Amounts /\ held \in Nat /\ exposed[p] \in Nat /\ report[p].status \in ReportStatus
    BY AmountsAreNumbers DEF BookInv, TypeOK
  <2>2. ASSUME report[p].status = "blocked_cancel_failed"
        PROVE  CoverKept(p)
    <3>1. UntouchedPlan(p)
      BY <2>2 DEF RouteInv, GaveUpOnCancel, UntouchedPlan
    <3> QED
      BY <2>2, <3>1 DEF GapInv
  <2>3. ASSUME report[p].status # "blocked_cancel_failed"
        PROVE  CoverKept(p)
    <3>1. Submitted(p)
      BY <2>1, <2>3 DEF RouteInv, ReportStatus, Submitted
    <3> QED
      BY <3>1 DEF GapInv
  <2>4. CoverKept(p)
    BY <2>2, <2>3
  <2>5. CoveredQuantity("stop") \in Nat /\ Bought \in Nat
    BY <2>1 DEF Amounts, Types
  <2> QED
    BY <2>1, <2>4, <2>5 DEF CoverKept, Uncovered
<1>2. VerifiedInv => RouteInv /\ PendingIsPlanned
  BY DEF VerifiedInv
<1> QED
  BY <1>1, <1>2, BookInit, VerifiedInit, GapInit, BookStep, VerifiedStep, GapStep, PTL DEF Spec
=============================================================================
