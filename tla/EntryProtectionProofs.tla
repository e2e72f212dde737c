------------------------ MODULE EntryProtectionProofs ------------------------
(***************************************************************************)
(* Proofs about EntryProtection: what rounding does to a price, for any    *)
(* two ticks of which the coarse one is a multiple of the fine one and the *)
(* dollar of the coarse one, and what that means for a bracket.            *)
(***************************************************************************)
EXTENDS EntryProtection, TLAPS

----------------------------------------------------------------------------
(* Rounding to one tick. *)

\* Division with remainder.
LEMMA Division ==
  ASSUME NEW x \in Nat, NEW q \in Nat \ {0}
  PROVE  /\ x \div q \in Nat
         /\ x % q \in 0 .. q - 1
         /\ x = (x \div q) * q + (x % q)
OBVIOUS

\* A multiple of q is what the division gives, times q.
LEMMA Multiple ==
  ASSUME NEW x \in Nat, NEW q \in Nat \ {0}, x % q = 0
  PROVE  x = (x \div q) * q
BY Division

\* Half of an even tick, doubled, is the tick.
LEMMA Half ==
  ASSUME NEW q \in Nat \ {0}, q % 2 = 0
  PROVE  q \div 2 \in Nat /\ 2 * (q \div 2) = q
OBVIOUS

\* A rounded price is a natural number and a multiple of the tick.
LEMMA RoundedIsMultiple ==
  ASSUME NEW x \in Nat, NEW q \in Nat \ {0}
  PROVE  Rounded(x, q) \in Nat /\ Rounded(x, q) % q = 0
<1>1. q \div 2 \in Nat
  OBVIOUS
<1>2. (x + q \div 2) \div q \in Nat
  BY <1>1, Division
<1>3. \A k \in Nat : k * q \in Nat /\ (k * q) % q = 0
  OBVIOUS
<1> QED
  BY <1>2, <1>3 DEF Rounded

\* Rounding moves a price by half a tick at most.
LEMMA RoundedIsNear ==
  ASSUME NEW x \in Nat, NEW q \in Nat \ {0}, q % 2 = 0
  PROVE  2 * (Rounded(x, q) - x) <= q /\ 2 * (x - Rounded(x, q)) <= q
<1> DEFINE h == q \div 2
<1>1. h \in Nat /\ 2 * h = q
  BY Half
<1>2. x + h \in Nat
  BY <1>1
<1>3. (x + h) % q \in 0 .. q - 1 /\ x + h = ((x + h) \div q) * q + ((x + h) % q)
  BY <1>2, Division
<1>4. PICK r \in 0 .. q - 1 : x + h = Rounded(x, q) + r
  BY <1>3 DEF Rounded
<1>5. Rounded(x, q) \in Nat
  BY RoundedIsMultiple
<1> HIDE DEF h
<1> QED
  BY <1>1, <1>4, <1>5

\* Rounding to one tick keeps the order of prices.
LEMMA RoundedIsMonotone ==
  ASSUME NEW x \in Nat, NEW y \in Nat, NEW q \in Nat \ {0}, x <= y
  PROVE  Rounded(x, q) <= Rounded(y, q)
<1> DEFINE a == (x + q \div 2) \div q
           b == (y + q \div 2) \div q
<1>1. q \div 2 \in Nat
  OBVIOUS
<1>2. \A m, n \in Nat : m <= n => m \div q <= n \div q
  OBVIOUS
<1>3. a \in Nat /\ b \in Nat /\ a <= b
  BY <1>1, <1>2, Division
<1> HIDE DEF a, b
<1>4. a * q <= b * q
  BY <1>3
<1> QED
  BY <1>4 DEF Rounded, a, b

\* Rounding leaves a multiple of the tick alone.
LEMMA RoundedKeepsMultiples ==
  ASSUME NEW x \in Nat, NEW q \in Nat \ {0}, x % q = 0
  PROVE  Rounded(x, q) = x
<1> DEFINE h == q \div 2
           k == x \div q
<1>1. h \in Nat /\ h < q
  OBVIOUS
<1>2. k \in Nat /\ x = k * q
  BY Multiple, Division
<1> HIDE DEF h, k
<1>3. (k * q + h) \div q = k
  BY <1>1, <1>2
<1> QED
  BY <1>2, <1>3 DEF Rounded, h

----------------------------------------------------------------------------
(* The two ticks. *)

\* The fine tick divides the coarse one and the dollar; both ticks are even.
LEMMA Ticks ==
  /\ SubCent \in Nat \ {0} /\ Cent \in Nat \ {0} /\ Dollar \in Nat \ {0}
  /\ SubCent <= Cent
  /\ SubCent % 2 = 0 /\ Cent % 2 = 0
  /\ Dollar % SubCent = 0 /\ Dollar % Cent = 0
<1> USE TickAssumption
<1> DEFINE h == SubCent \div 2
           c == Cent \div SubCent
           d == Dollar \div Cent
<1>1. h \in Nat /\ SubCent = 2 * h
  BY Half
<1>2. c \in Nat /\ d \in Nat /\ Cent = c * SubCent /\ Dollar = d * Cent
  BY Multiple, Division
<1> HIDE DEF h, c, d
<1>3. c # 0
  BY <1>2
<1>4. SubCent <= Cent
  BY <1>2, <1>3
<1>5. Cent = 2 * (c * h)
  BY <1>1, <1>2
<1>6. Cent % 2 = 0
  <2> DEFINE k == c * h
  <2>1. k \in Nat
    BY <1>1, <1>2
  <2>2. \A n \in Nat : (2 * n) % 2 = 0
    OBVIOUS
  <2> QED
    BY <1>5, <2>1, <2>2
<1>7. Dollar = (d * c) * SubCent
  BY <1>2
<1>8. Dollar % SubCent = 0
  <2> DEFINE k == d * c
  <2>1. k \in Nat
    BY <1>2
  <2>2. \A n \in Nat : (n * SubCent) % SubCent = 0
    OBVIOUS
  <2> QED
    BY <1>7, <2>1, <2>2
<1> QED
  BY <1>4, <1>6, <1>8

\* Either tick is one of the two.
LEMMA TickIsTick ==
  ASSUME NEW x \in Nat
  PROVE  Tick(x) \in Nat \ {0} /\ Tick(x) % 2 = 0 /\ Tick(x) <= Cent
BY Ticks DEF Tick

\* Below the dollar a price is rounded to the dollar at most, from the dollar on to
\* the dollar at least.
LEMMA DollarIsABarrier ==
  ASSUME NEW x \in Nat
  PROVE  /\ x < Dollar => alpaca_price(x) <= Dollar
         /\ x >= Dollar => alpaca_price(x) >= Dollar
<1>1. Rounded(Dollar, SubCent) = Dollar /\ Rounded(Dollar, Cent) = Dollar
  BY Ticks, RoundedKeepsMultiples
<1>2. x < Dollar => Rounded(x, SubCent) <= Rounded(Dollar, SubCent)
  BY Ticks, RoundedIsMonotone
<1>3. x >= Dollar => Rounded(Dollar, Cent) <= Rounded(x, Cent)
  BY Ticks, RoundedIsMonotone
<1>4. Rounded(x, Cent) \in Nat /\ Rounded(x, SubCent) \in Nat
  BY Ticks, RoundedIsMultiple
<1> QED
  BY <1>1, <1>2, <1>3, <1>4, Ticks DEF alpaca_price, Tick

\* A rounded price is a natural number, and a multiple of the tick that holds where it
\* has come to lie.
LEMMA PriceIsTick ==
  ASSUME NEW x \in Nat
  PROVE  alpaca_price(x) \in Nat /\ alpaca_price(x) % Tick(alpaca_price(x)) = 0
<1>1. Rounded(x, Tick(x)) \in Nat /\ Rounded(x, Tick(x)) % Tick(x) = 0
  BY TickIsTick, RoundedIsMultiple
<1>2. CASE x >= Dollar
  BY <1>1, <1>2, DollarIsABarrier, Ticks DEF alpaca_price, Tick
<1>3. CASE x < Dollar /\ alpaca_price(x) < Dollar
  BY <1>1, <1>3, Ticks DEF alpaca_price, Tick
<1>4. CASE x < Dollar /\ alpaca_price(x) = Dollar
  BY <1>1, <1>4, Ticks DEF alpaca_price, Tick
<1> QED
  BY <1>1, <1>2, <1>3, <1>4, DollarIsABarrier, Ticks DEF alpaca_price

\* No price moves by more than half its tick.
LEMMA PriceIsNear ==
  ASSUME NEW x \in Nat
  PROVE  /\ 2 * (alpaca_price(x) - x) <= Tick(x)
         /\ 2 * (x - alpaca_price(x)) <= Tick(x)
BY TickIsTick, RoundedIsNear DEF alpaca_price

\* Rounding keeps the order of prices, also across the dollar.
LEMMA PriceIsMonotone ==
  ASSUME NEW x \in Nat, NEW y \in Nat, x <= y
  PROVE  alpaca_price(x) <= alpaca_price(y)
<1>1. Tick(x) = Tick(y) => Rounded(x, Tick(x)) <= Rounded(y, Tick(x))
  BY TickIsTick, RoundedIsMonotone
<1>2. CASE Tick(x) = Tick(y)
  BY <1>1, <1>2 DEF alpaca_price
<1>3. CASE Tick(x) # Tick(y)
  <2>1. x < Dollar /\ y >= Dollar
    BY <1>3, Ticks DEF Tick
  <2> QED
    BY <2>1, DollarIsABarrier, PriceIsTick, Ticks
<1> QED
  BY <1>2, <1>3

\* A rounded price is among the prices that may be sent.
LEMMA PriceMayBeSent ==
  ASSUME NEW x \in Prices
  PROVE  alpaca_price(x) \in SentPrices
<1>1. x \in Nat /\ x <= MaxPrice /\ MaxPrice \in Nat
  BY TickAssumption DEF Prices
<1>2. Cent \div 2 \in Nat /\ 2 * (Cent \div 2) = Cent
  BY Ticks, Half
<1>3. Tick(x) \in Nat /\ Tick(x) <= Cent
  BY <1>1, TickIsTick
<1>4. 2 * (alpaca_price(x) - x) <= Tick(x) /\ alpaca_price(x) \in Nat
  BY <1>1, PriceIsNear, PriceIsTick
<1> QED
  BY <1>1, <1>2, <1>3, <1>4, Ticks DEF SentPrices
----------------------------------------------------------------------------
(* The payload. *)

\* A bracket is the one of the order and of its plan, and that plan was valid.
BracketOfPlan ==
  payload.kind = "bracket" =>
    /\ ValidPlan(order, protection_plan(order))
    /\ payload = Bracket(order, protection_plan(order))

PayloadInv == TypeOK /\ BracketOfPlan

\* The fields of an order and of its plan that prices come from.
LEMMA PricesOfOrder ==
  ASSUME TypeOK
  PROVE  /\ order.price \in Prices /\ order.side \in {"buy", "sell"}
         /\ protection_plan(order).stop \in Prices
         /\ protection_plan(order).takeProfit \in Prices
<1>1. 0 \in Prices
  BY TickAssumption DEF Prices
<1>2. order.guard_plan.stop \in Prices /\ order.guard_plan.takeProfit \in Prices
  BY <1>1 DEF TypeOK, Plan, NoPlan
<1>3. order.protective_exit.stop \in Prices /\ order.protective_exit.takeProfit \in Prices
  BY <1>1, <1>2 DEF TypeOK, Plan, NoPlan, Envelope
<1> QED
  BY <1>2, <1>3 DEF TypeOK, protection_plan

\* At first nothing has been sent.
LEMMA InitialPayload == Init => PayloadInv
<1> SUFFICES ASSUME Init PROVE PayloadInv
  OBVIOUS
<1>1. 0 \in Prices /\ 0 \in SentPrices
  BY Ticks, Half, TickAssumption DEF Prices, SentPrices
<1>2. payload \in Payload /\ payload.kind = "none"
  BY <1>1 DEF Init, Unsent, Payload
<1>3. NoExit \in Exit
  BY DEF NoExit, Exit
<1>4. order \in [side : {"buy", "sell"}, type : {"market", "limit"}, price : Prices,
                  protective_exit : Plan \cup {NoPlan, Envelope(order.guard_plan)},
                  guard_plan : Plan \cup {NoPlan}, exit : Exit, trade_plan : BOOLEAN]
  <2>1. PICK entry \in Entry, plan \in Plan :
          \/ \E exit \in Exit : order = Order(entry, plan, NoPlan, exit, FALSE)
          \/ order = Order(entry, NoPlan, plan, NoExit, FALSE)
          \/ order = to_order_request(entry, plan)
    BY DEF Init
  <2>2. entry.side \in {"buy", "sell"} /\ entry.type \in {"market", "limit"} /\ entry.price \in Prices
    BY DEF Entry
  <2>3. CASE \E exit \in Exit : order = Order(entry, plan, NoPlan, exit, FALSE)
    BY <2>2, <2>3 DEF Order
  <2>4. CASE order = Order(entry, NoPlan, plan, NoExit, FALSE)
    BY <1>3, <2>2, <2>4 DEF Order
  <2>5. CASE order = to_order_request(entry, plan)
    <3>1. order = Order(entry, Envelope(plan), plan, NoExit, TRUE)
      BY <2>5 DEF to_order_request
    <3>2. order.guard_plan = plan
      BY <3>1 DEF Order
    <3> QED
      BY <1>3, <2>2, <3>1, <3>2 DEF Order
  <2> QED
    BY <2>1, <2>3, <2>4, <2>5
<1> QED
  BY <1>2, <1>4 DEF PayloadInv, TypeOK, BracketOfPlan

\* Building the payload keeps the invariant.
LEMMA NextPayload == PayloadInv /\ [Next]_vars => PayloadInv'
<1> SUFFICES ASSUME PayloadInv, [Next]_vars PROVE PayloadInv'
  OBVIOUS
<1> DEFINE plan == protection_plan(order)
<1>1. 0 \in SentPrices
  BY Ticks, Half, TickAssumption DEF SentPrices
<1>2. Bracket(order, plan) \in Payload
  BY <1>1, PricesOfOrder, PriceMayBeSent DEF PayloadInv, Bracket, Payload
<1>3. Unsent("refused") \in Payload /\ Unsent("close") \in Payload
  BY <1>1 DEF Unsent, Payload
<1>4. Unsent("refused").kind # "bracket" /\ Unsent("close").kind # "bracket"
  BY DEF Unsent
<1>5. CASE BuildPayload
  <2>1. order' = order
    BY <1>5 DEF BuildPayload
  <2>2. \/ payload' \in {Unsent("refused"), Unsent("close")}
        \/ ValidPlan(order, plan) /\ payload' = Bracket(order, plan)
    BY <1>5 DEF BuildPayload
  <2>3. TypeOK'
    BY <1>2, <1>3, <2>1, <2>2 DEF PayloadInv, TypeOK
  <2>4. BracketOfPlan'
    BY <1>4, <2>1, <2>2 DEF BracketOfPlan
  <2> QED
    BY <2>3, <2>4 DEF PayloadInv
<1>6. CASE UNCHANGED vars
  BY <1>6 DEF vars, PayloadInv, TypeOK, BracketOfPlan
<1> QED
  BY <1>5, <1>6 DEF Next

\* So it always holds.
LEMMA PayloadInvariant == Spec => []PayloadInv
BY InitialPayload, NextPayload, PTL DEF Spec

\* Type correctness of what place_order is handed and of what leaves for the broker: no
\* rounded price exceeds the largest price by more than half the coarse tick.
THEOREM PayloadTypes == Spec => []TypeOK
<1>1. PayloadInv => TypeOK
  BY DEF PayloadInv
<1> QED
  BY <1>1, PayloadInvariant, PTL

\* A bracket around a limit price is never inverted by rounding its three prices apart,
\* wherever they lie and whatever the ticks (_build_alpaca_payload, _alpaca_price).
THEOREM SidesKept == Spec => []RoundingKeepsSides
<1>1. PayloadInv => RoundingKeepsSides
  <2> DEFINE plan == protection_plan(order)
  <2> SUFFICES ASSUME PayloadInv, Priced
               PROVE  IF order.side = "buy"
                      THEN payload.stop <= payload.limit /\ payload.limit <= payload.takeProfit
                      ELSE payload.stop >= payload.limit /\ payload.limit >= payload.takeProfit
    BY DEF RoundingKeepsSides
  <2>1. order.price \in Nat /\ plan.stop \in Nat /\ plan.takeProfit \in Nat
    BY PricesOfOrder, TickAssumption DEF PayloadInv, Prices
  <2>2. payload = Bracket(order, plan) /\ Between(order, plan.stop, order.price, plan.takeProfit)
    BY DEF PayloadInv, BracketOfPlan, Priced, ValidPlan, Straddles
  <2>3. /\ payload.limit = alpaca_price(order.price)
        /\ payload.stop = alpaca_price(plan.stop)
        /\ payload.takeProfit = alpaca_price(plan.takeProfit)
    BY <2>2 DEF Bracket, Priced
  <2> HIDE DEF plan
  <2>4. CASE order.side = "buy"
    <3>1. plan.stop <= order.price /\ order.price <= plan.takeProfit
      BY <2>1, <2>2, <2>4 DEF Between
    <3> QED
      BY <2>1, <2>3, <2>4, <3>1, PriceIsMonotone
  <2>5. CASE order.side # "buy"
    <3>1. order.price <= plan.stop /\ plan.takeProfit <= order.price
      BY <2>1, <2>2, <2>5 DEF Between
    <3>2. alpaca_price(order.price) <= alpaca_price(plan.stop)
      BY <2>1, <3>1, PriceIsMonotone
    <3>3. alpaca_price(plan.takeProfit) <= alpaca_price(order.price)
      BY <2>1, <3>1, PriceIsMonotone
    <3>4. /\ alpaca_price(plan.takeProfit) \in Nat /\ alpaca_price(order.price) \in Nat
          /\ alpaca_price(plan.stop) \in Nat
      BY <2>1, PriceIsTick
    <3> QED
      BY <2>3, <2>5, <3>2, <3>3, <3>4
  <2> QED
    BY <2>4, <2>5
<1> QED
  BY <1>1, PayloadInvariant, PTL

\* The stop and the take profit that are sent are multiples of the tick that holds for
\* them, though rounding may carry them across the dollar, and half a tick away from
\* the order's prices at most (_alpaca_price).
THEOREM SentPricesTicks == Spec => []SentPricesAreTicks
<1>1. PayloadInv => SentPricesAreTicks
  <2> DEFINE plan == protection_plan(order)
  <2> SUFFICES ASSUME PayloadInv, payload.kind = "bracket"
               PROVE  \A sent \in {<<payload.stop, plan.stop>>, <<payload.takeProfit, plan.takeProfit>>} :
                        /\ sent[1] % Tick(sent[1]) = 0
                        /\ 2 * (sent[1] - sent[2]) <= Tick(sent[2])
                        /\ 2 * (sent[2] - sent[1]) <= Tick(sent[2])
    BY DEF SentPricesAreTicks
  <2>1. plan.stop \in Nat /\ plan.takeProfit \in Nat
    BY PricesOfOrder, TickAssumption DEF PayloadInv, Prices
  <2>2. payload.stop = alpaca_price(plan.stop) /\ payload.takeProfit = alpaca_price(plan.takeProfit)
    BY DEF PayloadInv, BracketOfPlan, Bracket
  <2> HIDE DEF plan
  <2> QED
    BY <2>1, <2>2, PriceIsTick, PriceIsNear
<1> QED
  BY <1>1, PayloadInvariant, PTL
=============================================================================
