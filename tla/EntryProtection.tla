--------------------------- MODULE EntryProtection ---------------------------
(***************************************************************************)
(* What AlpacaAdapter sends for an order.  An entry must carry a stop and  *)
(* a take profit (a bracket); an order that claims to be a profit-lifecycle*)
(* exit is sent to the close-position endpoint instead, under a contract   *)
(* of its own.  An order that satisfies neither is refused unsent.  Prices *)
(* are validated as they come and rounded afterwards.                      *)
(*                                                                         *)
(* Prices are counted in units below the finest tick.  A price of 0 stands *)
(* for a field that is missing.                                            *)
(***************************************************************************)
EXTENDS Integers

CONSTANTS
  MaxPrice, \* the largest price
  Dollar,   \* units of one dollar
  Cent,     \* units of the tick from one dollar on
  SubCent   \* units of the tick below one dollar

ASSUME TickAssumption ==
  /\ MaxPrice \in Nat /\ SubCent \in Nat \ {0} /\ Cent \in Nat \ {0} /\ Dollar \in Nat \ {0}
  /\ SubCent % 2 = 0 /\ Cent % SubCent = 0 /\ Dollar % Cent = 0

Prices == 0 .. MaxPrice

\* agrees: the plan's symbol and quantity are those of the order.
Plan == [agrees : BOOLEAN, side : {"buy", "sell"}, stop : Prices, takeProfit : Prices]
NoPlan == [agrees |-> FALSE, side |-> "none", stop |-> 0, takeProfit |-> 0]
\* Does protective_exit declare a profit-lifecycle exit, by type or by a reduce_only_intent,
\* and does its contract (intent, decision, position and correlation ids) hold?
Exit == [claimed : BOOLEAN, contract : BOOLEAN]
NoExit == [claimed |-> FALSE, contract |-> FALSE]
Entry == [side : {"buy", "sell"}, type : {"market", "limit"}, price : Prices]

Order(entry, protective_exit, guard_plan, exit, trade_plan) ==
  [side |-> entry.side, type |-> entry.type, price |-> entry.price, protective_exit |-> protective_exit,
   guard_plan |-> guard_plan, exit |-> exit, trade_plan |-> trade_plan]

\* TradePlanExecutionRequest.to_order_request: the exit envelope of the trade plan, dumped
\* whole, becomes protective_exit.  It has no side, and its stop goes by the name stop_loss,
\* which no reader of a protective plan looks for.
Envelope(guard_plan) ==
  [agrees |-> TRUE, side |-> "none", stop |-> 0, takeProfit |-> guard_plan.takeProfit]
to_order_request(entry, guard_plan) ==
  Order(entry, Envelope(guard_plan), guard_plan, NoExit, TRUE)

\* Rounding adds half a tick at most.
SentPrices == 0 .. MaxPrice + Cent \div 2
Payload ==
  [kind : {"none", "refused", "bracket", "close"},
   limit : SentPrices, stop : SentPrices, takeProfit : SentPrices]

Unsent(kind) == [kind |-> kind, limit |-> 0, stop |-> 0, takeProfit |-> 0]

VARIABLES
  order,  \* the order handed to place_order
  payload \* what leaves for the broker

vars == <<order, payload>>

TypeOK ==
  /\ order \in [side : {"buy", "sell"}, type : {"market", "limit"}, price : Prices,
                protective_exit : Plan \cup {NoPlan, Envelope(order.guard_plan)},
                guard_plan : Plan \cup {NoPlan}, exit : Exit, trade_plan : BOOLEAN]
  /\ payload \in Payload

\* A request carries one plan, in either field; a trade plan carries a guard plan and its
\* envelope.
Init ==
  /\ \E entry \in Entry, plan \in Plan :
       \/ \E exit \in Exit : order = Order(entry, plan, NoPlan, exit, FALSE)
       \/ order = Order(entry, NoPlan, plan, NoExit, FALSE)
       \/ (entry.type = "limit" => entry.price > 0) /\ order = to_order_request(entry, plan)
  /\ payload = Unsent("none")

----------------------------------------------------------------------------
(* An operator whose name ends in _Mutant is a plausible wrong form of the  *)
(* definition after it; no specification uses it.                           *)

Tick(x) == IF x >= Dollar THEN Cent ELSE SubCent
Rounded_Mutant(x, q) == (x \div q + 1) * q
\* ROUND_HALF_UP to a multiple of q.
Rounded(x, q) == ((x + q \div 2) \div q) * q

alpaca_price_Mutant(x) == Rounded(x, IF x >= Dollar THEN SubCent ELSE Cent)
alpaca_price(x) == Rounded(x, Tick(x))

is_profit_lifecycle_exit(o) == o.exit.claimed

ExitContract(o) ==
  o.exit.contract /\ o.side = "sell" /\ o.type = "market" /\ o.protective_exit.agrees

protection_plan(o) == IF o.protective_exit # NoPlan THEN o.protective_exit ELSE o.guard_plan

expected_exit_side(o) == IF o.side = "buy" THEN "sell" ELSE "buy"

\* a, b and c lie in this order for a buy, in the opposite order for a sell.
Between(o, a, b, c) == IF o.side = "buy" THEN a < b /\ b < c ELSE a > b /\ b > c

Straddles_Mutant(o, p) == o.price # 0 => Between(o, p.stop, o.price, o.price + 1)
\* The entry price, if there is one, lies between the stop and the take profit.
Straddles(o, p) == o.price # 0 => Between(o, p.stop, o.price, p.takeProfit)

\* validate_protection_plan with a take profit required.
ValidPlan(o, p) ==
  /\ p.agrees
  /\ p.side = expected_exit_side(o)
  /\ p.stop > 0 /\ p.takeProfit > 0
  /\ Straddles(o, p)

Bracket(o, p) ==
  [kind |-> "bracket",
   limit |-> IF o.type = "limit" THEN alpaca_price(o.price) ELSE 0,
   stop |-> alpaca_price(p.stop),
   takeProfit |-> alpaca_price(p.takeProfit)]

BuildPayload ==
  /\ payload.kind = "none"
  /\ payload' =
       IF is_profit_lifecycle_exit(order)
       THEN Unsent(IF ExitContract(order) THEN "close" ELSE "refused")
       ELSE LET plan == protection_plan(order) IN
            IF ValidPlan(order, plan) THEN Bracket(order, plan) ELSE Unsent("refused")
  /\ UNCHANGED order

Next == BuildPayload

Spec == Init /\ [][Next]_vars

----------------------------------------------------------------------------
(* Properties. *)

\* A bracket around an entry with a limit price.
Priced == payload.kind = "bracket" /\ order.type = "limit" /\ order.price # 0

\* Rounding three prices apart never swaps them: a bracket that was valid may become
\* flat but not inverted, also across the dollar where the tick changes.
RoundingKeepsSides ==
  Priced =>
    IF order.side = "buy"
    THEN payload.stop <= payload.limit /\ payload.limit <= payload.takeProfit
    ELSE payload.stop >= payload.limit /\ payload.limit >= payload.takeProfit

\* What is sent is a price the broker accepts and no further from the order's price
\* than half a tick.
SentPricesAreTicks ==
  payload.kind = "bracket" =>
    LET plan == protection_plan(order) IN
    \A sent \in {<<payload.stop, plan.stop>>, <<payload.takeProfit, plan.takeProfit>>} :
      /\ sent[1] % Tick(sent[1]) = 0
      /\ 2 * (sent[1] - sent[2]) <= Tick(sent[2]) /\ 2 * (sent[2] - sent[1]) <= Tick(sent[2])

\* A trade plan whose guard plan protects its entry is submitted ("Create an execution
\* order from a risk-approved TradePlan").
TradePlanIsSubmittable ==
  order.trade_plan /\ ValidPlan(order, order.guard_plan) => payload.kind # "refused"
=============================================================================
