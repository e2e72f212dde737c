---------------------------- MODULE BrokerAccount ----------------------------
(***************************************************************************)
(* The brokerage account that order admission, broker cleanup and broker   *)
(* state reports share.  The service sees it through three requests of the *)
(* adapter (get_account, get_positions, get_open_orders) and changes it by *)
(* placing and cancelling orders; every request is answered from the       *)
(* account as it is at that moment, and no two of them are one step.       *)
(*                                                                         *)
(* An entry order and the exits it gives rise to are one deal: the entry   *)
(* rests, fills as a whole, and its shares are then protected by a take    *)
(* profit with a nested stop; when one of the two is cancelled both are.   *)
(* A deal from before may be protected by a stop of its own.               *)
(***************************************************************************)
EXTENDS Integers, FiniteSets

CONSTANTS
  Orders,    \* entry orders the service may be asked to place
  Holdings,  \* deals whose position is held from the beginning
  Symbols,
  SymbolOf,  \* the symbol of each deal
  Cost,      \* the buying power a deal binds
  Funds,     \* the buying power in the beginning
  Ages       \* the minutes for which an order may have been open (a bound)

Deals == Orders \cup Holdings

ASSUME AccountAssumption ==
  /\ Orders \cap Holdings = {}
  /\ SymbolOf \in [Deals -> Symbols]
  /\ Cost \in [Deals -> Nat]
  /\ Funds \in Nat
  /\ Ages \subseteq Nat /\ 0 \in Ages

VARIABLES
  deal,       \* per deal: its phase, and of the order that is open now: its age, and
              \* is it being cancelled?
  buyingPower

account == <<deal, buyingPower>>

\* "new": not placed; "entry": the entry order is open; "exits": held, take
\* profit and nested stop open; "stop": held, a stop open; "bare": held, no order
\* open; "closed": neither shares nor orders are left
Phase == {"new", "entry", "exits", "stop", "bare", "closed"}
OpenPhase == {"entry", "exits", "stop"}
HeldPhase == {"exits", "stop", "bare"}

AccountOK ==
  /\ deal \in [Deals -> [phase : Phase, age : Ages, cancelling : BOOLEAN]]
  /\ \A d \in Deals : deal[d].phase \notin OpenPhase => deal[d].age = 0 /\ ~deal[d].cancelling
  /\ buyingPower \in Nat

AccountInit ==
  /\ deal \in [Deals -> [phase : Phase, age : Ages, cancelling : {FALSE}]]
  /\ \A o \in Orders : deal[o] = [phase |-> "new", age |-> 0, cancelling |-> FALSE]
  /\ \A h \in Holdings : deal[h].phase \in {"exits", "stop"}
  /\ buyingPower = Funds

\* get_open_orders: an order is open until its cancellation took effect.
OpenDeals == {d \in Deals : deal[d].phase \in OpenPhase}
OpenSymbols == {SymbolOf[d] : d \in OpenDeals}
\* get_positions.
HeldDeals == {d \in Deals : deal[d].phase \in HeldPhase}

\* The age of an open order against a limit in minutes; a limit that is not positive is
\* none.  Preflight and cleanup have limits of their own.
OlderThan(d, limit) == limit > 0 /\ deal[d].age > limit

----------------------------------------------------------------------------
(* What happens to the account by itself. *)

Enter(d, phase, age) ==
  deal' = [deal EXCEPT ![d] = [phase |-> phase, age |-> age, cancelling |-> FALSE]]

\* An order without a usable time of submission counts as young: it never does this.
OrderAges(d) ==
  /\ d \in OpenDeals
  /\ \E older \in Ages : older > deal[d].age /\ deal' = [deal EXCEPT ![d].age = older]
  /\ UNCHANGED buyingPower

\* The exits of an entry may count as old as the entry was.  A fill may come
\* while a cancellation is pending.
EntryFills(d) ==
  /\ deal[d].phase = "entry"
  /\ \E age \in {0, deal[d].age} : Enter(d, "exits", age)
  /\ UNCHANGED buyingPower

\* A take profit or a stop fills.
ExitFills(d) ==
  /\ deal[d].phase \in {"exits", "stop"}
  /\ Enter(d, "closed", 0)
  /\ buyingPower' = buyingPower + Cost[d]

\* A cancellation takes effect, or the day of an entry order ends.
OrderEnds(d) ==
  \/ /\ deal[d].phase = "entry"
     /\ Enter(d, "closed", 0)
     /\ buyingPower' = buyingPower + Cost[d]
  \/ /\ deal[d].phase \in {"exits", "stop"} /\ deal[d].cancelling
     /\ Enter(d, "bare", 0)
     /\ UNCHANGED buyingPower

AccountMoves ==
  \E d \in Deals : OrderAges(d) \/ EntryFills(d) \/ ExitFills(d) \/ OrderEnds(d)

----------------------------------------------------------------------------
(* What the service asks for. *)

\* The broker takes an order it can fund.
Affordable(o) == Cost[o] <= buyingPower
Accept(o) ==
  /\ deal[o].phase = "new" /\ Affordable(o)
  /\ Enter(o, "entry", 0)
  /\ buyingPower' = buyingPower - Cost[o]

\* DELETE /v2/orders/{id} for the order deal d had open in a phase: taken, if
\* that order is still open and not being cancelled.
Cancellable(d, phase) == deal[d].phase = phase /\ ~deal[d].cancelling
Cancel(d) ==
  /\ deal' = [deal EXCEPT ![d].cancelling = TRUE]
  /\ UNCHANGED buyingPower
=============================================================================
