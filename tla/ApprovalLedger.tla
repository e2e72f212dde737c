---------------------------- MODULE ApprovalLedger ----------------------------
(***************************************************************************)
(* What order intake promises about risk approvals, without requests, the  *)
(* orders table or failures: an approval is spent at most once, on a trade *)
(* it fits, a trade costs one approval, and what was spent is never taken  *)
(* back or moved to another trade.                                         *)
(***************************************************************************)
CONSTANTS
  Trades,
  Approvals,
  Fits,    \* Fits[a]: the trades approval a fits
  NoTrade  \* what an unspent approval bought

VARIABLE bought  \* per approval: the trade it was spent on

Init == bought = [a \in Approvals |-> NoTrade]

Paid(t) == \E a \in Approvals : bought[a] = t

Spend(a, t) ==
  /\ bought[a] = NoTrade
  /\ t \in Fits[a] /\ ~Paid(t)
  /\ bought' = [bought EXCEPT ![a] = t]

Next == \E a \in Approvals, t \in Trades : Spend(a, t)

Spec == Init /\ [][Next]_bought
=============================================================================
