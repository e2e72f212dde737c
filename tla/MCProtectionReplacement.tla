---------------------- MODULE MCProtectionReplacement ----------------------
(* Instances of ProtectionReplacement for TLC. *)
EXTENDS ProtectionReplacement

Single(type, n, o) == <<[type |-> type, qty |-> n, oco |-> o, status |-> "open"]>>
Pair(n, o) == Single("limit", n, o) \o Single("stop", n, o)
Sizes == 1 .. Quantity

\* No order; one order of any type; two of any types; an OCO, alone or with
\* another order.
AllBooks ==
  {<< >>}
  \cup {Single(t, n, 1) : t \in {"stop", "limit", "buy"}, n \in Sizes}
  \cup {Single(t, n, 1) \o Single(u, m, 2) : t, u \in {"stop", "limit", "buy"}, n, m \in Sizes}
  \cup {Pair(n, 1) : n \in Sizes}
  \cup {Pair(n, 1) \o Single(t, m, 3) : t \in {"stop", "limit", "buy"}, n, m \in Sizes}
=============================================================================
