--------------------------- MODULE MCOrderIntake ---------------------------
(* Instances of OrderIntake for TLC. *)
EXTENDS OrderIntake, TLC

CONSTANTS a1, a2, t1, t2

\* The first approval fits both trades (same symbol, side and quantity), the second
\* fits the second trade only.
SharedApproval == (a1 :> {t1, t2}) @@ (a2 :> {t2})

Symmetry == Permutations(Requests)
=============================================================================
