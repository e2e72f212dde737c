------------------------ MODULE MCFillReconciliation ------------------------
(* Instances of FillReconciliation for TLC. *)
EXTENDS FillReconciliation, TLC

\* The processes of one kind are interchangeable; orders are not (the sweep goes by id).
Symmetry ==
  Permutations(Sweepers) \cup Permutations(Readers) \cup Permutations(Submitters)
    \cup Permutations(Cancellers)
=============================================================================
