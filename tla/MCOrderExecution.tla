-------------------------- MODULE MCOrderExecution --------------------------
(* Instances of OrderExecution for TLC. *)
EXTENDS OrderExecution, TLC

\* Orders are interchangeable, and so are the processes of one kind.
Symmetry ==
  Permutations(Orders) \cup Permutations(Loops) \cup Permutations(Routes)
    \cup Permutations(Batches)
=============================================================================
