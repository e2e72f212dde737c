---------------------------- MODULE MCAccountTraffic ----------------------------
(* Instances of AccountTraffic for TLC. *)
EXTENDS AccountTraffic, TLC

CONSTANTS b1, b2, w

\* Two orders and an old deal share a symbol, the third order has one of its own.
Symbol == [o1 |-> "AAA", o2 |-> "AAA", o3 |-> "BBB", h |-> "AAA"]
Price == [o1 |-> 1, o2 |-> 2, o3 |-> 1, h |-> 1]
Bucket == [o1 |-> "unassigned", o2 |-> "news_momentum", o3 |-> "news_momentum"]

\* Two batches and a worker, or one batch at a time that executes its orders.
Supported ==
  {[batches |-> {b1, b2}, workers |-> {w}, processNow |-> FALSE],
   [batches |-> {b1}, workers |-> {}, processNow |-> TRUE],
   [batches |-> {b2}, workers |-> {}, processNow |-> TRUE]}

\* The batch requests are interchangeable.
Symmetry == Permutations({b1, b2})
=============================================================================
