--------------------------- MODULE MCSimulatedFills ---------------------------
(* Instances of SimulatedFills for TLC. *)
EXTENDS SimulatedFills

\* An order of one share that shall fail, and a status answer about two shares.
Failing == [o \in Orders |-> "FAIL"]
OneShare == [o \in Orders |-> 1]
=============================================================================
