------------------------- MODULE SubmissionProtocol -------------------------
(***************************************************************************)
(* What order execution promises about the broker, without jobs, processes *)
(* or failures.  An order is reserved before its only request leaves; the  *)
(* request, or the reservation alone, may end without an answer; only an   *)
(* order whose request left can become known by its broker order id.       *)
(***************************************************************************)
EXTENDS Naturals

CONSTANT Orders

VARIABLES
  phase,    \* how far each order got
  requests  \* how many requests for it left for the broker

Phase == {"open", "reserved", "requested", "known"}

TypeOK ==
  /\ phase \in [Orders -> Phase]
  /\ requests \in [Orders -> Nat]

Init ==
  /\ phase = [o \in Orders |-> "open"]
  /\ requests = [o \in Orders |-> 0]

Move(o, from, to) ==
  /\ phase[o] = from
  /\ phase' = [phase EXCEPT ![o] = to]

Reserve(o) == Move(o, "open", "reserved") /\ UNCHANGED requests

Request(o) ==
  /\ Move(o, "reserved", "requested")
  /\ requests' = [requests EXCEPT ![o] = @ + 1]

LearnId(o) == Move(o, "requested", "known") /\ UNCHANGED requests

Next == \E o \in Orders : Reserve(o) \/ Request(o) \/ LearnId(o)

Spec == Init /\ [][Next]_<<phase, requests>>
=============================================================================
