------------------------- MODULE MCCapabilityCalls -------------------------
(* Instances of CapabilityCalls for TLC. *)
EXTENDS CapabilityCalls

CONSTANTS c1, c2, p1, p2

MCAgentIDs == {Agent}
MCFrames ==
  [from : {Agent}, seqNo : 0..4, size : {RequestSize, EventSize},
   kind : {"request", "event"}, call : Calls \cup {NoCall}]

(* A call in each of two successive Wards. *)
TwoWards(c) == IF c = c1 THEN p1 ELSE p2
=============================================================================
