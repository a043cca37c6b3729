--------------------------- MODULE MCSwitchboard ---------------------------
(* Instances of Switchboard for TLC. *)
EXTENDS Switchboard

CONSTANTS Alice, Mallory

MCAgentIDs == {Alice}
(* Every claimed sender, sequence number and size the checks tell apart: a *)
(* frame that fits the budget on its own and one that cannot.              *)
MCFrames == [from : {Alice, Mallory}, seqNo : 0..2, size : {1, 4}]
=============================================================================
