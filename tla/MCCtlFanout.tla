---------------------------- MODULE MCCtlFanout ----------------------------
(* Instances of CtlFanout for TLC. *)
EXTENDS CtlFanout

CONSTANTS Tui, Bridge, Script
=============================================================================
