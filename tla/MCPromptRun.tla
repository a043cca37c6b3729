---------------------------- MODULE MCPromptRun ----------------------------
(* Instances of PromptRun for TLC. *)
EXTENDS PromptRun

CONSTANTS q1, q2, t1, t2
=============================================================================
