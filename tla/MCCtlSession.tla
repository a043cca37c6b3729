---------------------------- MODULE MCCtlSession ----------------------------
(* Two prompts, of the TUI or of viv, one key, and room for one frame or   *)
(* message wherever one may wait.                                          *)
EXTENDS CtlSession
=============================================================================
