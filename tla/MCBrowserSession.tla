-------------------------- MODULE MCBrowserSession --------------------------
(* Instances of BrowserSession for TLC. *)
EXTENDS BrowserSession

CONSTANTS r1, r2, r3, d1, d2
=============================================================================
