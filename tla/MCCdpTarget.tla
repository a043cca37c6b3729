---------------------------- MODULE MCCdpTarget ----------------------------
(* Instances of CdpTarget for TLC.  The reads are alike: permuting them     *)
(* permutes the behaviours.                                                *)
EXTENDS CdpTarget, TLC

CONSTANTS First, Second

Alike == Permutations(Reads)
=============================================================================
