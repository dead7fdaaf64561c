---------------------------- MODULE MCSendQueue ----------------------------
(***************************************************************************)
(* Instances of SendQueue for TLC.                                         *)
(***************************************************************************)
EXTENDS SendQueue

CONSTANTS s1, s2
=============================================================================
