----------------------------- MODULE MCAdapter -----------------------------
(***************************************************************************)
(* Instances of Adapter for TLC.                                           *)
(***************************************************************************)
EXTENDS Adapter

CONSTANTS below, above, client
=============================================================================
