---------------------------- MODULE MCConnection ----------------------------
(***************************************************************************)
(* Instances of Connection: two servers and two clients, so that a client  *)
(* is named by one server and known to the other under that name.          *)
(***************************************************************************)
EXTENDS Connection

CONSTANTS c1, c2
=============================================================================
