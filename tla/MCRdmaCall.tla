----------------------------- MODULE MCRdmaCall -----------------------------
(***************************************************************************)
(* Instances of RdmaCall for TLC: who shares a completion queue.           *)
(***************************************************************************)
EXTENDS RdmaCall

CONSTANTS w1, c1, c2

\* All clients on the first worker after worker 0, as with a server of two
\* completion queues (queue 0 is for the other servers).
OneQueue == [c \in Clients |-> w1]
=============================================================================
