---------------------------- MODULE MCServerRpc ----------------------------
(***************************************************************************)
(* Instance of ServerRpc for TLC: threads a and b of server 1 (slots 0 and *)
(* 1) and c of server 2 (slot 0).  Two slots for each server and one       *)
(* message of metadata, so that only the first slot of server 1 lies       *)
(* before the data area.  Server 1 makes three calls, one more than there  *)
(* are receives for it.  Client 3 has a mailbox, client 4 is one too many, *)
(* and they write into the memory of server 2: over a request that arrives *)
(* there, a request and an answer of c.                                    *)
(***************************************************************************)
EXTENDS ServerRpc

CONSTANTS a, b, c

MCHome == [t \in {a, b, c} |-> IF t = c THEN 2 ELSE 1]
MCSlot == [t \in {a, b, c} |-> IF t = b THEN 1 ELSE 0]
MCCalls  == <<3, 1>>
MCWrites == <<0, 1>>
=============================================================================
