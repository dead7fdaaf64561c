---------------------------- MODULE CallService ----------------------------
(***************************************************************************)
(* What a caller of Client::RdmaCall expects: a call that returns has been *)
(* executed by the server exactly once, after it was issued.               *)
(***************************************************************************)
EXTENDS Naturals

CONSTANT Clients

VARIABLES
  status,      \* "idle", "issued" or "executed"
  executions   \* how many requests of the client the server has executed

vars == <<status, executions>>

Init ==
  /\ status = [c \in Clients |-> "idle"]
  /\ executions = [c \in Clients |-> 0]

Move(c, from, to) ==
  status[c] = from /\ status' = [status EXCEPT ![c] = to]

Issue(c) == Move(c, "idle", "issued") /\ UNCHANGED executions

Execute(c) ==
  /\ Move(c, "issued", "executed")
  /\ executions' = [executions EXCEPT ![c] = @ + 1]

Return(c) == Move(c, "executed", "idle") /\ UNCHANGED executions

Next == \E c \in Clients : Issue(c) \/ Execute(c) \/ Return(c)

Spec == Init /\ [][Next]_vars
=============================================================================
