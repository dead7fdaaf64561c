----------------------------- MODULE ServerRpc -----------------------------
(***************************************************************************)
(* Calls between servers: the isServer branch of Client::RdmaCall, and the *)
(* server's side of it, over the layout of the shared memory.              *)
(*                                                                         *)
(* A calling thread has a slot number (th2id).  Its request goes from its  *)
(* slot of the send pool to a slot of the receive pool of the called       *)
(* server, in the row of the CALLER; the reply goes back to the slot at    *)
(* the same address of the caller's memory, where the caller spins, with   *)
(* no timeout.  Requests and replies of all threads of two servers share   *)
(* one queue pair, and worker 0 serves all other servers.  Clients write   *)
(* into the same memory: their mailboxes and the data area; and a worker's *)
(* reply to a client is copied over the client's mailbox first.            *)
(***************************************************************************)
EXTENDS MemoryLayout, Sequences, FiniteSets, FiniteSetsExt, SequencesExt

CONSTANTS
  Threads, Home, Slot,  \* calling threads, their servers and slot numbers
  ClientIDs,            \* the clients' NodeIDs
  RecvDepth,            \* receives posted for each peer (QPS_MAX_DEPTH)
  FillSize,             \* bytes of data storage that are filled at the start
  MaxCalls,             \* bound: calls of each server
  MaxWrites             \* bound: writes of clients into each server's memory

\* Threads of a server have called setID with different numbers, and there are no
\* more of them than receives.  There are no more clients than NodeIDs (uint16_t),
\* and the mailbox of the last begins before the receive pool: a reply to a client
\* beyond it would be written where a thread waits for its own.  The receive pool,
\* counted once with the send pool, ends in the memory that is allocated (DataSize
\* is in GB, and as many KB of it are filled).
ASSUME RpcAssumption ==
  /\ MessageSize = 1    \* a cell of the memory holds a message
  /\ IsFiniteSet(Threads)
  /\ Home \in [Threads -> Servers] /\ Slot \in [Threads -> Offsets]
  /\ \A t, u \in Threads : Home[t] = Home[u] /\ Slot[t] = Slot[u] => t = u
  /\ IsFiniteSet(ClientIDs)
  /\ \A n \in ClientIDs :
       n \in Nat /\ n > ServerCount /\ ClientMessageAddress(n) < ServerRecvBaseAddress
  /\ RecvDepth \in Nat /\ FillSize \in 0..DataSize
  /\ \A s \in Servers : RecvDepth >= Cardinality({t \in Threads : Home[t] = s})
  /\ {MaxCalls, MaxWrites} \subseteq [Servers -> Nat]
  /\ PoolSize <= MetadataSize + DataSize

Pairs   == {p \in Servers \X Servers : p[1] # p[2]}
Cells   == 0..(DMFSTotalSize - 1)
Content == [msg : {"ZERO", "DATA", "INVALID", "TEST", "RESPONSE"}, task : Nat]
Blank       == [msg |-> "ZERO", task |-> 0]
Data        == [msg |-> "DATA", task |-> 0]
Request(k)  == [msg |-> "TEST", task |-> k]
Response(k) == [msg |-> "RESPONSE", task |-> k]

NoImm == <<>>    \* a write without immediate

VARIABLES
  mem,        \* mem[s]: the shared memory of server s
  \* callers
  pc, dest,   \* where thread t is in RdmaCall, and the server it calls
  task,       \* the ID of its latest call
  answer,     \* bufferReceive of its latest call that returned
  taskID,     \* Client::taskID of a server's Client
  \* <<s, d>>: the direction s to d of a connection
  sendq,      \* posted writes that the adapter has not read
  wire,       \* writes that are not yet placed
  receives,   \* receives d has posted for s
  \* worker 0 of server d
  cq, wpc,
  serving,    \* NodeID and offset of the request
  replyTask,
  asked,      \* asked[<<s, n>>]: requests of client n that s has not answered
  \* history
  writes,     \* writes of clients, by server
  foreign,    \* whether one of them was outside the mailboxes
  overwritten,\* the threads to a slot of whose call one of them went
  executed    \* by caller: the last task a worker answered, and how many

callVars   == <<pc, dest, task, answer, taskID>>
netVars    == <<sendq, wire, receives>>
workerVars == <<cq, wpc, serving, replyTask>>
clientVars == <<asked, writes, foreign, overwritten>>
vars       == <<mem, callVars, netVars, workerVars, clientVars, executed>>

\* The constructor clears the memory and fills the beginning of the data area.
Init ==
  /\ mem = [s \in Servers |-> [a \in Cells |->
       IF a \in DataBaseAddress..(DataBaseAddress + FillSize - 1)
         THEN Data ELSE Blank]]
  /\ pc = [t \in Threads |-> "idle"]
  /\ dest = Home
  /\ task = [t \in Threads |-> 0]
  /\ answer = [t \in Threads |-> Response(0)]
  /\ taskID = [s \in Servers |-> 1]
  /\ sendq = [p \in Pairs |-> <<>>] /\ wire = [p \in Pairs |-> <<>>]
  /\ receives = [p \in Pairs |-> RecvDepth]
  /\ cq = [s \in Servers |-> <<>>]
  /\ wpc = [s \in Servers |-> "poll"]
  /\ serving = [s \in Servers |-> <<s, 0>>]
  /\ replyTask = [s \in Servers |-> 0]
  /\ asked = [x \in Servers \X ClientIDs |-> 0]
  /\ writes = [s \in Servers |-> 0] /\ foreign = FALSE /\ overwritten = {}
  /\ executed = [r \in Servers \X Offsets |-> [last |-> 0, count |-> 0]]

Store(s, a, c) == mem' = [mem EXCEPT ![s][a] = c]

\* _RdmaBatchWrite of one write.  A server never waits for completions here:
\* its workers drop them.
BatchWrite(s, d, from, to, imm) ==
  sendq' = [sendq EXCEPT ![<<s, d>>] =
              Append(@, [from |-> from, to |-> to, imm |-> imm])]

-----------------------------------------------------------------------------
(***************************************************************************)
(* RdmaCall of a server's thread.                                          *)
(***************************************************************************)

GoTo(t, from, to) == pc[t] = from /\ pc' = [pc EXCEPT ![t] = to]

\* Where thread t waits for its answers.
MySlot(t) == ServerRecvAddress(Home[t], Slot[t])

\* Mutant of Call: the slot is not marked invalid.
CallUnmarked(t, d) ==
  LET s == Home[t] IN
  /\ GoTo(t, "idle", "post")
  /\ d # s /\ taskID[s] <= MaxCalls[s]
  /\ taskID' = [taskID EXCEPT ![s] = @ + 1]
  /\ task' = [task EXCEPT ![t] = taskID[s]]
  /\ dest' = [dest EXCEPT ![t] = d]
  /\ Store(s, ServerSendAddress(d, Slot[t]), Request(taskID[s]))
  /\ UNCHANGED <<answer, netVars, workerVars, clientVars, executed>>

\* The call takes an ID, marks its slot and copies the request.
Call(t, d) ==
  LET s == Home[t] IN
  /\ GoTo(t, "idle", "post")
  /\ d # s /\ taskID[s] <= MaxCalls[s]
  /\ taskID' = [taskID EXCEPT ![s] = @ + 1]
  /\ task' = [task EXCEPT ![t] = taskID[s]]
  /\ dest' = [dest EXCEPT ![t] = d]
  /\ mem' = [mem EXCEPT ![s][MySlot(t)].msg = "INVALID",
                        ![s][ServerSendAddress(d, Slot[t])] = Request(taskID[s])]
  /\ UNCHANGED <<answer, netVars, workerVars, clientVars, executed>>

\* The write goes to the address of MySlot in d's memory.
Post(t) ==
  /\ GoTo(t, "post", "spin")
  /\ BatchWrite(Home[t], dest[t], ServerSendAddress(dest[t], Slot[t]),
                MySlot(t), <<Home[t], Slot[t]>>)
  /\ UNCHANGED <<mem, dest, task, answer, taskID, wire, receives, workerVars,
                 clientVars, executed>>

SeeResponse(t) ==
  /\ GoTo(t, "spin", "copy")
  /\ mem[Home[t]][MySlot(t)].msg = "RESPONSE"
  /\ UNCHANGED <<mem, dest, task, answer, taskID, netVars, workerVars, clientVars,
                 executed>>

Return(t) ==
  /\ GoTo(t, "copy", "idle")
  /\ answer' = [answer EXCEPT ![t] = mem[Home[t]][MySlot(t)]]
  /\ UNCHANGED <<mem, dest, task, taskID, netVars, workerVars, clientVars,
                 executed>>

-----------------------------------------------------------------------------
(***************************************************************************)
(* The adapters: a posted write is read from memory later, and a           *)
(* connection keeps the order of its writes.  One with immediate uses a    *)
(* receive, and waits for it with all writes behind it.                    *)
(***************************************************************************)

Transmit(p) ==
  /\ sendq[p] # <<>>
  /\ LET w == Head(sendq[p])
     IN wire' = [wire EXCEPT ![p] = Append(@,
                   [what |-> mem[p[1]][w.from], to |-> w.to, imm |-> w.imm])]
  /\ sendq' = [sendq EXCEPT ![p] = Tail(@)]
  /\ UNCHANGED <<mem, callVars, receives, workerVars, clientVars, executed>>

Place(p) ==
  /\ wire[p] # <<>>
  /\ LET w == Head(wire[p]) IN
     /\ Store(p[2], w.to, w.what)
     /\ IF w.imm = NoImm
          THEN UNCHANGED <<receives, cq>>
          ELSE /\ receives[p] > 0
               /\ receives' = [receives EXCEPT ![p] = @ - 1]
               /\ cq' = [cq EXCEPT ![p[2]] = Append(@, w.imm)]
  /\ wire' = [wire EXCEPT ![p] = Tail(@)]
  /\ UNCHANGED <<callVars, sendq, wpc, serving, replyTask, clientVars, executed>>

-----------------------------------------------------------------------------
(***************************************************************************)
(* Clients.  Their task IDs are left out: no thread reads one.             *)
(***************************************************************************)

\* The cells a call of t uses: where it awaits the answer, where its request is
\* prepared, and where it arrives.
CallCells(t) ==
  {<<Home[t], MySlot(t)>>, <<Home[t], ServerSendAddress(dest[t], Slot[t])>>,
   <<dest[t], MySlot(t)>>}

\* c is stored for a client, over the slot of every call that uses this cell.
ClientStore(s, a, c) ==
  /\ Store(s, a, c)
  /\ overwritten' = overwritten \cup
                      {t \in Threads : pc[t] # "idle" /\ <<s, a>> \in CallCells(t)}

\* A client writes a request into its mailbox at server s.
ClientWrite(s, n) ==
  /\ writes[s] < MaxWrites[s] /\ writes' = [writes EXCEPT ![s] = @ + 1]
  /\ ClientStore(s, ClientMessageAddress(n), Request(0))
  /\ asked' = [asked EXCEPT ![<<s, n>>] = @ + 1]
  /\ foreign' = (foreign \/ n > ServerCount + MaxClientNumber)
  /\ UNCHANGED <<callVars, netVars, workerVars, executed>>

\* A worker answers it: the reply is copied over what lies in the mailbox, if that
\* still is a request, and sent to the client from there.
ClientReply(s, n) ==
  /\ asked[<<s, n>>] > 0
  /\ asked' = [asked EXCEPT ![<<s, n>>] = @ - 1]
  /\ IF mem[s][ClientMessageAddress(n)].msg = "TEST"
       THEN ClientStore(s, ClientMessageAddress(n), Response(0))
       ELSE UNCHANGED <<mem, overwritten>>
  /\ UNCHANGED <<callVars, netVars, workerVars, writes, foreign, executed>>

\* A client writes into the data area.
DataWrite(s, a) ==
  /\ writes[s] < MaxWrites[s] /\ writes' = [writes EXCEPT ![s] = @ + 1]
  /\ foreign' = TRUE
  /\ ClientStore(s, DmfsDataOffset + a, Data)
  /\ UNCHANGED <<callVars, netVars, workerVars, asked, executed>>

-----------------------------------------------------------------------------
(***************************************************************************)
(* Worker 0 of server d: RequestPoller, ProcessRequest.                    *)
(***************************************************************************)

WorkerGoTo(d, from, to) == wpc[d] = from /\ wpc' = [wpc EXCEPT ![d] = to]

\* The request's slot, and the same address in the caller's memory.
Served(d) == ServerRecvAddress(serving[d][1], serving[d][2])

\* Mutants of RequestPoller: the completions after the first are dropped, and the
\* completion stays in the queue.
RequestPollerFirst(d) ==
  /\ WorkerGoTo(d, "poll", "build")
  /\ cq[d] # <<>>
  /\ serving' = [serving EXCEPT ![d] = Head(cq[d])]
  /\ cq' = [cq EXCEPT ![d] = <<>>]
  /\ UNCHANGED <<mem, callVars, netVars, replyTask, clientVars, executed>>
RequestPollerAgain(d) ==
  /\ WorkerGoTo(d, "poll", "build")
  /\ cq[d] # <<>>
  /\ serving' = [serving EXCEPT ![d] = Head(cq[d])]
  /\ UNCHANGED <<mem, callVars, netVars, cq, replyTask, clientVars, executed>>

RequestPoller(d) ==
  /\ WorkerGoTo(d, "poll", "build")
  /\ cq[d] # <<>>
  /\ serving' = [serving EXCEPT ![d] = Head(cq[d])]
  /\ cq' = [cq EXCEPT ![d] = Tail(@)]
  /\ UNCHANGED <<mem, callVars, netVars, replyTask, clientVars, executed>>

ReadTask(d) ==
  /\ WorkerGoTo(d, "build", "classify")
  /\ replyTask' = [replyTask EXCEPT ![d] = mem[d][Served(d)].task]
  /\ UNCHANGED <<mem, callVars, netVars, cq, serving, clientVars, executed>>

\* The read of the message that decides between the branches.
Classify(d) ==
  /\ WorkerGoTo(d, "classify",
                IF mem[d][Served(d)].msg = "TEST" THEN "reply" ELSE "poll")
  /\ UNCHANGED <<mem, callVars, netVars, cq, serving, replyTask, clientVars,
                 executed>>

\* The reply is copied over the request and sent from there.
Reply(d) ==
  /\ WorkerGoTo(d, "reply", "repost")
  /\ Store(d, Served(d), Response(replyTask[d]))
  /\ BatchWrite(d, serving[d][1], Served(d), Served(d), NoImm)
  /\ executed' = [executed EXCEPT ![serving[d]] =
                    [last |-> replyTask[d], count |-> @.count + 1]]
  /\ UNCHANGED <<callVars, wire, receives, cq, serving, replyTask,
                 clientVars>>

\* Mutants of Repost: nothing is posted, and two receives.
RepostTwo(d) ==
  /\ WorkerGoTo(d, "repost", "poll")
  /\ receives' = [receives EXCEPT ![<<serving[d][1], d>>] = @ + 2]
  /\ UNCHANGED <<mem, callVars, sendq, wire, cq, serving, replyTask, clientVars,
                 executed>>
RepostNone(d) ==
  /\ WorkerGoTo(d, "repost", "poll")
  /\ UNCHANGED <<mem, callVars, netVars, cq, serving, replyTask, clientVars,
                 executed>>

Repost(d) ==
  /\ WorkerGoTo(d, "repost", "poll")
  /\ receives' = [receives EXCEPT ![<<serving[d][1], d>>] = @ + 1]
  /\ UNCHANGED <<mem, callVars, sendq, wire, cq, serving, replyTask, clientVars,
                 executed>>

-----------------------------------------------------------------------------
WorkerStep(d) ==
  RequestPoller(d) \/ ReadTask(d) \/ Classify(d) \/ Reply(d) \/ Repost(d)

Next ==
  \/ \E t \in Threads :
       (\E d \in Servers : Call(t, d)) \/ Post(t) \/ SeeResponse(t) \/ Return(t)
  \/ \E p \in Pairs : Transmit(p) \/ Place(p)
  \/ \E s \in Servers :
       \/ WorkerStep(s)
       \/ \E n \in ClientIDs : ClientWrite(s, n) \/ ClientReply(s, n)
       \/ \E a \in 0..(DataSize - 1) : DataWrite(s, a)

Spec == Init /\ [][Next]_vars

\* Callers and workers spin and the adapters make progress: while one of them can
\* take a step, some step of theirs is taken.  Nobody has to call, no client has to
\* write or to be answered.
Progress ==
  \/ \E t \in Threads : Post(t) \/ SeeResponse(t) \/ Return(t)
  \/ \E p \in Pairs : Transmit(p) \/ Place(p)
  \/ \E s \in Servers : WorkerStep(s)

Fairness == WF_vars(Progress)

FairSpec == Spec /\ Fairness

-----------------------------------------------------------------------------
(***************************************************************************)
(* Properties.                                                             *)
(***************************************************************************)

\* Every variable keeps its type; every address that is used is in the memory.
TypeOK ==
  /\ mem \in [Servers -> [Cells -> Content]]
  /\ pc \in [Threads -> {"idle", "post", "spin", "copy"}]
  /\ dest \in [Threads -> Servers] /\ task \in [Threads -> Nat]
  /\ answer \in [Threads -> Content] /\ taskID \in [Servers -> Nat]
  /\ \A p \in Pairs :
       /\ receives[p] \in 0..RecvDepth
       /\ \A w \in ToSet(sendq[p]) : {w.from, w.to} \subseteq Cells
       /\ \A w \in ToSet(wire[p]) : w.what \in Content /\ w.to \in Cells
  /\ cq \in [Servers -> Seq(Servers \X Offsets)]
  /\ wpc \in [Servers -> {"poll", "build", "classify", "reply", "repost"}]
  /\ serving \in [Servers -> Servers \X Offsets]
  /\ replyTask \in [Servers -> Nat]
  /\ asked \in [Servers \X ClientIDs -> Nat] /\ writes \in [Servers -> Nat]
  /\ foreign \in BOOLEAN /\ overwritten \in SUBSET Threads
  /\ executed \in [Servers \X Offsets -> [last : Nat, count : Nat]]

\* How many slots of the receive pool lie before the data area, and how many of
\* the send pool belong to clients for whom there is no mailbox.
SlotsBeforeData == MetadataSize \div MessageSize
LostSlots ==
  Max({0} \cup {n - ServerCount - MaxClientNumber : n \in ClientIDs})

\* The slots of t are its own: its row of the receive pool lies before the data
\* area, and no client writes into the slots from which it sends.
Safe(t) ==
  /\ (Home[t] - 1) * ServerMessageNum + Slot[t] < SlotsBeforeData
  /\ \A d \in Servers \ {Home[t]} :
       (d - 1) * ServerMessageNum + Slot[t] >= LostSlots

\* No client writes over the call of a thread, as long as clients write to their
\* mailboxes and none has a mailbox too many; and over the calls of a thread whose
\* slots are its own, none does whatever clients write.
Protected == \A t \in Threads : Safe(t) \/ ~foreign => t \notin overwritten

\* No client has written over a call of t, of this one or an earlier one.
Undisturbed(t) == t \notin overwritten

\* A call gets the response to its own request, whatever the other threads, the
\* other servers and the clients do, as long as no client writes over a call of
\* this very thread.
OwnAnswer ==
  \A t \in Threads :
    Undisturbed(t) /\ pc[t] = "idle" => answer[t] = Response(task[t])

\* The slot in which a thread waits changes only once until it has its answer,
\* from invalid to that answer, unless a client writes over one of its calls.
SlotHandover ==
  [][\A t \in Threads :
       LET slot == mem[Home[t]][MySlot(t)] IN
       slot' # slot /\ pc[t] # "idle" /\ Undisturbed(t)'
         => slot.msg = "INVALID" /\ slot' = Response(task[t])]_vars

\* A receive is free, or its request is with the worker; or a client wrote
\* over the call, and the receive is lost with its caller, who spins for ever: no
\* receive is missing without a caller of that peer who is missing as well.
ReceivesAccounted ==
  \A p \in Pairs :
    LET held == receives[p] + Cardinality({i \in DOMAIN cq[p[2]] : cq[p[2]][i][1] = p[1]})
                  + (IF wpc[p[2]] # "poll" /\ serving[p[2]][1] = p[1] THEN 1 ELSE 0)
        stuck == {t \in Threads : ~Undisturbed(t) /\ Home[t] = p[1]
                                   /\ dest[t] = p[2] /\ pc[t] = "spin"}
    IN held \in (RecvDepth - Cardinality(stuck))..RecvDepth

\* What a thread's call looks like to CallService.
Status(t) ==
  IF pc[t] = "idle" THEN "idle"
  ELSE IF executed[<<Home[t], Slot[t]>>].last = task[t] THEN "executed"
  ELSE "issued"
Executions(t) == executed[<<Home[t], Slot[t]>>].count

Service ==
  INSTANCE CallService WITH
    Clients <- Threads,
    status <- [t \in Threads |-> Status(t)],
    executions <- [t \in Threads |-> Executions(t)]

\* CallService is what the servers implement for each other: a call is executed
\* once, between its issue and its return.  Only the calls of a thread over one of
\* whose calls a client has written may go otherwise.
ExactlyOnce ==
  /\ Service!Init
  /\ [][\/ UNCHANGED Service!vars \/ Service!Next
        \/ \E t \in Threads :
             ~Undisturbed(t)' /\ <<Status(t), Executions(t)>>'
                                   # <<Status(t), Executions(t)>>]_vars

\* Every call returns, after a wait for a receive if all are in use: again and again
\* no call is under way, except for threads over one of whose calls a client has
\* written.  Such a thread may wait for ever, its receive is lost, and still the
\* calls of all the other threads return.
EveryCallReturns ==
  []<>(\A t \in Threads : pc[t] = "idle" \/ ~Undisturbed(t))
=============================================================================
