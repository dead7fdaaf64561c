------------------------------ MODULE RdmaCall ------------------------------
(***************************************************************************)
(* Remote calls of client processes to one server: Client::RdmaCall        *)
(* (client branch), Server::RequestPoller and Server::ProcessRequest, with *)
(* the RdmaSocket operations they use.                                     *)
(*                                                                         *)
(* A client has ONE message buffer (the first bytes of its registered      *)
(* memory, Client::mm): the request is copied there, sent from there with  *)
(* RDMA_WRITE_WITH_IMM, and the reply is written over it by the server.    *)
(* The server has one mailbox per client; the request lands in it, and the *)
(* reply is built in it and sent from it.  A posted work request carries   *)
(* the ADDRESS of its buffer (max_inline_data = 0): the adapter reads the  *)
(* buffer some time after the post, so what is sent is what the buffer     *)
(* holds then.  A client that has waited one second posts its buffer again.*)
(***************************************************************************)
EXTENDS Naturals, Sequences, FiniteSets

CONSTANTS
  Clients,       \* client processes; each makes one call at a time
  Workers,       \* the server's threads, one per completion queue
  CqOf,          \* the completion queue a client's queue pair is attached to
  Requests,      \* the message types the callers pass to RdmaCall
  RecvDepth,     \* receives posted when a client is accepted (QPS_MAX_DEPTH)
  SignalPeriod,  \* one send in SignalPeriod is signaled (SIGNAL_BATCH + 1)
  MaxCalls,      \* bound: calls per client
  MaxResends     \* bound: resends per client

\* What RdmaCall sends without waiting for an answer: in fact nothing at all,
\* the write of these three messages is commented out.
OneWay == {"DISCONNECT", "UPDATEMETA", "EXTENTREADEND"}

\* The cases of RequestPoller's switch that do nothing.
Ignored == {"MALLOC", "SCAN", "EXPIRE"}

\* The enumerators of Message that clients and server tell apart; ADDMETA is
\* enumerator 0, what a zeroed mailbox reads as, INSERT stands for every
\* message that reaches ProcessRequest's last, empty, branch.
Message == OneWay \cup Ignored \cup {"TEST", "INSERT", "ADDMETA", "RESPONSE"}

ASSUME ConstantsAssumption ==
  /\ CqOf \in [Clients -> Workers]
  /\ Requests \subseteq Message \ {"RESPONSE"}
  /\ RecvDepth \in Nat \ {0}
  /\ SignalPeriod \in Nat \ {0}
  /\ MaxCalls \in Nat
  /\ MaxResends \in Nat

\* What a message buffer holds, as far as either side looks at it.
Content == [msg : Message, task : Nat]
Blank == [msg |-> "ADDMETA", task |-> 0]
Response(t) == [msg |-> "RESPONSE", task |-> t]

VARIABLES
  \* client side
  pc,           \* where the client's thread is in RdmaCall
  taskID,       \* Client::taskID, the next task ID
  current,      \* RdmaCall's local ID: the task of the latest two-way call
  buffer,       \* the client's message buffer
  counter,      \* PeerSockData::counter up to SignalPeriod, see NextCount
  completions,  \* entries of the client's completion queue
  answer,       \* bufferReceive of the latest call that returned
  resends,      \* history: resends so far
  \* the two directions of the connection
  sendq,        \* requests posted and not yet read by the client's adapter
  wire,         \* requests read and not yet placed in the mailbox
  placed,       \* requests placed, counted as counter is
  replyq,       \* replies posted and not yet read by the server's adapter
  replywire,    \* replies read and not yet placed in the client's buffer
  \* server side
  mailbox,      \* the client's mailbox in the server's memory
  receives,     \* receives posted on the client's queue pair
  cq,           \* completion queues: whose request has arrived, in order
  wpc,          \* where the worker is in RequestPoller / ProcessRequest
  serving,      \* the client whose request the worker handles (NodeID)
  replyTask,    \* taskID of the reply the worker is building
  executed      \* history: last task the server answered, and how many

clientVars == <<pc, taskID, current, buffer, counter, completions, answer,
                resends>>
netVars    == <<sendq, wire, placed, replyq, replywire>>
serverVars == <<mailbox, receives, cq, wpc, serving, replyTask, executed>>
vars       == <<clientVars, netVars, serverVars>>

-----------------------------------------------------------------------------
\* The uint64 counters are used only through "counter & SIGNAL_BATCH = 0" and
\* "counter > 0": 0 stands for 0, n \in 1..SignalPeriod for every positive
\* value that is n modulo SignalPeriod.
NextCount(n) == IF n = SignalPeriod THEN 1 ELSE n + 1
Signaled(n)  == n \in {0, SignalPeriod}

Init ==
  /\ pc          = [c \in Clients |-> "idle"]
  /\ taskID      = [c \in Clients |-> 1]
  /\ current     = [c \in Clients |-> 0]
  /\ buffer      = [c \in Clients |-> Blank]
  /\ counter     = [c \in Clients |-> 0]
  /\ completions = [c \in Clients |-> 0]
  /\ answer      = [c \in Clients |-> Response(0)]
  /\ resends     = [c \in Clients |-> 0]
  /\ sendq       = [c \in Clients |-> 0]
  /\ wire        = [c \in Clients |-> <<>>]
  /\ placed      = [c \in Clients |-> 0]
  /\ replyq      = [c \in Clients |-> 0]
  /\ replywire   = [c \in Clients |-> <<>>]
  /\ mailbox     = [c \in Clients |-> Blank]
  /\ receives    = [c \in Clients |-> RecvDepth]
  /\ cq          = [w \in Workers |-> <<>>]
  /\ wpc         = [w \in Workers |-> "poll"]
  /\ serving     \in [Workers -> Clients]
  /\ replyTask   = [w \in Workers |-> 0]
  /\ executed    = [c \in Clients |-> [last |-> 0, count |-> 0]]

-----------------------------------------------------------------------------
(***************************************************************************)
(* The client: RdmaCall.                                                   *)
(***************************************************************************)

GoTo(c, from, to) == pc[c] = from /\ pc' = [pc EXCEPT ![c] = to]

\* The call takes the next task ID and copies the request to the buffer.
Prepare(c, m) ==
  /\ taskID[c] <= MaxCalls
  /\ taskID' = [taskID EXCEPT ![c] = @ + 1]
  /\ buffer' = [buffer EXCEPT ![c] = [msg |-> m, task |-> taskID[c]]]

\* A two-way call, up to the point where the request is about to be posted.
Call(c, m) ==
  /\ m \notin OneWay
  /\ GoTo(c, "idle", "post")
  /\ Prepare(c, m)
  /\ current' = [current EXCEPT ![c] = taskID[c]]
  /\ UNCHANGED <<counter, completions, answer, resends, netVars, serverVars>>

\* A one-way call returns at once: the buffer has changed, nothing is posted.
CallOneWay(c, m) ==
  /\ m \in OneWay
  /\ pc[c] = "idle"
  /\ Prepare(c, m)
  /\ UNCHANGED <<pc, current, counter, completions, answer, resends, netVars,
                 serverVars>>

\* Mutant of BatchWrite: takes an entry before every signaled write, the first
\* one included, and does not wait for it (PollOnce for PollCompletion).
BatchWriteEager(c) ==
  /\ completions' = [completions EXCEPT ![c] =
                       IF Signaled(counter[c]) THEN @ - 1 ELSE @]
  /\ counter' = [counter EXCEPT ![c] = NextCount(@)]
  /\ sendq' = [sendq EXCEPT ![c] = @ + 1]
  /\ UNCHANGED <<wire, placed, replyq, replywire>>

\* _RdmaBatchWrite with BatchSize 1 on the client side: at every multiple of
\* SignalPeriod it first takes an entry from the completion queue
\* (PollCompletion spins until there is one), then posts the write.
BatchWrite(c) ==
  /\ counter[c] = SignalPeriod => completions[c] > 0
  /\ completions' = IF counter[c] = SignalPeriod
                      THEN [completions EXCEPT ![c] = @ - 1]
                      ELSE completions
  /\ counter' = [counter EXCEPT ![c] = NextCount(@)]
  /\ sendq' = [sendq EXCEPT ![c] = @ + 1]
  /\ UNCHANGED <<wire, placed, replyq, replywire>>

Send(c) ==
  /\ GoTo(c, "post", "wait")
  /\ BatchWrite(c)
  /\ UNCHANGED <<taskID, current, buffer, answer, resends, serverVars>>

\* The loop test saw no response and the clock says one second has passed.
Timeout(c) ==
  /\ GoTo(c, "wait", "resend")
  /\ buffer[c].msg # "RESPONSE"
  /\ resends[c] < MaxResends
  /\ UNCHANGED <<taskID, current, buffer, counter, completions, answer,
                 resends, netVars, serverVars>>

\* The same buffer is posted again, whatever it holds by now.  (The tempCount
\* the code stores in it lies outside the fields modelled here.)
Resend(c) ==
  /\ GoTo(c, "resend", "wait")
  /\ BatchWrite(c)
  /\ resends' = [resends EXCEPT ![c] = @ + 1]
  /\ UNCHANGED <<taskID, current, buffer, answer, serverVars>>

\* Mutant of SeeResponse: the client waits once and does not look.
SeeAnything(c) ==
  /\ GoTo(c, "wait", "copy")
  /\ UNCHANGED <<taskID, current, buffer, counter, completions, answer,
                 resends, netVars, serverVars>>

\* The loop test sees a response.  Its task ID is not looked at.
SeeResponse(c) ==
  /\ GoTo(c, "wait", "copy")
  /\ buffer[c].msg = "RESPONSE"
  /\ UNCHANGED <<taskID, current, buffer, counter, completions, answer,
                 resends, netVars, serverVars>>

\* The buffer is copied to the caller and RdmaCall returns true.
Return(c) ==
  /\ GoTo(c, "copy", "idle")
  /\ answer' = [answer EXCEPT ![c] = buffer[c]]
  /\ UNCHANGED <<taskID, current, buffer, counter, completions, resends,
                 netVars, serverVars>>

-----------------------------------------------------------------------------
(***************************************************************************)
(* The adapters.  A reliable connection delivers in order, without loss or *)
(* duplication.  A packet it retransmits (lost, or refused because no      *)
(* receive was posted) is read from the buffer again, which is the same as *)
(* reading it later.                                                       *)
(***************************************************************************)

Transmit(c) ==
  /\ sendq[c] > 0
  /\ sendq' = [sendq EXCEPT ![c] = @ - 1]
  /\ wire'  = [wire EXCEPT ![c] = Append(@, buffer[c])]
  /\ UNCHANGED <<placed, replyq, replywire, clientVars, serverVars>>

\* A write with immediate uses up a receive and reports to the completion
\* queue; a signaled one is reported to its sender too.
Place(c) ==
  /\ wire[c] # <<>>
  /\ receives[c] > 0
  /\ mailbox'     = [mailbox EXCEPT ![c] = Head(wire[c])]
  /\ wire'        = [wire EXCEPT ![c] = Tail(@)]
  /\ receives'    = [receives EXCEPT ![c] = @ - 1]
  /\ cq'          = [cq EXCEPT ![CqOf[c]] = Append(@, c)]
  /\ placed'      = [placed EXCEPT ![c] = NextCount(@)]
  /\ completions' = IF Signaled(placed[c])
                      THEN [completions EXCEPT ![c] = @ + 1]
                      ELSE completions
  /\ UNCHANGED <<pc, taskID, current, buffer, counter, answer, resends, sendq,
                 replyq, replywire, wpc, serving, replyTask, executed>>

TransmitReply(c) ==
  /\ replyq[c] > 0
  /\ replyq'    = [replyq EXCEPT ![c] = @ - 1]
  /\ replywire' = [replywire EXCEPT ![c] = Append(@, mailbox[c])]
  /\ UNCHANGED <<sendq, wire, placed, clientVars, serverVars>>

\* A plain write: the client's processor is not told.
PlaceReply(c) ==
  /\ replywire[c] # <<>>
  /\ buffer'    = [buffer EXCEPT ![c] = Head(replywire[c])]
  /\ replywire' = [replywire EXCEPT ![c] = Tail(@)]
  /\ UNCHANGED <<pc, taskID, current, counter, completions, answer, resends,
                 sendq, wire, placed, replyq, serverVars>>

-----------------------------------------------------------------------------
(***************************************************************************)
(* A worker of the server.  It reads the mailbox three times: the switch   *)
(* of RequestPoller, then ProcessRequest's taskID, then its message.       *)
(***************************************************************************)

WorkerGoTo(w, from, to) == wpc[w] = from /\ wpc' = [wpc EXCEPT ![w] = to]

\* Mutant of RequestPoller: the completion is looked at and not taken.
RequestPollerPeeks(w) ==
  /\ cq[w] # <<>>
  /\ serving' = [serving EXCEPT ![w] = Head(cq[w])]
  /\ WorkerGoTo(w, "poll",
                IF mailbox[Head(cq[w])].msg \in Ignored THEN "poll" ELSE "build")
  /\ UNCHANGED <<cq, mailbox, receives, replyTask, executed, clientVars, netVars>>

\* PollOnce has an arrival: take it and switch on the mailbox's message.
RequestPoller(w) ==
  /\ cq[w] # <<>>
  /\ cq' = [cq EXCEPT ![w] = Tail(@)]
  /\ serving' = [serving EXCEPT ![w] = Head(cq[w])]
  /\ WorkerGoTo(w, "poll",
                IF mailbox[Head(cq[w])].msg \in Ignored THEN "poll" ELSE "build")
  /\ UNCHANGED <<mailbox, receives, replyTask, executed, clientVars, netVars>>

\* Mutant of ReadTask: the reply's task ID is left as it was.
ReadNoTask(w) ==
  /\ WorkerGoTo(w, "build", "classify")
  /\ UNCHANGED <<replyTask, mailbox, receives, cq, serving, executed, clientVars,
                 netVars>>

\* ProcessRequest starts the reply: recv->taskID = send->taskID.
ReadTask(w) ==
  /\ WorkerGoTo(w, "build", "classify")
  /\ replyTask' = [replyTask EXCEPT ![w] = mailbox[serving[w]].task]
  /\ UNCHANGED <<mailbox, receives, cq, serving, executed, clientVars, netVars>>

\* Only MESSAGE_TEST is answered; every other branch returns.  The code reads the
\* message for each branch it tries: the read that decides is this step.
Classify(w) ==
  /\ WorkerGoTo(w, "classify",
                IF mailbox[serving[w]].msg = "TEST" THEN "reply" ELSE "poll")
  /\ UNCHANGED <<mailbox, receives, cq, serving, replyTask, executed,
                 clientVars, netVars>>

\* Mutant of Reply: _RdmaBatchWrite with BatchSize 2.
ReplyTwice(w) ==
  LET c == serving[w] IN
  /\ WorkerGoTo(w, "reply", "repost")
  /\ mailbox'  = [mailbox EXCEPT ![c] = Response(replyTask[w])]
  /\ replyq'   = [replyq EXCEPT ![c] = @ + 2]
  /\ executed' = [executed EXCEPT ![c] =
                    [last |-> replyTask[w], count |-> @.count + 1]]
  /\ UNCHANGED <<receives, cq, serving, replyTask, sendq, wire, placed,
                 replywire, clientVars>>

\* The reply is copied over the request and posted ...
Reply(w) ==
  LET c == serving[w] IN
  /\ WorkerGoTo(w, "reply", "repost")
  /\ mailbox'  = [mailbox EXCEPT ![c] = Response(replyTask[w])]
  /\ replyq'   = [replyq EXCEPT ![c] = @ + 1]
  /\ executed' = [executed EXCEPT ![c] =
                    [last |-> replyTask[w], count |-> @.count + 1]]
  /\ UNCHANGED <<receives, cq, serving, replyTask, sendq, wire, placed,
                 replywire, clientVars>>

\* Mutants of Repost: the two receives of the call that is commented out beside
\* it (_RdmaBatchReceive), and none.
RepostTwo(w) ==
  /\ WorkerGoTo(w, "repost", "poll")
  /\ receives' = [receives EXCEPT ![serving[w]] = @ + 2]
  /\ UNCHANGED <<mailbox, cq, serving, replyTask, executed, clientVars, netVars>>
RepostNone(w) ==
  /\ WorkerGoTo(w, "repost", "poll")
  /\ UNCHANGED <<receives, mailbox, cq, serving, replyTask, executed, clientVars,
                 netVars>>

\* ... and then one receive is posted, perhaps after the client has seen the
\* reply and called again.
Repost(w) ==
  /\ WorkerGoTo(w, "repost", "poll")
  /\ receives' = [receives EXCEPT ![serving[w]] = @ + 1]
  /\ UNCHANGED <<mailbox, cq, serving, replyTask, executed, clientVars, netVars>>

-----------------------------------------------------------------------------
ClientStep(c) ==
  \/ \E m \in Requests : Call(c, m) \/ CallOneWay(c, m)
  \/ Send(c) \/ Timeout(c) \/ Resend(c) \/ SeeResponse(c) \/ Return(c)
AdapterStep(c) ==
  Transmit(c) \/ Place(c) \/ TransmitReply(c) \/ PlaceReply(c)
WorkerStep(w) ==
  RequestPoller(w) \/ ReadTask(w) \/ Classify(w) \/ Reply(w) \/ Repost(w)

Next ==
  \/ \E c \in Clients : ClientStep(c) \/ AdapterStep(c)
  \/ \E w \in Workers : WorkerStep(w)

Spec == Init /\ [][Next]_vars

\* Threads that spin (RdmaCall, the workers) are never descheduled for ever
\* and the adapters make progress; nobody is obliged to call or to time out.
Fairness ==
  /\ \A c \in Clients :
       /\ WF_vars(Send(c)) /\ WF_vars(Resend(c))
       /\ WF_vars(SeeResponse(c)) /\ WF_vars(Return(c))
       /\ WF_vars(Transmit(c)) /\ WF_vars(Place(c))
       /\ WF_vars(TransmitReply(c)) /\ WF_vars(PlaceReply(c))
  /\ \A w \in Workers : WF_vars(WorkerStep(w))

FairSpec == Spec /\ Fairness

-----------------------------------------------------------------------------
(***************************************************************************)
(* Properties.                                                             *)
(***************************************************************************)

\* Every variable keeps its type (the buffers hold headers, the queues hold
\* buffers' contents, the counters are natural numbers).
TypeOK ==
  /\ pc          \in [Clients -> {"idle", "post", "wait", "resend", "copy"}]
  /\ taskID      \in [Clients -> Nat]
  /\ current     \in [Clients -> Nat]
  /\ buffer      \in [Clients -> Content]
  /\ counter     \in [Clients -> 0..SignalPeriod]
  /\ completions \in [Clients -> Nat]
  /\ answer      \in [Clients -> Content]
  /\ resends     \in [Clients -> Nat]
  /\ sendq       \in [Clients -> Nat]
  /\ wire        \in [Clients -> Seq(Content)]
  /\ placed      \in [Clients -> 0..SignalPeriod]
  /\ replyq      \in [Clients -> Nat]
  /\ replywire   \in [Clients -> Seq(Content)]
  /\ mailbox     \in [Clients -> Content]
  /\ receives    \in [Clients -> Nat]
  /\ cq          \in [Workers -> Seq(Clients)]
  /\ wpc         \in [Workers ->
                       {"poll", "build", "classify", "reply", "repost"}]
  /\ serving     \in [Workers -> Clients]
  /\ replyTask   \in [Workers -> Nat]
  /\ executed    \in [Clients -> [last : Nat, count : Nat]]

\* Requests of c that have arrived and no worker has taken yet.
Occurrences(s, c) == Cardinality({i \in DOMAIN s : s[i] = c})
Arrivals(c) == Occurrences(cq[CqOf[c]], c)

\* 1 if c's worker is in one of the given places of its code for c, else 0.
WorkerAt(c, places) ==
  IF wpc[CqOf[c]] \in places /\ serving[CqOf[c]] = c THEN 1 ELSE 0

Unread(c)    == WorkerAt(c, {"build"})
Answering(c) == WorkerAt(c, {"classify", "reply"})
Reposting(c) == WorkerAt(c, {"repost"})

\* Messages between c and the server, in either direction: requests on their
\* way, the one in the hands of the worker, and replies on their way.
Requested(c) == sendq[c] + Len(wire[c]) + Arrivals(c)
InHand(c)    == Unread(c) + Answering(c)
Replied(c)   == replyq[c] + Len(replywire[c])
InFlight(c)  == Requested(c) + InHand(c) + Replied(c)

\* Receives of c that are posted, hold an arrival, or are to be posted again.
Receives(c) == receives[c] + Arrivals(c) + InHand(c) + Reposting(c)

\* There is never more in flight for a client than its call and the resends it
\* ever made, and a client that makes no call has nothing but resends in
\* flight: this is what bounds the load of the completion queue, QPS_MAX_DEPTH
\* entries shared by a worker's clients.  (A call that returns on a late reply
\* to an earlier resend leaves its own messages behind.)
InFlightBound ==
  \A c \in Clients :
    InFlight(c) <= resends[c] + (IF pc[c] \in {"wait", "resend"} THEN 1 ELSE 0)

\* RdmaCall compares no task IDs.  As long as a client has not resent anything
\* its calls still return the response to the very request they sent, in the
\* presence of other clients that do resend.
OwnAnswer ==
  \A c \in Clients :
    resends[c] = 0 /\ pc[c] = "idle" => answer[c] = Response(current[c])

\* The same without the proviso, what the task ID in every message is for.
OwnAnswerAlways ==
  \A c \in Clients : pc[c] = "idle" => answer[c] = Response(current[c])

\* The receive queue never holds more than the RecvDepth entries it has room
\* for, so the RdmaReceive that follows every reply never fails; and a client
\* whose calls have all returned has lost none: each is posted, or has an
\* arrival to report, or is about to be posted again by the worker.
ReceivesAccounted ==
  \A c \in Clients :
    /\ Receives(c) <= RecvDepth
    /\ resends[c] = 0 /\ pc[c] = "idle" => Receives(c) = RecvDepth

\* The buffer that client and server share changes hands properly: while a
\* call of a client that has not resent runs, the only change of its buffer is
\* the server's response to that call, and only after the request was posted.
BufferHandover ==
  [][\A c \in Clients :
       resends[c] = 0 /\ pc[c] # "idle" /\ buffer'[c] # buffer[c]
         => /\ pc[c] \in {"wait", "resend"}
            /\ buffer[c].msg # "RESPONSE"
            /\ buffer'[c] = Response(current[c])]_vars

\* Every call ends: the loop of RdmaCall sees its response.
EveryCallReturns == \A c \in Clients : pc[c] # "idle" ~> pc[c] = "idle"

\* CallService: a call is executed once, between its issue and its return.
Service ==
  INSTANCE CallService WITH
    status <- [c \in Clients |->
                IF pc[c] = "idle" THEN "idle"
                ELSE IF executed[c].last = current[c] THEN "executed"
                ELSE "issued"],
    executions <- [c \in Clients |-> executed[c].count]

\* RdmaCall implements CallService as long as nothing is sent twice.
ExactlyOnce == Service!Spec
=============================================================================
