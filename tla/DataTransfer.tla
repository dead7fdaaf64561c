---------------------------- MODULE DataTransfer ----------------------------
(***************************************************************************)
(* One-sided transfers of a client process: RdmaSocket::RemoteRead and     *)
(* RemoteWrite, the DataTransferWorker threads and their Queue,            *)
(* InboundHamal and OutboundHamal, RdmaRead, RdmaWrite and PollCompletion. *)
(*                                                                         *)
(* A transfer below Threshold is done by the calling thread, a larger one  *)
(* is split over the worker threads.  Whoever does it copies PoolSize      *)
(* units at a time through a pool in the registered memory: task t has     *)
(* pool t and queue pair t + 1, but ALL queue pairs of a client report to  *)
(* one completion queue, and its entries carry no name (wr_id = 0): who    *)
(* polls takes whatever has completed.  RdmaCall's writes, on queue pair 0,*)
(* report there too.                                                       *)
(*                                                                         *)
(* A unit of memory holds <<n, u>>: unit u of the data of transfer n.      *)
(***************************************************************************)
EXTENDS Naturals, Sequences, FiniteSets, FiniteSetsExt

CONSTANTS
  WorkerNumber,  \* WORKER_NUMBER
  PoolSize,      \* SendPoolSize, in units
  Page,          \* the 4 KB the parts are aligned to, in units
  Threshold,     \* 4 MB, in units
  Sizes,         \* sizes of the transfers the caller asks for
  SignalPeriod,  \* SIGNAL_BATCH + 1
  MaxTransfers,  \* bound: transfers
  MaxCalls,      \* bound: calls of RdmaCall between transfers
  MaxBroken      \* bound: queue pairs that break

ASSUME TransferAssumption ==
  /\ WorkerNumber \in 1..4    \* RemoteRead and RemoteWrite have tasks[4]
  /\ {PoolSize, Page, SignalPeriod} \subseteq Nat \ {0}
  /\ {Threshold, MaxTransfers, MaxCalls, MaxBroken} \subseteq Nat
  /\ IsFiniteSet(Sizes) /\ Sizes \subseteq Nat \ {0}

Tasks == 0..(WorkerNumber - 1)
Units == 0..(Max(Sizes) - 1)
Slots == 0..(PoolSize - 1)
Cells == (0..MaxTransfers) \X Units
Ops   == {"read", "write"}
Job   == [op : Ops, base : Nat, size : Nat]

VARIABLES
  \* the calling thread
  mode,       \* "idle", or where it is in RemoteRead / RemoteWrite
  op, size,   \* arguments of the latest transfer
  transfers,  \* how many transfers were started
  pushed,     \* how many parts of a large transfer it has pushed
  counter,    \* calls of RdmaCall, counted as in RdmaCall's counter
  calls,      \* history: the same, not reduced
  \* the threads that copy: task 0 is the caller itself in a small transfer
  queue,      \* queue[t]: parts pushed to worker t and not yet popped
  step,       \* where task t is in InboundHamal / OutboundHamal
  job,        \* its arguments
  sent,       \* its TotalSizeSend
  signal,     \* TransferSignal
  \* memory
  local,      \* the caller's buffer
  pool,       \* pool[t]: the registered memory of task t
  remote,     \* the remote memory
  \* the adapter
  qp,         \* qp[t]: work requests of task t posted and not yet performed
  broken,     \* broken[t]: the queue pair of task t is in the error state
  rpc,        \* signaled writes of RdmaCall not yet completed
  cq          \* entries in the completion queue

appVars  == <<mode, op, size, transfers, pushed, counter, calls>>
taskVars == <<queue, step, job, sent, signal>>
memVars  == <<local, pool, remote>>
nicVars  == <<qp, broken, rpc, cq>>
vars     == <<appVars, taskVars, memVars, nicVars>>

Init ==
  /\ mode = "idle" /\ op = "read" /\ size \in Sizes
  /\ transfers = 0 /\ pushed = 0 /\ counter = 0 /\ calls = 0
  /\ queue = [t \in Tasks |-> <<>>]
  /\ step = [t \in Tasks |-> "idle"]
  /\ job = [t \in Tasks |-> [op |-> "read", base |-> 0, size |-> 0]]
  /\ sent = [t \in Tasks |-> 0]
  /\ signal = 0
  /\ local = [u \in Units |-> <<0, u>>]
  /\ pool = [t \in Tasks |-> [i \in Slots |-> <<0, 0>>]]
  /\ remote = [u \in Units |-> <<0, u>>]
  /\ qp = [t \in Tasks |-> <<>>] /\ broken = [t \in Tasks |-> FALSE]
  /\ rpc = 0 /\ cq = 0

-----------------------------------------------------------------------------
(***************************************************************************)
(* The calling thread.                                                     *)
(***************************************************************************)

\* The data to transfer is in place: in the caller's buffer for a write, in
\* the remote memory for a read.
Fresh == [u \in Units |-> <<transfers', u>>]

StartTransfer(o, s) ==
  /\ mode = "idle" /\ transfers < MaxTransfers
  /\ transfers' = transfers + 1 /\ op' = o /\ size' = s
  /\ local'  = IF o = "write" THEN Fresh ELSE local
  /\ remote' = IF o = "read" THEN Fresh ELSE remote
  /\ UNCHANGED <<counter, calls, pool, nicVars>>

\* InboundHamal(0, ...) or OutboundHamal(0, ...) in the calling thread.
StartSmall(o, s) ==
  /\ s < Threshold
  /\ StartTransfer(o, s)
  /\ mode' = "small"
  /\ step' = [step EXCEPT ![0] = "next"]
  /\ job'  = [job EXCEPT ![0] = [op |-> o, base |-> 0, size |-> s]]
  /\ sent' = [sent EXCEPT ![0] = 0]
  /\ UNCHANGED <<pushed, queue, signal>>

StartLarge(o, s) ==
  /\ s >= Threshold
  /\ StartTransfer(o, s)
  /\ mode' = "push"
  /\ signal' = 0 /\ pushed' = 0
  /\ UNCHANGED <<queue, step, job, sent>>

ShipSize == ((size \div WorkerNumber) \div Page) * Page

\* Mutant of Part: the offset of a part is counted in pages.
PartByPage(i) == [op |-> op, base |-> i * Page,
                  size |-> IF i < 3 THEN ShipSize ELSE size - 3 * ShipSize]

\* The part of worker i.  The split is written for four workers.
Part(i) == [op |-> op, base |-> i * ShipSize,
            size |-> IF i < 3 THEN ShipSize ELSE size - 3 * ShipSize]

\* Mutant of PushPolling: the loop runs once more (i <= WORKER_NUMBER).
PushOneMore ==
  /\ mode = "push"
  /\ queue' = [queue EXCEPT ![pushed] = Append(@, Part(pushed))]
  /\ pushed' = pushed + 1
  /\ mode' = IF pushed' > WorkerNumber THEN "await" ELSE "push"
  /\ UNCHANGED <<op, size, transfers, counter, calls, step, job, sent, signal,
                 memVars, nicVars>>

PushPolling ==
  /\ mode = "push"
  /\ queue' = [queue EXCEPT ![pushed] = Append(@, Part(pushed))]
  /\ pushed' = pushed + 1
  /\ mode' = IF pushed' = WorkerNumber THEN "await" ELSE "push"
  /\ UNCHANGED <<op, size, transfers, counter, calls, step, job, sent, signal,
                 memVars, nicVars>>

\* Mutant of AwaitSignal: the caller goes on when the first worker is done.
AwaitAnySignal ==
  /\ mode = "await" /\ signal > 0
  /\ mode' = "idle"
  /\ UNCHANGED <<op, size, transfers, pushed, counter, calls, taskVars, memVars,
                 nicVars>>

AwaitSignal ==
  /\ mode = "await" /\ signal = WorkerNumber
  /\ mode' = "idle"
  /\ UNCHANGED <<op, size, transfers, pushed, counter, calls, taskVars, memVars,
                 nicVars>>

\* Mutant of Call: the entry of the previous signaled write is not taken.
CallNoPoll ==
  /\ mode = "idle" /\ calls < MaxCalls
  /\ calls' = calls + 1
  /\ counter' = IF counter = SignalPeriod THEN 1 ELSE counter + 1
  /\ rpc' = IF counter \in {0, SignalPeriod} THEN rpc + 1 ELSE rpc
  /\ UNCHANGED <<cq, mode, op, size, transfers, pushed, taskVars, memVars, qp,
                 broken>>

\* What a call of RdmaCall does to the completion queue (_RdmaBatchWrite with
\* BatchSize 1): one write in SignalPeriod is signaled, and its entry is taken
\* only before the next signaled one.
Call ==
  /\ mode = "idle" /\ calls < MaxCalls
  /\ calls' = calls + 1
  /\ counter' = IF counter = SignalPeriod THEN 1 ELSE counter + 1
  /\ counter = SignalPeriod => cq > 0
  /\ cq'  = IF counter = SignalPeriod THEN cq - 1 ELSE cq
  /\ rpc' = IF counter \in {0, SignalPeriod} THEN rpc + 1 ELSE rpc
  /\ UNCHANGED <<mode, op, size, transfers, pushed, taskVars, memVars, qp,
                 broken>>

-----------------------------------------------------------------------------
(***************************************************************************)
(* A thread that copies: DataTransferWorker around InboundHamal and        *)
(* OutboundHamal.                                                          *)
(***************************************************************************)

PopPolling(t) ==
  /\ step[t] = "idle" /\ queue[t] # <<>>
  /\ queue' = [queue EXCEPT ![t] = Tail(@)]
  /\ job'   = [job EXCEPT ![t] = Head(queue[t])]
  /\ step'  = [step EXCEPT ![t] = "next"]
  /\ sent'  = [sent EXCEPT ![t] = 0]
  /\ UNCHANGED <<signal, appVars, memVars, nicVars>>

\* The chunk at hand: SendSize units from unit From.
SendSize(t) == Min({PoolSize, job[t].size - sent[t]})
From(t)     == job[t].base + sent[t]
More(t)     == step[t] = "next" /\ sent[t] < job[t].size

Post(t) ==
  /\ qp' = [qp EXCEPT ![t] =
              Append(@, [op |-> job[t].op, base |-> From(t), size |-> SendSize(t)])]
  /\ step' = [step EXCEPT ![t] = "poll"]
  /\ UNCHANGED <<broken, rpc, cq, queue, job, sent, signal, appVars, memVars>>

RdmaRead(t) == job[t].op = "read" /\ More(t) /\ Post(t)

\* OutboundHamal first copies the chunk to its pool ...
CopyToPool(t) ==
  /\ job[t].op = "write" /\ More(t)
  /\ pool' = [pool EXCEPT ![t] =
                [i \in Slots |-> IF i < SendSize(t) THEN local[From(t) + i]
                                 ELSE @[i]]]
  /\ step' = [step EXCEPT ![t] = "post"]
  /\ UNCHANGED <<local, remote, queue, job, sent, signal, appVars, nicVars>>

RdmaWrite(t) == step[t] = "post" /\ Post(t)

Advance(t) == sent' = [sent EXCEPT ![t] = @ + SendSize(t)]

\* Mutant of PollCompletion: it does not wait for an entry (PollOnce).
PollWithoutEntry(t) ==
  /\ step[t] = "poll"
  /\ cq' = IF cq > 0 THEN cq - 1 ELSE cq
  /\ IF job[t].op = "read"
       THEN step' = [step EXCEPT ![t] = "copy"] /\ UNCHANGED sent
       ELSE step' = [step EXCEPT ![t] = "next"] /\ Advance(t)
  /\ UNCHANGED <<queue, job, signal, appVars, memVars, qp, broken, rpc>>

\* PollCompletion takes an entry, of whatever request; OutboundHamal is then
\* done with its chunk, InboundHamal copies it to the caller.  The entry may say
\* that a request failed: PollCompletion returns -1, and no caller looks.
PollCompletion(t) ==
  /\ step[t] = "poll"
  /\ cq > 0 /\ cq' = cq - 1
  /\ IF job[t].op = "read"
       THEN step' = [step EXCEPT ![t] = "copy"] /\ UNCHANGED sent
       ELSE step' = [step EXCEPT ![t] = "next"] /\ Advance(t)
  /\ UNCHANGED <<queue, job, signal, appVars, memVars, qp, broken, rpc>>

CopyFromPool(t) ==
  /\ step[t] = "copy"
  /\ local' = [u \in Units |->
                 IF u \in From(t)..(From(t) + SendSize(t) - 1)
                   THEN pool[t][u - From(t)] ELSE local[u]]
  /\ step' = [step EXCEPT ![t] = "next"]
  /\ Advance(t)
  /\ UNCHANGED <<pool, remote, queue, job, signal, appVars, nicVars>>

\* Mutant of Finish: InboundHamal and OutboundHamal without the last line.
FinishSilently(t) ==
  /\ step[t] = "next" /\ sent[t] >= job[t].size
  /\ step' = [step EXCEPT ![t] = "idle"]
  /\ mode' = IF mode = "small" THEN "idle" ELSE mode
  /\ UNCHANGED <<signal, op, size, transfers, pushed, counter, calls, queue, job,
                 sent, memVars, nicVars>>

\* The chunks are done; small transfers count in TransferSignal too.
Finish(t) ==
  /\ step[t] = "next" /\ sent[t] >= job[t].size
  /\ signal' = signal + 1
  /\ step' = [step EXCEPT ![t] = "idle"]
  /\ mode' = IF mode = "small" THEN "idle" ELSE mode
  /\ UNCHANGED <<op, size, transfers, pushed, counter, calls, queue, job, sent,
                 memVars, nicVars>>

-----------------------------------------------------------------------------
(***************************************************************************)
(* The adapter performs the requests of a queue pair in order, those of    *)
(* different queue pairs in any order.  A write reads its pool when it is  *)
(* performed.                                                              *)
(***************************************************************************)

Perform(t) ==
  /\ qp[t] # <<>> /\ ~broken[t]
  /\ LET wr == Head(qp[t]) IN
     IF wr.op = "read"
       THEN /\ pool' = [pool EXCEPT ![t] =
                          [i \in Slots |-> IF i < wr.size
                                             THEN remote[wr.base + i] ELSE @[i]]]
            /\ UNCHANGED remote
       ELSE /\ remote' = [u \in Units |->
                            IF u \in wr.base..(wr.base + wr.size - 1)
                              THEN pool[t][u - wr.base] ELSE remote[u]]
            /\ UNCHANGED pool
  /\ qp' = [qp EXCEPT ![t] = Tail(@)]
  /\ cq' = cq + 1
  /\ UNCHANGED <<broken, rpc, local, appVars, taskVars>>

\* A request that cannot be performed (the server is gone, a key is wrong) is
\* reported all the same, and the queue pair is then in the error state: it
\* reports every later request as flushed.
Flush(t) ==
  /\ qp[t] # <<>>
  /\ broken[t] \/ Cardinality({u \in Tasks : broken[u]}) < MaxBroken
  /\ broken' = [broken EXCEPT ![t] = TRUE]
  /\ qp' = [qp EXCEPT ![t] = Tail(@)]
  /\ cq' = cq + 1
  /\ UNCHANGED <<rpc, appVars, taskVars, memVars>>

CompleteCall ==
  /\ rpc > 0 /\ rpc' = rpc - 1 /\ cq' = cq + 1
  /\ UNCHANGED <<qp, broken, appVars, taskVars, memVars>>

TaskStep(t) ==
  \/ PopPolling(t) \/ RdmaRead(t) \/ CopyToPool(t) \/ RdmaWrite(t)
  \/ PollCompletion(t) \/ CopyFromPool(t) \/ Finish(t)

Next ==
  \/ \E o \in Ops, s \in Sizes : StartSmall(o, s) \/ StartLarge(o, s)
  \/ PushPolling \/ AwaitSignal \/ Call \/ CompleteCall
  \/ \E t \in Tasks : TaskStep(t) \/ Perform(t) \/ Flush(t)

Spec == Init /\ [][Next]_vars

\* The threads spin, the adapter makes progress.
Fairness ==
  /\ WF_vars(PushPolling) /\ WF_vars(AwaitSignal) /\ WF_vars(CompleteCall)
  /\ \A t \in Tasks : WF_vars(TaskStep(t)) /\ WF_vars(Perform(t) \/ Flush(t))

FairSpec == Spec /\ Fairness

-----------------------------------------------------------------------------
(***************************************************************************)
(* Properties.                                                             *)
(***************************************************************************)

\* Every variable keeps its type.
TypeOK ==
  /\ mode \in {"idle", "small", "push", "await"} /\ op \in Ops /\ size \in Sizes
  /\ transfers \in 0..MaxTransfers /\ pushed \in 0..WorkerNumber
  /\ counter \in 0..SignalPeriod /\ calls \in 0..MaxCalls
  /\ queue \in [Tasks -> Seq(Job)] /\ job \in [Tasks -> Job]
  /\ step \in [Tasks -> {"idle", "next", "post", "poll", "copy"}]
  /\ sent \in [Tasks -> Nat] /\ signal \in Nat
  /\ local \in [Units -> Cells] /\ remote \in [Units -> Cells]
  /\ pool \in [Tasks -> [Slots -> Cells]]
  /\ qp \in [Tasks -> Seq(Job)] /\ broken \in [Tasks -> BOOLEAN] /\ rpc \in Nat /\ cq \in Nat

\* The entries that are or will be in the completion queue are one for each
\* thread that polls, and one of RdmaCall once it has been called: nobody polls
\* for ever, and the queue never fills, not even when requests fail.
CompletionBalance ==
  cq + rpc + MapThenSumSet(LAMBDA t : Len(qp[t]), Tasks)
    = Cardinality({t \in Tasks : step[t] = "poll"})
      + (IF counter = 0 THEN 0 ELSE 1)

\* When RemoteRead or RemoteWrite returns, no request of it is outstanding that
\* would still use the caller's data or a pool.  (Before the first RdmaCall.)
NothingOutstanding ==
  mode = "idle" /\ counter = 0 =>
    \A t \in Tasks : qp[t] = <<>> /\ queue[t] = <<>> /\ step[t] = "idle"

\* When RemoteRead returns, the caller's buffer holds the remote data; when
\* RemoteWrite returns, the remote memory holds the caller's.
Transferred ==
  mode = "idle" /\ transfers > 0 =>
    \A u \in 0..(size - 1) :
      (IF op = "read" THEN local[u] ELSE remote[u]) = <<transfers, u>>

\* The same for transfers below the threshold before the first RdmaCall, on a
\* queue pair that has not failed, whatever the workers have done before and
\* whatever has failed for them.
TransferredByCaller ==
  size < Threshold /\ counter = 0 /\ ~broken[0] => Transferred

\* The parts of a large transfer are disjoint and no part reaches beyond the
\* buffers.  With four workers they make up the whole; with fewer only its first
\* units, as many as the workers can share evenly in whole pages, and what is
\* over (i < 3) is in no part.
InParts ==
  IF WorkerNumber = 4 THEN size ELSE size - (size % (WorkerNumber * Page))

PartsCover ==
  mode = "await" =>
    \A u \in 0..(size + PoolSize) :
      Cardinality({i \in Tasks :
                     Part(i).base <= u /\ u < Part(i).base + Part(i).size})
        = IF u < InParts THEN 1 ELSE 0

\* Every transfer returns, with true, also when its requests fail.
EveryTransferReturns == mode # "idle" ~> mode = "idle"
=============================================================================
