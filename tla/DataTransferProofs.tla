------------------------- MODULE DataTransferProofs -------------------------
(***************************************************************************)
(* Proofs about DataTransfer, for any number of workers up to four, any    *)
(* sizes, pool, page, threshold and signal period, any number of transfers *)
(* and calls, and any queue pairs failing at any time.                     *)
(*                                                                         *)
(* The completion queue is anonymous, so that nothing can be said of one   *)
(* request's completion; what is inductive is how many there are (Balance) *)
(* and who is at work (Scheduled).  Only where the balance leaves a single *)
(* request, in a transfer of the calling thread before the first RdmaCall, *)
(* can the data be followed (Working).                                     *)
(***************************************************************************)
EXTENDS DataTransfer, FiniteLemmas

\* A part of the buffers, and one that a pool can hold.
FitJob == {j \in Job : j.base + j.size <= Max(Sizes)}
Chunk  == {j \in FitJob : j.size <= PoolSize}

\* TypeOK, and what keeps every unit that is copied within the buffers.
Typed ==
  /\ mode \in {"idle", "small", "push", "await"} /\ op \in Ops /\ size \in Sizes
  /\ transfers \in 0..MaxTransfers /\ pushed \in 0..WorkerNumber
  /\ counter \in 0..SignalPeriod /\ calls \in 0..MaxCalls
  /\ queue \in [Tasks -> Seq(FitJob)] /\ job \in [Tasks -> FitJob]
  /\ step \in [Tasks -> {"idle", "next", "post", "poll", "copy"}]
  /\ sent \in [Tasks -> Nat] /\ signal \in Nat
  /\ local \in [Units -> Cells] /\ remote \in [Units -> Cells]
  /\ pool \in [Tasks -> [Slots -> Cells]]
  /\ qp \in [Tasks -> Seq(Chunk)] /\ broken \in [Tasks -> BOOLEAN]
  /\ rpc \in Nat /\ cq \in Nat
  /\ mode = "push" => pushed < WorkerNumber
  /\ \A t \in Tasks :
       /\ sent[t] <= job[t].size
       /\ step[t] \in {"post", "poll", "copy"} => sent[t] < job[t].size

\* Who is at work: nobody between transfers, the calling thread in a small one; in a
\* large one each worker has its part before it or in hand, or is done with it, and
\* TransferSignal counts those that are.
Quiet(t)  == queue[t] = <<>> /\ step[t] = "idle"
Finished  == {t \in Tasks : t < pushed /\ Quiet(t)}
Scheduled ==
  /\ mode = "idle" => \A t \in Tasks : Quiet(t)
  /\ mode = "small" =>
       queue[0] = <<>> /\ step[0] # "idle" /\ \A t \in Tasks \ {0} : Quiet(t)
  /\ mode = "await" => pushed = WorkerNumber
  /\ mode \in {"push", "await"} =>
       /\ \A t \in Tasks : t >= pushed => Quiet(t)
       /\ \A t \in Tasks : step[t] # "idle" => queue[t] = <<>>
       /\ \A t \in Tasks : Len(queue[t]) <= 1
       /\ signal = Cardinality(Finished)

\* CompletionBalance, with the sum as a count.
Outstanding == [t \in Tasks |-> Len(qp[t])]
Polling     == {t \in Tasks : step[t] = "poll"}
Balance ==
  /\ cq + rpc + Total(Outstanding, Tasks)
       = Cardinality(Polling) + (IF counter = 0 THEN 0 ELSE 1)
  /\ counter = 0 => rpc = 0

\* The data of the transfer at hand: where it comes from, what has arrived of it, the
\* chunk in pool 0 and the request for it.
Source     == IF op = "read" THEN remote ELSE local
Target     == IF op = "read" THEN local ELSE remote
Arrived(n) == \A u \in 0..(n - 1) : Target[u] = <<transfers, u>>
Loaded     == \A i \in Slots :
                i < SendSize(0) => pool[0][i] = <<transfers, sent[0] + i>>
Posted     == [op |-> op, base |-> sent[0], size |-> SendSize(0)]

InCaller == mode = "small" /\ counter = 0 /\ ~broken[0]
Caller ==
  /\ mode = "small" => /\ job[0] = [op |-> op, base |-> 0, size |-> size]
                       /\ size < Threshold
  /\ mode \in {"push", "await"} => size >= Threshold
Working ==
  InCaller =>
    /\ \A u \in Units : Source[u] = <<transfers, u>>
    /\ Arrived(sent[0])
    /\ op = "read" => step[0] # "post"
    /\ op = "write" => step[0] # "copy"
    /\ step[0] \in {"post", "copy"} => Loaded
    /\ step[0] = "poll" =>
         \/ /\ cq = 0 /\ qp[0] = <<Posted>>
            /\ op = "write" => Loaded
         \/ /\ cq = 1 /\ qp[0] = <<>>
            /\ op = "read" => Loaded
            /\ op = "write" => Arrived(sent[0] + SendSize(0))

IInv ==
  /\ Typed /\ Scheduled /\ Balance /\ Caller /\ Working /\ TransferredByCaller

-----------------------------------------------------------------------------
(***************************************************************************)
(* The constants and the operators.                                        *)
(***************************************************************************)

LEMMA Constants ==
  /\ WorkerNumber \in 1..4
  /\ {PoolSize, Page, SignalPeriod} \subseteq Nat \ {0}
  /\ {Threshold, MaxTransfers, MaxCalls} \subseteq Nat
  /\ 0 \in Tasks /\ Tasks \subseteq 0..3 /\ IsFiniteSet(Tasks)
<1>1. IsFiniteSet(Tasks)
  BY TransferAssumption, FS_Interval DEF Tasks
<1> QED BY <1>1, TransferAssumption DEF Tasks

\* The buffers are as large as the largest transfer.
LEMMA LargestSize ==
  ASSUME NEW n \in Sizes
  PROVE  Max(Sizes) \in Nat \ {0} /\ n \in Nat \ {0} /\ n <= Max(Sizes)
<1>1. Sizes \in SUBSET Nat /\ IsFiniteSet(Sizes) /\ Sizes # {}
      /\ Sizes \subseteq Nat \ {0}
  BY TransferAssumption
<1> QED BY <1>1, LargestElement

LEMMA Division ==
  ASSUME NEW a \in Nat, NEW b \in Nat \ {0}
  PROVE  /\ a \div b \in Nat /\ a % b \in 0..(b - 1)
         /\ b * (a \div b) + (a % b) = a
BY SMT

\* Equal parts, in whole pages.
LEMMA ShipSizeFits ==
  ASSUME size \in Sizes
  PROVE  ShipSize \in Nat /\ WorkerNumber * ShipSize <= size
<1> DEFINE share == size \div WorkerNumber
           pages == share \div Page
<1>1. WorkerNumber \in Nat \ {0} /\ Page \in Nat \ {0} /\ size \in Nat
  BY Constants, LargestSize
<1>2. share \in Nat /\ WorkerNumber * share <= size
  <2>1. /\ share \in Nat /\ size % WorkerNumber \in 0..(WorkerNumber - 1)
        /\ WorkerNumber * share + (size % WorkerNumber) = size
    BY <1>1, Division
  <2> HIDE DEF share
  <2>2. size % WorkerNumber \in Nat
    BY <2>1, <1>1
  <2>3. WorkerNumber * share \in Nat
    BY <2>1, Constants
  <2> QED BY <2>1, <2>2, <2>3, <1>1
<1> HIDE DEF share
<1>3. pages \in Nat /\ pages * Page <= share
  <2>1. /\ pages \in Nat /\ share % Page \in 0..(Page - 1)
        /\ Page * pages + (share % Page) = share
    BY <1>1, <1>2, Division
  <2> HIDE DEF pages
  <2>2. share % Page \in Nat
    BY <2>1, <1>1
  <2>3. Page * pages \in Nat /\ Page * pages = pages * Page
    BY <2>1, <1>1, SMT
  <2> QED BY <2>1, <2>2, <2>3, <1>2
<1>4. ShipSize = pages * Page
  BY DEF ShipSize, share
<1>5. ShipSize \in Nat /\ ShipSize <= share
  <2> HIDE DEF pages
  <2> QED BY <1>1, <1>3, <1>4, SMT
<1>6. WorkerNumber * ShipSize <= WorkerNumber * share
  <2>1. WorkerNumber \in {1, 2, 3, 4}
    BY Constants
  <2> QED BY <2>1, <1>2, <1>5
<1>7. WorkerNumber * ShipSize \in Nat /\ WorkerNumber * share \in Nat
  <2>1. WorkerNumber \in {1, 2, 3, 4}
    BY Constants
  <2> QED BY <2>1, <1>2, <1>5
<1> QED BY <1>1, <1>2, <1>5, <1>6, <1>7

LEMMA PartFits ==
  ASSUME size \in Sizes, op \in Ops, NEW i \in Tasks
  PROVE  Part(i) \in FitJob
<1>1. /\ size \in Nat /\ size <= Max(Sizes) /\ Max(Sizes) \in Nat
      /\ ShipSize \in Nat /\ WorkerNumber * ShipSize <= size
  BY LargestSize, ShipSizeFits
<1>2. WorkerNumber \in {1, 2, 3, 4} /\ i \in 0..3 /\ i < WorkerNumber
  BY Constants DEF Tasks
<1>3. CASE i = 3
  <2>1. WorkerNumber = 4
    BY <1>2, <1>3
  <2>2. 3 * ShipSize <= size
    BY <1>1, <2>1
  <2>3. Part(i) = [op |-> op, base |-> 3 * ShipSize, size |-> size - 3 * ShipSize]
    BY <1>3 DEF Part
  <2>4. size - 3 * ShipSize \in Nat /\ 3 * ShipSize \in Nat
        /\ 3 * ShipSize + (size - 3 * ShipSize) <= Max(Sizes)
    BY <1>1, <2>2
  <2> QED BY <2>3, <2>4 DEF FitJob, Job
<1>4. CASE i < 3
  <2>1. i \in {0, 1, 2}
    BY <1>2, <1>4
  <2>2. i * ShipSize \in Nat /\ i * ShipSize + ShipSize <= WorkerNumber * ShipSize
    BY <2>1, <1>1, <1>2
  <2>3. i * ShipSize + ShipSize <= Max(Sizes)
    <3>1. WorkerNumber * ShipSize \in Nat
      BY <1>1, <1>2
    <3> QED BY <3>1, <2>2, <1>1
  <2>4. Part(i) = [op |-> op, base |-> i * ShipSize, size |-> ShipSize]
    BY <1>4 DEF Part
  <2> QED BY <2>2, <2>3, <2>4, <1>1 DEF FitJob, Job
<1> QED BY <1>2, <1>3, <1>4

\* The chunk at hand lies in the buffers and fits the pool.
LEMMA ChunkFits ==
  ASSUME Typed, NEW t \in Tasks, sent[t] < job[t].size
  PROVE  /\ SendSize(t) \in 1..PoolSize /\ SendSize(t) \in Nat /\ From(t) \in Nat
         /\ sent[t] + SendSize(t) <= job[t].size
         /\ From(t) + SendSize(t) <= Max(Sizes)
         /\ [op |-> job[t].op, base |-> From(t), size |-> SendSize(t)] \in Chunk
<1>1. /\ job[t].op \in Ops /\ job[t].base \in Nat /\ job[t].size \in Nat
      /\ job[t].base + job[t].size <= Max(Sizes)
      /\ sent[t] \in Nat
  BY DEF Typed, FitJob, Job
<1>2. PoolSize \in Nat \ {0} /\ Max(Sizes) \in Nat
  BY Constants, LargestSize DEF Typed
<1>3. job[t].size - sent[t] \in Nat \ {0}
  BY <1>1
<1>4. SendSize(t) = IF PoolSize <= job[t].size - sent[t] THEN PoolSize
                                                         ELSE job[t].size - sent[t]
  BY <1>2, <1>3, SmallerOfTwo DEF SendSize
<1>5. SendSize(t) \in 1..PoolSize /\ SendSize(t) <= job[t].size - sent[t]
  BY <1>2, <1>3, <1>4
<1>6. From(t) = job[t].base + sent[t]
  BY DEF From
<1> HIDE DEF SendSize, From
<1>7. SendSize(t) \in Nat /\ From(t) \in Nat
  BY <1>1, <1>2, <1>5, <1>6
<1>8. sent[t] + SendSize(t) <= job[t].size
  BY <1>1, <1>5, <1>7
<1>9. From(t) + SendSize(t) <= Max(Sizes)
  BY <1>1, <1>2, <1>6, <1>7, <1>8
<1> QED BY <1>1, <1>5, <1>7, <1>8, <1>9 DEF Chunk, FitJob, Job

\* A unit of it is a unit of the buffers.
LEMMA UnitFits ==
  ASSUME size \in Sizes, NEW b \in Nat, NEW n \in Nat, b + n <= Max(Sizes),
         NEW i \in Nat, i < n
  PROVE  b + i \in Units
BY LargestSize DEF Units

LEMMA TypedIsTypeOK == Typed => TypeOK
<1> SUFFICES ASSUME Typed PROVE TypeOK
  OBVIOUS
<1>1. FitJob \subseteq Job /\ Chunk \subseteq Job
  BY DEF FitJob, Chunk
<1>2. Seq(FitJob) \subseteq Seq(Job) /\ Seq(Chunk) \subseteq Seq(Job)
  BY <1>1
<1>3. job \in [Tasks -> Job]
  BY <1>1 DEF Typed
<1>4. queue \in [Tasks -> Seq(Job)] /\ qp \in [Tasks -> Seq(Job)]
  BY <1>2 DEF Typed
<1> QED BY <1>3, <1>4 DEF Typed, TypeOK

-----------------------------------------------------------------------------
(***************************************************************************)
(* Type correctness.                                                       *)
(***************************************************************************)

LEMMA TypedInit == Init => Typed
<1> SUFFICES ASSUME Init PROVE Typed
  OBVIOUS
<1>1. size \in Sizes /\ Max(Sizes) \in Nat \ {0}
  BY LargestSize DEF Init
<1>2. /\ transfers \in 0..MaxTransfers /\ pushed \in 0..WorkerNumber
      /\ counter \in 0..SignalPeriod /\ calls \in 0..MaxCalls
      /\ mode \in {"idle", "small", "push", "await"} /\ mode # "push"
      /\ op \in Ops /\ signal \in Nat /\ rpc \in Nat /\ cq \in Nat
  BY Constants DEF Init, Ops
<1>3. queue \in [Tasks -> Seq(FitJob)] /\ qp \in [Tasks -> Seq(Chunk)]
      /\ broken \in [Tasks -> BOOLEAN] /\ sent \in [Tasks -> Nat]
  BY DEF Init
<1>4. [op |-> "read", base |-> 0, size |-> 0] \in FitJob
  BY <1>1 DEF FitJob, Job, Ops
<1>5. job \in [Tasks -> FitJob] /\ \A t \in Tasks : sent[t] <= job[t].size
  BY <1>4 DEF Init
<1>6. step \in [Tasks -> {"idle", "next", "post", "poll", "copy"}]
      /\ \A t \in Tasks : step[t] = "idle"
  BY DEF Init
<1>7. local \in [Units -> Cells] /\ remote \in [Units -> Cells]
  <2>1. \A u \in Units : <<0, u>> \in Cells
    BY Constants DEF Cells
  <2> QED BY <2>1 DEF Init
<1>8. pool \in [Tasks -> [Slots -> Cells]]
  <2>1. <<0, 0>> \in Cells
    BY Constants, <1>1 DEF Cells, Units
  <2> QED BY <2>1 DEF Init
<1> QED BY <1>1, <1>2, <1>3, <1>5, <1>6, <1>7, <1>8 DEF Typed

\* The data of a new transfer.
LEMMA FreshType ==
  ASSUME Typed, transfers < MaxTransfers, transfers' = transfers + 1
  PROVE  Fresh \in [Units -> Cells] /\ \A u \in Units : Fresh[u] = <<transfers', u>>
<1>1. transfers' \in 0..MaxTransfers
  BY Constants DEF Typed
<1> QED BY <1>1 DEF Fresh, Cells

LEMMA StartTyped ==
  ASSUME Typed, NEW o \in Ops, NEW n \in Sizes, StartTransfer(o, n)
  PROVE  /\ op' \in Ops /\ size' \in Sizes /\ transfers' \in 0..MaxTransfers
         /\ local' \in [Units -> Cells] /\ remote' \in [Units -> Cells]
         /\ UNCHANGED <<counter, calls, pool, nicVars>>
<1>1. op' = o /\ size' = n /\ transfers' = transfers + 1
      /\ transfers < MaxTransfers
      /\ UNCHANGED <<counter, calls, pool, nicVars>>
  BY DEF StartTransfer
<1>2. local' = Fresh \/ local' = local
  BY DEF StartTransfer
<1>3. remote' = Fresh \/ remote' = remote
  BY DEF StartTransfer
<1>4. Fresh \in [Units -> Cells]
  BY <1>1, FreshType
<1>5. local' \in [Units -> Cells] /\ remote' \in [Units -> Cells]
  BY <1>2, <1>3, <1>4 DEF Typed
<1>6. transfers' \in 0..MaxTransfers
  BY <1>1, Constants DEF Typed
<1> QED BY <1>1, <1>5, <1>6

LEMMA StartSmallTyped ==
  ASSUME Typed, NEW o \in Ops, NEW n \in Sizes, StartSmall(o, n) PROVE Typed'
<1>1. /\ op' \in Ops /\ size' \in Sizes /\ transfers' \in 0..MaxTransfers
      /\ local' \in [Units -> Cells] /\ remote' \in [Units -> Cells]
      /\ UNCHANGED <<counter, calls, pool, nicVars>>
  BY StartTyped DEF StartSmall
<1>2. mode' = "small" /\ UNCHANGED <<pushed, queue, signal>>
  BY DEF StartSmall
<1>3. step' \in [Tasks -> {"idle", "next", "post", "poll", "copy"}]
      /\ sent' \in [Tasks -> Nat]
  BY DEF StartSmall, Typed
<1>4. job' \in [Tasks -> FitJob]
  <2>1. [op |-> o, base |-> 0, size |-> n] \in FitJob
    BY LargestSize DEF FitJob, Job
  <2> QED BY <2>1 DEF StartSmall, Typed
<1>5. \A t \in Tasks : /\ sent'[t] <= job'[t].size
                       /\ step'[t] \in {"post", "poll", "copy"} => sent'[t] < job'[t].size
  <2>1. n \in Nat
    BY LargestSize
  <2> QED BY <2>1 DEF StartSmall, Typed
<1> QED BY <1>1, <1>2, <1>3, <1>4, <1>5 DEF Typed, nicVars

LEMMA StartLargeTyped ==
  ASSUME Typed, NEW o \in Ops, NEW n \in Sizes, StartLarge(o, n) PROVE Typed'
<1>1. /\ op' \in Ops /\ size' \in Sizes /\ transfers' \in 0..MaxTransfers
      /\ local' \in [Units -> Cells] /\ remote' \in [Units -> Cells]
      /\ UNCHANGED <<counter, calls, pool, nicVars>>
  BY StartTyped DEF StartLarge
<1>2. mode' = "push" /\ pushed' = 0 /\ signal' = 0 /\ UNCHANGED <<queue, step, job, sent>>
  BY DEF StartLarge
<1>3. pushed' \in 0..WorkerNumber /\ pushed' < WorkerNumber
  BY <1>2, Constants
<1> QED BY <1>1, <1>2, <1>3 DEF Typed, nicVars

\* What a push does.
LEMMA PushEffect ==
  ASSUME Typed, PushPolling
  PROVE  /\ mode = "push" /\ pushed \in Tasks /\ pushed' = pushed + 1
         /\ pushed' \in 0..WorkerNumber
         /\ mode' = (IF pushed' = WorkerNumber THEN "await" ELSE "push")
         /\ queue' \in [Tasks -> Seq(FitJob)]
         /\ queue'[pushed] = Append(queue[pushed], Part(pushed))
         /\ \A t \in Tasks \ {pushed} : queue'[t] = queue[t]
         /\ UNCHANGED <<op, size, transfers, counter, calls, step, job, sent, signal,
                        memVars, nicVars>>
<1>1. /\ mode = "push" /\ pushed' = pushed + 1
      /\ mode' = (IF pushed' = WorkerNumber THEN "await" ELSE "push")
      /\ queue' = [queue EXCEPT ![pushed] = Append(@, Part(pushed))]
      /\ UNCHANGED <<op, size, transfers, counter, calls, step, job, sent, signal,
                     memVars, nicVars>>
  BY DEF PushPolling
<1>2. pushed \in Tasks /\ pushed' \in 0..WorkerNumber
  BY <1>1, Constants DEF Typed, Tasks
<1>3. Part(pushed) \in FitJob
  BY <1>2, PartFits DEF Typed
<1>4. queue \in [Tasks -> Seq(FitJob)]
  BY DEF Typed
<1>5. Append(queue[pushed], Part(pushed)) \in Seq(FitJob)
  BY <1>2, <1>3, <1>4, AppendFacts
<1> QED BY <1>1, <1>2, <1>4, <1>5

LEMMA PushTyped == ASSUME Typed, PushPolling PROVE Typed'
<1>1. /\ pushed' \in 0..WorkerNumber
      /\ mode' = (IF pushed' = WorkerNumber THEN "await" ELSE "push")
      /\ queue' \in [Tasks -> Seq(FitJob)]
      /\ UNCHANGED <<op, size, transfers, counter, calls, step, job, sent, signal,
                     memVars, nicVars>>
  BY PushEffect
<1>2. mode' \in {"idle", "small", "push", "await"}
      /\ (mode' = "push" => pushed' < WorkerNumber)
  BY <1>1, Constants
<1> QED BY <1>1, <1>2 DEF Typed, memVars, nicVars

LEMMA AwaitTyped == ASSUME Typed, AwaitSignal PROVE Typed'
<1>1. mode' = "idle"
      /\ UNCHANGED <<op, size, transfers, pushed, counter, calls, taskVars, memVars,
                     nicVars>>
  BY DEF AwaitSignal
<1> QED BY <1>1 DEF Typed, taskVars, memVars, nicVars

LEMMA CallTyped == ASSUME Typed, Call PROVE Typed'
<1>1. UNCHANGED <<mode, op, size, transfers, pushed, taskVars, memVars, qp, broken>>
  BY DEF Call
<1>2. calls' \in 0..MaxCalls /\ counter' \in 0..SignalPeriod
  BY Constants DEF Call, Typed
<1>3. rpc' \in Nat /\ cq' \in Nat
  BY DEF Call, Typed
<1> QED BY <1>1, <1>2, <1>3 DEF Typed, taskVars, memVars

LEMMA CompleteTyped == ASSUME Typed, CompleteCall PROVE Typed'
<1>1. UNCHANGED <<qp, broken, appVars, taskVars, memVars>>
  BY DEF CompleteCall
<1>2. rpc' \in Nat /\ cq' \in Nat
  BY DEF CompleteCall, Typed
<1> QED BY <1>1, <1>2 DEF Typed, appVars, taskVars, memVars

LEMMA PopTyped == ASSUME Typed, NEW t \in Tasks, PopPolling(t) PROVE Typed'
<1>1. UNCHANGED <<signal, appVars, memVars, nicVars>>
  BY DEF PopPolling
<1>2. /\ queue \in [Tasks -> Seq(FitJob)] /\ queue[t] \in Seq(FitJob)
      /\ queue[t] # <<>>
  BY DEF PopPolling, Typed
<1>3. Head(queue[t]) \in FitJob /\ Tail(queue[t]) \in Seq(FitJob)
  BY <1>2, TailFacts
<1>4. queue' \in [Tasks -> Seq(FitJob)]
  BY <1>2, <1>3 DEF PopPolling
<1>5. job' \in [Tasks -> FitJob] /\ sent' \in [Tasks -> Nat]
      /\ step' \in [Tasks -> {"idle", "next", "post", "poll", "copy"}]
  BY <1>3 DEF PopPolling, Typed
<1>6. \A u \in Tasks : /\ sent'[u] <= job'[u].size
                       /\ step'[u] \in {"post", "poll", "copy"} => sent'[u] < job'[u].size
  <2>1. job'[t].size \in Nat /\ sent'[t] = 0 /\ step'[t] = "next"
    BY <1>5 DEF PopPolling, Typed, FitJob, Job
  <2>2. \A u \in Tasks \ {t} : sent'[u] = sent[u] /\ job'[u] = job[u] /\ step'[u] = step[u]
    BY DEF PopPolling, Typed
  <2> QED BY <2>1, <2>2 DEF Typed
<1> QED BY <1>1, <1>4, <1>5, <1>6 DEF Typed, appVars, memVars, nicVars

\* What the post of a chunk does.
LEMMA PostEffect ==
  ASSUME Typed, NEW t \in Tasks, sent[t] < job[t].size, Post(t)
  PROVE  /\ step' = [step EXCEPT ![t] = "poll"]
         /\ qp' \in [Tasks -> Seq(Chunk)]
         /\ qp'[t] = Append(qp[t], [op |-> job[t].op, base |-> From(t),
                                    size |-> SendSize(t)])
         /\ Len(qp'[t]) = Len(qp[t]) + 1
         /\ \A u \in Tasks \ {t} : qp'[u] = qp[u]
         /\ UNCHANGED <<broken, rpc, cq, queue, job, sent, signal, appVars, memVars>>
<1>1. qp \in [Tasks -> Seq(Chunk)]
  BY DEF Typed
<1>2. PICK w \in Chunk : w = [op |-> job[t].op, base |-> From(t), size |-> SendSize(t)]
  BY ChunkFits
<1>3. /\ qp' = [qp EXCEPT ![t] = Append(@, w)]
      /\ step' = [step EXCEPT ![t] = "poll"]
      /\ UNCHANGED <<broken, rpc, cq, queue, job, sent, signal, appVars, memVars>>
  BY <1>2 DEF Post
<1>4. Append(qp[t], w) \in Seq(Chunk) /\ Len(Append(qp[t], w)) = Len(qp[t]) + 1
  BY <1>1, <1>2, AppendFacts
<1>5. qp' \in [Tasks -> Seq(Chunk)] /\ qp'[t] = Append(qp[t], w)
      /\ \A u \in Tasks \ {t} : qp'[u] = qp[u]
  BY <1>1, <1>3, <1>4
<1> QED BY <1>2, <1>3, <1>4, <1>5

LEMMA PostTyped ==
  ASSUME Typed, NEW t \in Tasks, sent[t] < job[t].size, Post(t)
  PROVE  Typed'
<1>1. /\ step' = [step EXCEPT ![t] = "poll"]
      /\ qp' \in [Tasks -> Seq(Chunk)]
      /\ UNCHANGED <<broken, rpc, cq, queue, job, sent, signal, appVars, memVars>>
  BY PostEffect
<1>2. step' \in [Tasks -> {"idle", "next", "post", "poll", "copy"}]
  BY <1>1 DEF Typed
<1>3. \A u \in Tasks : step'[u] \in {"post", "poll", "copy"} => sent[u] < job[u].size
  BY <1>1 DEF Typed
<1> QED BY <1>1, <1>2, <1>3 DEF Typed, appVars, memVars

LEMMA CopyToPoolTyped == ASSUME Typed, NEW t \in Tasks, CopyToPool(t) PROVE Typed'
<1>1. /\ sent[t] < job[t].size
      /\ UNCHANGED <<local, remote, queue, job, sent, signal, appVars, nicVars>>
      /\ step' = [step EXCEPT ![t] = "post"]
  BY DEF CopyToPool, More
<1>2. step' \in [Tasks -> {"idle", "next", "post", "poll", "copy"}]
  BY <1>1 DEF Typed
<1>3. \A u \in Tasks : step'[u] \in {"post", "poll", "copy"} => sent[u] < job[u].size
  BY <1>1 DEF Typed
<1>4. pool' \in [Tasks -> [Slots -> Cells]]
  <2>1. /\ SendSize(t) \in Nat /\ From(t) \in Nat
        /\ From(t) + SendSize(t) <= Max(Sizes)
    BY <1>1, ChunkFits
  <2>2. Slots \subseteq Nat /\ local \in [Units -> Cells] /\ size \in Sizes
    BY DEF Slots, Typed
  <2>3. \A i \in Slots : i < SendSize(t) => local[From(t) + i] \in Cells
    BY <2>1, <2>2, UnitFits
  <2>4. pool \in [Tasks -> [Slots -> Cells]]
    BY DEF Typed
  <2>5. pool' = [pool EXCEPT ![t] =
                   [i \in Slots |-> IF i < SendSize(t) THEN local[From(t) + i]
                                    ELSE pool[t][i]]]
    BY <2>4 DEF CopyToPool
  <2>6. [i \in Slots |-> IF i < SendSize(t) THEN local[From(t) + i] ELSE pool[t][i]]
          \in [Slots -> Cells]
    BY <2>3, <2>4
  <2> HIDE DEF Slots, Cells
  <2> QED BY <2>4, <2>5, <2>6
<1> QED BY <1>1, <1>2, <1>3, <1>4 DEF Typed, appVars, nicVars

\* The next chunk.
LEMMA AdvanceTyped ==
  ASSUME Typed, NEW t \in Tasks, sent[t] < job[t].size, Advance(t)
  PROVE  /\ sent' \in [Tasks -> Nat] /\ sent'[t] = sent[t] + SendSize(t)
         /\ \A u \in Tasks : sent'[u] <= job[u].size
         /\ \A u \in Tasks \ {t} : sent'[u] = sent[u]
<1>1. SendSize(t) \in Nat /\ sent[t] + SendSize(t) <= job[t].size
  BY ChunkFits
<1>2. sent \in [Tasks -> Nat]
  BY DEF Typed
<1>3. sent' = [sent EXCEPT ![t] = @ + SendSize(t)]
  BY DEF Advance
<1> HIDE DEF SendSize
<1> QED BY <1>1, <1>2, <1>3 DEF Typed

LEMMA PollTyped == ASSUME Typed, NEW t \in Tasks, PollCompletion(t) PROVE Typed'
<1>1. /\ step[t] = "poll" /\ sent[t] < job[t].size
      /\ UNCHANGED <<queue, job, signal, appVars, memVars, qp, broken, rpc>>
  BY DEF PollCompletion, Typed
<1>2. cq' \in Nat
  BY DEF PollCompletion, Typed
<1>3. step' \in [Tasks -> {"idle", "next", "post", "poll", "copy"}]
  BY DEF PollCompletion, Typed
<1>4. CASE job[t].op = "read"
  <2>1. step' = [step EXCEPT ![t] = "copy"] /\ sent' = sent
    BY <1>4 DEF PollCompletion
  <2>2. \A u \in Tasks : step'[u] \in {"post", "poll", "copy"} => sent[u] < job[u].size
    BY <1>1, <2>1 DEF Typed
  <2> QED BY <1>1, <1>2, <1>3, <2>1, <2>2 DEF Typed, appVars, memVars
<1>5. CASE job[t].op # "read"
  <2>1. step' = [step EXCEPT ![t] = "next"] /\ Advance(t)
    BY <1>5 DEF PollCompletion
  <2>2. /\ sent' \in [Tasks -> Nat]
        /\ \A u \in Tasks : sent'[u] <= job[u].size
        /\ \A u \in Tasks \ {t} : sent'[u] = sent[u]
    BY <1>1, <2>1, AdvanceTyped
  <2>3. \A u \in Tasks : step'[u] \in {"post", "poll", "copy"} => sent'[u] < job[u].size
    BY <2>1, <2>2 DEF Typed
  <2> QED BY <1>1, <1>2, <1>3, <2>2, <2>3 DEF Typed, appVars, memVars
<1> QED BY <1>4, <1>5

LEMMA CopyFromPoolTyped == ASSUME Typed, NEW t \in Tasks, CopyFromPool(t) PROVE Typed'
<1>1. /\ step[t] = "copy" /\ sent[t] < job[t].size /\ Advance(t)
      /\ step' = [step EXCEPT ![t] = "next"]
      /\ UNCHANGED <<pool, remote, queue, job, signal, appVars, nicVars>>
  BY DEF CopyFromPool, Typed
<1>2. step' \in [Tasks -> {"idle", "next", "post", "poll", "copy"}]
  BY <1>1 DEF Typed
<1>3. /\ sent' \in [Tasks -> Nat]
      /\ \A u \in Tasks : sent'[u] <= job[u].size
      /\ \A u \in Tasks \ {t} : sent'[u] = sent[u]
  BY <1>1, AdvanceTyped
<1>4. \A u \in Tasks : step'[u] \in {"post", "poll", "copy"} => sent'[u] < job[u].size
  BY <1>1, <1>3 DEF Typed
<1>5. local' \in [Units -> Cells]
  <2>1. SendSize(t) \in 1..PoolSize /\ From(t) \in Nat /\ PoolSize \in Nat
    BY <1>1, ChunkFits, Constants
  <2>2. pool[t] \in [Slots -> Cells] /\ local \in [Units -> Cells] /\ Units \subseteq Nat
    BY DEF Typed, Units
  <2>3. local' = [u \in Units |->
                    IF u \in From(t)..(From(t) + SendSize(t) - 1)
                      THEN pool[t][u - From(t)] ELSE local[u]]
    BY DEF CopyFromPool
  <2> HIDE DEF From, SendSize
  <2>4. \A u \in Units : u \in From(t)..(From(t) + SendSize(t) - 1)
                           => u - From(t) \in Slots
    BY <2>1, <2>2 DEF Slots
  <2> HIDE DEF Units, Slots, Cells
  <2> QED BY <2>2, <2>3, <2>4
<1> QED BY <1>1, <1>2, <1>3, <1>4, <1>5 DEF Typed, appVars, nicVars

LEMMA FinishTyped == ASSUME Typed, NEW t \in Tasks, Finish(t) PROVE Typed'
<1>1. /\ step' = [step EXCEPT ![t] = "idle"]
      /\ UNCHANGED <<op, size, transfers, pushed, counter, calls, queue, job, sent,
                     memVars, nicVars>>
  BY DEF Finish
<1>2. step' \in [Tasks -> {"idle", "next", "post", "poll", "copy"}]
      /\ signal' \in Nat
  BY DEF Finish, Typed
<1>3. \A u \in Tasks : step'[u] \in {"post", "poll", "copy"} => sent[u] < job[u].size
  BY <1>1 DEF Typed
<1>4. mode' \in {"idle", "small", "push", "await"}
      /\ (mode' = "push" => pushed' < WorkerNumber)
  BY <1>1 DEF Finish, Typed
<1> QED BY <1>1, <1>2, <1>3, <1>4 DEF Typed, memVars, nicVars

\* What the adapter takes from a queue pair.
LEMMA TakeEffect ==
  ASSUME Typed, NEW t \in Tasks, qp[t] # <<>>, qp' = [qp EXCEPT ![t] = Tail(@)]
  PROVE  /\ qp' \in [Tasks -> Seq(Chunk)] /\ Head(qp[t]) \in Chunk
         /\ qp'[t] = Tail(qp[t])
         /\ Len(qp[t]) \in Nat \ {0} /\ Len(qp'[t]) = Len(qp[t]) - 1
         /\ \A u \in Tasks \ {t} : qp'[u] = qp[u]
<1>1. qp \in [Tasks -> Seq(Chunk)] /\ qp[t] \in Seq(Chunk)
  BY DEF Typed
<1>2. /\ Head(qp[t]) \in Chunk /\ Tail(qp[t]) \in Seq(Chunk)
      /\ Len(qp[t]) \in Nat \ {0} /\ Len(Tail(qp[t])) = Len(qp[t]) - 1
  BY <1>1, TailFacts
<1> QED BY <1>1, <1>2

LEMMA PerformTyped == ASSUME Typed, NEW t \in Tasks, Perform(t) PROVE Typed'
<1>1. /\ qp[t] # <<>> /\ qp' = [qp EXCEPT ![t] = Tail(@)]
      /\ UNCHANGED <<broken, rpc, local, appVars, taskVars>>
  BY DEF Perform
<1>2. cq' \in Nat
  BY DEF Perform, Typed
<1>3. qp' \in [Tasks -> Seq(Chunk)]
  BY <1>1, TakeEffect
<1>4. PICK wr \in Chunk : wr = Head(qp[t])
  BY <1>1, TakeEffect
<1>5. wr.base \in Nat /\ wr.size \in Nat /\ wr.base + wr.size <= Max(Sizes)
      /\ wr.size <= PoolSize
  BY DEF Chunk, FitJob, Job
<1>6. /\ pool \in [Tasks -> [Slots -> Cells]] /\ remote \in [Units -> Cells]
      /\ size \in Sizes /\ Slots \subseteq Nat /\ Units \subseteq Nat
      /\ PoolSize \in Nat
  <2>1. Slots \subseteq Nat /\ Units \subseteq Nat
    BY DEF Slots, Units
  <2> QED BY <2>1, Constants DEF Typed
<1>7. pool' \in [Tasks -> [Slots -> Cells]] /\ remote' \in [Units -> Cells]
  <2>1. CASE wr.op = "read"
    <3>1. remote' = remote
          /\ pool' = [pool EXCEPT ![t] =
               [i \in Slots |-> IF i < wr.size THEN remote[wr.base + i] ELSE pool[t][i]]]
      BY <1>4, <1>6, <2>1 DEF Perform
    <3>2. \A i \in Slots : i < wr.size => remote[wr.base + i] \in Cells
      BY <1>5, <1>6, UnitFits
    <3>3. [i \in Slots |-> IF i < wr.size THEN remote[wr.base + i] ELSE pool[t][i]]
            \in [Slots -> Cells]
      BY <1>6, <3>2
    <3> QED BY <1>6, <3>1, <3>3
  <2>2. CASE wr.op # "read"
    <3>1. pool' = pool
          /\ remote' = [u \in Units |-> IF u \in wr.base..(wr.base + wr.size - 1)
                                          THEN pool[t][u - wr.base] ELSE remote[u]]
      BY <1>4, <2>2 DEF Perform
    <3>2. \A u \in Units : u \in wr.base..(wr.base + wr.size - 1)
                             => u - wr.base \in Slots
      BY <1>5, <1>6 DEF Slots
    <3> QED BY <1>6, <3>1, <3>2
  <2> QED BY <2>1, <2>2
<1> QED BY <1>1, <1>2, <1>3, <1>7 DEF Typed, appVars, taskVars

LEMMA FlushTyped == ASSUME Typed, NEW t \in Tasks, Flush(t) PROVE Typed'
<1>1. /\ qp[t] # <<>> /\ qp' = [qp EXCEPT ![t] = Tail(@)]
      /\ UNCHANGED <<rpc, appVars, taskVars, memVars>>
  BY DEF Flush
<1>2. cq' \in Nat /\ broken' \in [Tasks -> BOOLEAN]
  BY DEF Flush, Typed
<1>3. qp' \in [Tasks -> Seq(Chunk)]
  BY <1>1, TakeEffect
<1> QED BY <1>1, <1>2, <1>3 DEF Typed, appVars, taskVars, memVars

LEMMA TypedStep == ASSUME Typed, [Next]_vars PROVE Typed'
<1>1. ASSUME NEW o \in Ops, NEW n \in Sizes, StartSmall(o, n) \/ StartLarge(o, n)
      PROVE  Typed'
  BY <1>1, StartSmallTyped, StartLargeTyped
<1>2. ASSUME PushPolling \/ AwaitSignal \/ Call \/ CompleteCall PROVE Typed'
  BY <1>2, PushTyped, AwaitTyped, CallTyped, CompleteTyped
<1>3. ASSUME NEW t \in Tasks, TaskStep(t) PROVE Typed'
  <2>1. ASSUME RdmaRead(t) PROVE Typed'
    BY <2>1, PostTyped DEF RdmaRead, More
  <2>2. ASSUME RdmaWrite(t) PROVE Typed'
    <3>1. sent[t] < job[t].size /\ Post(t)
      BY <2>2 DEF RdmaWrite, Typed
    <3> QED BY <3>1, PostTyped
  <2> QED BY <1>3, <2>1, <2>2, PopTyped, CopyToPoolTyped, PollTyped, CopyFromPoolTyped,
             FinishTyped DEF TaskStep
<1>4. ASSUME NEW t \in Tasks, Perform(t) \/ Flush(t) PROVE Typed'
  BY <1>4, PerformTyped, FlushTyped
<1>5. ASSUME UNCHANGED vars PROVE Typed'
  BY <1>5 DEF Typed, vars, appVars, taskVars, memVars, nicVars
<1> QED BY <1>1, <1>2, <1>3, <1>4, <1>5 DEF Next

-----------------------------------------------------------------------------
(***************************************************************************)
(* Who is at work.                                                         *)
(***************************************************************************)

LEMMA ScheduledInit == Init => Scheduled
BY DEF Init, Scheduled, Quiet

LEMMA ScheduledKept ==
  ASSUME Scheduled, UNCHANGED <<mode, pushed, queue, step, signal>> PROVE Scheduled'
<1>1. Finished' = Finished /\ \A t \in Tasks : Quiet(t)' <=> Quiet(t)
  BY DEF Finished, Quiet
<1> QED BY <1>1 DEF Scheduled

LEMMA FinishedFinite == IsFiniteSet(Finished) /\ Cardinality(Finished) \in Nat
<1>1. Finished \in SUBSET Tasks /\ IsFiniteSet(Tasks)
  BY Constants DEF Finished
<1> QED BY <1>1, FS_Subset, FS_CardinalityType

\* A thread that is at work stays so.
LEMMA BusyKept ==
  ASSUME Scheduled, NEW t \in Tasks, step[t] # "idle", step'[t] # "idle",
         \A u \in Tasks \ {t} : step'[u] = step[u],
         UNCHANGED <<mode, pushed, queue, signal>>
  PROVE  Scheduled'
<1>1. \A u \in Tasks : (Quiet(u)' <=> Quiet(u)) /\ (step'[u] = "idle" <=> step[u] = "idle")
  BY DEF Quiet
<1>2. Finished' = Finished
  BY <1>1 DEF Finished
<1> QED BY <1>1, <1>2, Constants DEF Scheduled

LEMMA StartScheduled ==
  ASSUME Typed, Scheduled, NEW o \in Ops, NEW n \in Sizes,
         StartSmall(o, n) \/ StartLarge(o, n)
  PROVE  Scheduled'
<1>1. \A t \in Tasks : Quiet(t)
  BY DEF StartSmall, StartLarge, StartTransfer, Scheduled
<1>2. CASE StartSmall(o, n)
  <2>1. mode' = "small" /\ queue' = queue /\ step' = [step EXCEPT ![0] = "next"]
    BY <1>2 DEF StartSmall
  <2>2. step'[0] = "next" /\ \A t \in Tasks \ {0} : step'[t] = step[t]
    BY <2>1, Constants DEF Typed
  <2> QED BY <1>1, <2>1, <2>2, Constants DEF Scheduled, Quiet
<1>3. CASE StartLarge(o, n)
  <2>1. mode' = "push" /\ pushed' = 0 /\ signal' = 0 /\ UNCHANGED <<queue, step>>
    BY <1>3 DEF StartLarge
  <2>2. \A t \in Tasks : Quiet(t)'
    BY <1>1, <2>1 DEF Quiet
  <2>3. Finished' = {}
    <3>1. \A t \in Tasks : ~ (t < pushed')
      BY <2>1, Constants
    <3> QED BY <3>1 DEF Finished
  <2>4. signal' = Cardinality(Finished')
    BY <2>1, <2>3, FS_EmptySet
  <2>5. \A t \in Tasks : Len(queue'[t]) <= 1 /\ (step'[t] # "idle" => queue'[t] = <<>>)
    BY <2>2 DEF Quiet
  <2> QED BY <2>1, <2>2, <2>4, <2>5 DEF Scheduled
<1> QED BY <1>2, <1>3

LEMMA PushScheduled == ASSUME Typed, Scheduled, PushPolling PROVE Scheduled'
<1>1. /\ mode = "push" /\ pushed \in Tasks /\ pushed' = pushed + 1
      /\ mode' \in {"push", "await"} /\ (mode' = "await" => pushed' = WorkerNumber)
      /\ queue'[pushed] = Append(queue[pushed], Part(pushed))
      /\ \A t \in Tasks \ {pushed} : queue'[t] = queue[t]
      /\ UNCHANGED <<step, signal>>
  BY PushEffect
<1>2. /\ \A t \in Tasks : t >= pushed => Quiet(t)
      /\ \A t \in Tasks : step[t] # "idle" => queue[t] = <<>>
      /\ \A t \in Tasks : Len(queue[t]) <= 1
      /\ signal = Cardinality(Finished)
  BY <1>1 DEF Scheduled
<1>3. pushed \in Nat /\ Tasks \subseteq Nat
  BY <1>1, Constants
<1>4. PICK p \in Tasks : p = pushed
  BY <1>1
<1>5. Quiet(p)
  BY <1>2, <1>3, <1>4
<1>6. queue'[p] = <<Part(p)>> /\ step'[p] = "idle"
  BY <1>1, <1>4, <1>5 DEF Quiet
<1>7. ~Quiet(p)' /\ Len(queue'[p]) <= 1
  BY <1>6 DEF Quiet
<1>8. \A t \in Tasks \ {p} : queue'[t] = queue[t] /\ (Quiet(t)' <=> Quiet(t))
  BY <1>1, <1>4 DEF Quiet
<1>14. \A t \in Tasks : t < pushed' /\ t # p <=> t < pushed
  <2>1. pushed = p /\ pushed' = p + 1 /\ p \in Nat
    BY <1>1, <1>3, <1>4
  <2>2. ASSUME NEW t \in Nat PROVE t < p + 1 /\ t # p <=> t < p
    BY <2>1
  <2> QED BY <1>3, <2>1, <2>2
<1>9. Finished' = Finished
  <2>1. \A t \in Tasks : t < pushed' /\ Quiet(t)' <=> t < pushed /\ Quiet(t)
    BY <1>7, <1>8, <1>14
  <2> QED BY <2>1 DEF Finished
<1>10. \A t \in Tasks : t >= pushed' => t # p /\ t >= pushed
  BY <1>1, <1>3, <1>4
<1>11. \A t \in Tasks : t >= pushed' => Quiet(t)'
  BY <1>2, <1>8, <1>10
<1>12. \A t \in Tasks : step'[t] # "idle" => queue'[t] = <<>>
  BY <1>1, <1>2, <1>6, <1>8
<1>13. \A t \in Tasks : Len(queue'[t]) <= 1
  BY <1>2, <1>7, <1>8
<1> QED BY <1>1, <1>2, <1>9, <1>11, <1>12, <1>13 DEF Scheduled

LEMMA AwaitScheduled == ASSUME Typed, Scheduled, AwaitSignal PROVE Scheduled'
<1>1. mode = "await" /\ mode' = "idle" /\ signal = WorkerNumber /\ UNCHANGED <<queue, step>>
  BY DEF AwaitSignal, taskVars
<1>2. signal = Cardinality(Finished)
  BY <1>1 DEF Scheduled
<1>3. Cardinality(Tasks) = WorkerNumber
  BY Constants, FS_Interval DEF Tasks
<1>4. Finished \in SUBSET Tasks
  BY DEF Finished
<1>5. Finished = Tasks
  BY <1>1, <1>2, <1>3, <1>4, Constants, FS_Subset
<1>6. \A t \in Tasks : Quiet(t)'
  BY <1>1, <1>5 DEF Finished, Quiet
<1> QED BY <1>1, <1>6 DEF Scheduled

LEMMA PopScheduled ==
  ASSUME Typed, Scheduled, NEW t \in Tasks, PopPolling(t) PROVE Scheduled'
<1>1. /\ step[t] = "idle" /\ queue[t] # <<>>
      /\ queue' = [queue EXCEPT ![t] = Tail(@)]
      /\ step' = [step EXCEPT ![t] = "next"]
      /\ UNCHANGED <<mode, pushed, signal>>
  BY DEF PopPolling, appVars
<1>2. /\ queue'[t] = Tail(queue[t]) /\ step'[t] = "next"
      /\ \A u \in Tasks \ {t} : queue'[u] = queue[u] /\ step'[u] = step[u]
  BY <1>1 DEF Typed
<1>3. mode \in {"push", "await"}
  BY <1>1, Constants DEF Scheduled, Quiet, Typed
<1>4. Len(queue[t]) <= 1 /\ queue[t] \in Seq(FitJob)
  BY <1>3 DEF Scheduled, Typed
<1>5. queue'[t] = <<>>
  <2>1. /\ Len(queue[t]) \in Nat \ {0} /\ Len(Tail(queue[t])) = Len(queue[t]) - 1
        /\ Tail(queue[t]) \in Seq(FitJob)
    BY <1>1, <1>4, TailFacts
  <2> QED BY <1>2, <1>4, <2>1, LenFacts
<1>6. \A u \in Tasks : Quiet(u)' <=> Quiet(u)
  BY <1>1, <1>2 DEF Quiet
<1>7. Finished' = Finished
  BY <1>1, <1>6 DEF Finished
<1>8. \A u \in Tasks : step'[u] # "idle" => queue'[u] = <<>>
  BY <1>2, <1>3, <1>5 DEF Scheduled
<1>9. \A u \in Tasks : Len(queue'[u]) <= 1
  BY <1>2, <1>3, <1>5 DEF Scheduled
<1>10. \A u \in Tasks : u >= pushed' => Quiet(u)'
  BY <1>1, <1>3, <1>6 DEF Scheduled
<1> QED BY <1>1, <1>3, <1>7, <1>8, <1>9, <1>10 DEF Scheduled

LEMMA FinishScheduled ==
  ASSUME Typed, Scheduled, NEW t \in Tasks, Finish(t) PROVE Scheduled'
<1>1. /\ step[t] = "next" /\ signal' = signal + 1
      /\ step' = [step EXCEPT ![t] = "idle"]
      /\ mode' = (IF mode = "small" THEN "idle" ELSE mode)
      /\ UNCHANGED <<pushed, queue>>
  BY DEF Finish
<1>2. step'[t] = "idle" /\ \A u \in Tasks \ {t} : step'[u] = step[u]
  BY <1>1 DEF Typed
<1>3. CASE mode = "small"
  <2>1. queue[0] = <<>> /\ \A u \in Tasks \ {0} : Quiet(u)
    BY <1>3 DEF Scheduled
  <2>2. t = 0
    BY <1>1, <2>1 DEF Quiet
  <2>3. \A u \in Tasks : Quiet(u)'
    BY <1>1, <1>2, <2>1, <2>2 DEF Quiet
  <2> QED BY <1>1, <1>3, <2>3 DEF Scheduled
<1>4. CASE mode \in {"push", "await"}
  <2>1. /\ \A u \in Tasks : u >= pushed => Quiet(u)
        /\ \A u \in Tasks : step[u] # "idle" => queue[u] = <<>>
        /\ \A u \in Tasks : Len(queue[u]) <= 1
        /\ signal = Cardinality(Finished)
    BY <1>4 DEF Scheduled
  <2>2. ~Quiet(t) /\ queue[t] = <<>>
    BY <1>1, <2>1 DEF Quiet
  <2>3. t < pushed
    <3>1. pushed \in Nat /\ t \in Nat
      BY Constants DEF Typed
    <3> QED BY <2>1, <2>2, <3>1
  <2>4. Quiet(t)' /\ \A u \in Tasks \ {t} : Quiet(u)' <=> Quiet(u)
    BY <1>1, <1>2, <2>2 DEF Quiet
  <2>5. Finished' = Finished \cup {t} /\ t \notin Finished
    BY <1>1, <2>2, <2>3, <2>4 DEF Finished
  <2>6. Cardinality(Finished') = Cardinality(Finished) + 1
    BY <2>5, FinishedFinite, FS_AddElement
  <2>7. signal' = Cardinality(Finished')
    BY <1>1, <2>1, <2>6
  <2>8. \A u \in Tasks : step'[u] # "idle" => queue'[u] = <<>>
    BY <1>1, <1>2, <2>1
  <2>9. \A u \in Tasks : u >= pushed' => Quiet(u)'
    BY <1>1, <2>1, <2>4
  <2>10. mode' = mode /\ (mode' = "await" => pushed' = WorkerNumber)
    BY <1>1, <1>4 DEF Scheduled
  <2> QED BY <1>1, <1>4, <2>1, <2>7, <2>8, <2>9, <2>10 DEF Scheduled
<1>5. mode # "idle"
  BY <1>1 DEF Scheduled, Quiet
<1> QED BY <1>3, <1>4, <1>5 DEF Typed

LEMMA WorkScheduled ==
  ASSUME Typed, Scheduled, NEW t \in Tasks,
         RdmaRead(t) \/ CopyToPool(t) \/ RdmaWrite(t) \/ PollCompletion(t)
           \/ CopyFromPool(t)
  PROVE  Scheduled'
<1>1. step[t] # "idle" /\ UNCHANGED <<mode, pushed, queue, signal>>
  BY DEF RdmaRead, CopyToPool, RdmaWrite, PollCompletion, CopyFromPool, Post, More,
         appVars
<1>2. PICK k \in {"next", "post", "poll", "copy"} : step' = [step EXCEPT ![t] = k]
  BY DEF RdmaRead, CopyToPool, RdmaWrite, PollCompletion, CopyFromPool, Post
<1>3. step'[t] # "idle" /\ \A u \in Tasks \ {t} : step'[u] = step[u]
  BY <1>2 DEF Typed
<1> QED BY <1>1, <1>3, BusyKept

LEMMA ScheduledStep == ASSUME Typed, Scheduled, [Next]_vars PROVE Scheduled'
<1>1. ASSUME NEW o \in Ops, NEW n \in Sizes, StartSmall(o, n) \/ StartLarge(o, n)
      PROVE  Scheduled'
  BY <1>1, StartScheduled
<1>2. ASSUME PushPolling \/ AwaitSignal PROVE Scheduled'
  BY <1>2, PushScheduled, AwaitScheduled
<1>3. ASSUME NEW t \in Tasks, TaskStep(t) PROVE Scheduled'
  BY <1>3, PopScheduled, WorkScheduled, FinishScheduled DEF TaskStep
<1>4. ASSUME NEW t \in Tasks, Perform(t) \/ Flush(t) PROVE Scheduled'
  BY <1>4, ScheduledKept DEF Perform, Flush, appVars, taskVars
<1>5. ASSUME Call \/ CompleteCall \/ UNCHANGED vars PROVE Scheduled'
  BY <1>5, ScheduledKept DEF Call, CompleteCall, vars, appVars, taskVars
<1> QED BY <1>1, <1>2, <1>3, <1>4, <1>5 DEF Next

-----------------------------------------------------------------------------
(***************************************************************************)
(* The completions.                                                        *)
(***************************************************************************)

LEMMA OutstandingType ==
  ASSUME Typed
  PROVE  /\ Outstanding \in [Tasks -> Nat] /\ Total(Outstanding, Tasks) \in Nat
         /\ \A t \in Tasks : Outstanding[t] = Len(qp[t])
<1>1. Outstanding \in [Tasks -> Nat] /\ \A t \in Tasks : Outstanding[t] = Len(qp[t])
  BY DEF Outstanding, Typed
<1> QED BY <1>1, Constants, TotalType

LEMMA OutstandingTypeNext ==
  ASSUME Typed'
  PROVE  /\ Outstanding' \in [Tasks -> Nat] /\ Total(Outstanding, Tasks)' \in Nat
         /\ \A t \in Tasks : Outstanding'[t] = Len(qp'[t])
         /\ Total(Outstanding, Tasks)' = Total(Outstanding', Tasks)
<1>1. qp' \in [Tasks -> Seq(Chunk)]
  BY DEF Typed
<1>2. Outstanding' \in [Tasks -> Nat] /\ \A t \in Tasks : Outstanding'[t] = Len(qp'[t])
  BY <1>1 DEF Outstanding
<1>3. Total(Outstanding, Tasks)' = Total(Outstanding', Tasks)
  BY DEF Total, Pile, Tasks
<1>4. Total(Outstanding', Tasks) \in Nat
  BY <1>2, Constants, TotalType
<1> QED BY <1>2, <1>3, <1>4

LEMMA PollingFinite == IsFiniteSet(Polling) /\ Cardinality(Polling) \in Nat
<1>1. Polling \in SUBSET Tasks
  BY DEF Polling
<1> QED BY <1>1, Constants, FS_Subset, FS_CardinalityType

\* The sum of CompletionBalance is a count.
LEMMA OutstandingTotal ==
  ASSUME Typed
  PROVE  MapThenSumSet(LAMBDA t : Len(qp[t]), Tasks) = Total(Outstanding, Tasks)
<1> DEFINE turn(g) == [s \in SUBSET Tasks |-> IF s = {} THEN 0
                         ELSE Len(qp[Pick(s)]) + g[s \ {Pick(s)}]]
           sum == CHOOSE g : g = turn(g)
<1>1. MapThenSumSet(LAMBDA t : Len(qp[t]), Tasks) = sum[Tasks]
  BY Zenon DEF MapThenSumSet, MapThenFoldSet, Pick
<1>2. \A g : turn(g) = Turn(Outstanding, Tasks, g)
  BY PickIn DEF Outstanding, Turn
<1>3. \E g : g = turn(g)
  <2> DEFINE count == [s \in SUBSET Tasks |-> Total(Outstanding, s)]
  <2>1. count = Turn(Outstanding, Tasks, count)
    BY OutstandingType, Constants, CountTurns
  <2>2. count = turn(count)
    BY <2>1, <1>2
  <2> HIDE DEF count, turn
  <2> QED BY <2>2
<1> HIDE DEF turn
<1>4. sum = turn(sum)
  BY <1>3, Zenon DEF sum
<1> HIDE DEF sum
<1>5. sum = Turn(Outstanding, Tasks, sum)
  BY <1>2, <1>4
<1>6. sum[Tasks] = Total(Outstanding, Tasks)
  BY <1>5, OutstandingType, Constants, TurnsAreCount
<1> QED BY <1>1, <1>6

LEMMA BalanceIsCompletionBalance == Typed /\ Balance => CompletionBalance
BY OutstandingTotal DEF Balance, CompletionBalance, Polling

\* The queue pair of one task gets longer or shorter by one request.
LEMMA OutstandingStep ==
  ASSUME Typed, Typed', NEW t \in Tasks, \A u \in Tasks \ {t} : qp'[u] = qp[u]
  PROVE  Total(Outstanding, Tasks)' + Len(qp[t]) = Total(Outstanding, Tasks) + Len(qp'[t])
<1>1. /\ Outstanding \in [Tasks -> Nat] /\ Outstanding' \in [Tasks -> Nat]
      /\ \A u \in Tasks : Outstanding[u] = Len(qp[u]) /\ Outstanding'[u] = Len(qp'[u])
      /\ Total(Outstanding, Tasks)' = Total(Outstanding', Tasks)
  BY OutstandingType, OutstandingTypeNext
<1>2. PICK f \in [Tasks -> Nat], g \in [Tasks -> Nat] :
        f = Outstanding /\ g = Outstanding'
  BY <1>1
<1>3. \A u \in Tasks \ {t} : g[u] = f[u]
  BY <1>1, <1>2
<1>4. IsFiniteSet(Tasks)
  BY Constants
<1>5. Total(g, Tasks) + f[t] = Total(f, Tasks) + g[t]
  BY <1>3, <1>4, TotalUpdate
<1> QED BY <1>1, <1>2, <1>5

\* A thread begins or ends to poll.
LEMMA PollingStep ==
  ASSUME Typed, NEW t \in Tasks, NEW k, step' = [step EXCEPT ![t] = k]
  PROVE  Cardinality(Polling') = Cardinality(Polling)
           + (IF k = "poll" /\ step[t] # "poll" THEN 1 ELSE 0)
           - (IF k # "poll" /\ step[t] = "poll" THEN 1 ELSE 0)
<1>1. step'[t] = k /\ \A u \in Tasks \ {t} : step'[u] = step[u]
  BY DEF Typed
<1>2. CASE k = "poll"
  <2>1. Polling' = Polling \cup {t}
    BY <1>1, <1>2 DEF Polling
  <2>2. t \in Polling <=> step[t] = "poll"
    BY DEF Polling
  <2> QED BY <1>2, <2>1, <2>2, PollingFinite, FS_AddElement
<1>3. CASE k # "poll"
  <2>1. Polling' = Polling \ {t}
    BY <1>1, <1>3 DEF Polling
  <2>2. t \in Polling <=> step[t] = "poll"
    BY DEF Polling
  <2>3. Cardinality(Polling') = IF t \in Polling THEN Cardinality(Polling) - 1
                                                 ELSE Cardinality(Polling)
    BY <2>1, PollingFinite, FS_RemoveElement
  <2> QED BY <1>3, <2>2, <2>3, PollingFinite
<1> QED BY <1>2, <1>3

LEMMA BalanceInit == Init => Balance
<1> SUFFICES ASSUME Init PROVE Balance
  OBVIOUS
<1>1. Outstanding \in [Tasks -> Nat] /\ \A t \in Tasks : Outstanding[t] = 0
  BY DEF Init, Outstanding
<1>2. Total(Outstanding, Tasks) = 0
  BY <1>1, Constants, TotalZero
<1>3. Polling = {}
  BY DEF Init, Polling
<1>4. Cardinality(Polling) = 0
  BY <1>3, FS_EmptySet
<1> QED BY <1>2, <1>4 DEF Init, Balance

LEMMA BalanceKept ==
  ASSUME Balance, UNCHANGED <<cq, rpc, counter, qp>>, Polling' = Polling PROVE Balance'
<1>1. Outstanding' = Outstanding
  BY DEF Outstanding
<1>2. Total(Outstanding, Tasks)' = Total(Outstanding, Tasks)
  BY <1>1 DEF Total, Pile, Tasks
<1> QED BY <1>2 DEF Balance

LEMMA CallBalance == ASSUME Typed, Balance, Call PROVE Balance'
<1>1. /\ counter' = (IF counter = SignalPeriod THEN 1 ELSE counter + 1)
      /\ counter = SignalPeriod => cq > 0
      /\ cq' = (IF counter = SignalPeriod THEN cq - 1 ELSE cq)
      /\ rpc' = (IF counter \in {0, SignalPeriod} THEN rpc + 1 ELSE rpc)
      /\ UNCHANGED <<qp, step>>
  BY DEF Call, taskVars
<1>2. Polling' = Polling /\ Outstanding' = Outstanding
  BY <1>1 DEF Polling, Outstanding
<1>3. Total(Outstanding, Tasks)' = Total(Outstanding, Tasks)
  BY <1>2 DEF Total, Pile, Tasks
<1>8. SignalPeriod \in Nat \ {0}
  BY Constants
<1>4. /\ Total(Outstanding, Tasks) \in Nat /\ Cardinality(Polling) \in Nat
      /\ cq \in Nat /\ rpc \in Nat /\ counter \in Nat /\ SignalPeriod \in Nat \ {0}
  BY <1>8, OutstandingType, PollingFinite DEF Typed
<1>5. cq + rpc + Total(Outstanding, Tasks)
       = Cardinality(Polling) + (IF counter = 0 THEN 0 ELSE 1)
  BY DEF Balance
<1>6. counter' # 0
  BY <1>1, <1>4
<1>7. cq' + rpc' = cq + rpc + (IF counter = 0 THEN 1 ELSE 0)
  BY <1>1, <1>4
<1>9. cq' + rpc' + Total(Outstanding, Tasks) = Cardinality(Polling) + 1
  <2>1. PICK a \in Nat, b \in Nat, c \in Nat :
          /\ a = Total(Outstanding, Tasks) /\ b = Cardinality(Polling)
          /\ c = cq + rpc
    <3>1. cq + rpc \in Nat
      BY <1>4
    <3> QED BY <1>4, <3>1, Zenon
  <2>2. c + a = b + (IF counter = 0 THEN 0 ELSE 1)
    BY <1>5, <2>1
  <2>3. cq' + rpc' = c + (IF counter = 0 THEN 1 ELSE 0)
    BY <1>7, <2>1
  <2>4. c + (IF counter = 0 THEN 1 ELSE 0) + a = b + 1
    BY <2>2
  <2> QED BY <2>1, <2>3, <2>4
<1> QED BY <1>2, <1>3, <1>6, <1>9 DEF Balance

LEMMA CompleteBalance == ASSUME Typed, Balance, CompleteCall PROVE Balance'
<1>1. rpc > 0 /\ rpc' = rpc - 1 /\ cq' = cq + 1 /\ UNCHANGED <<qp, step, counter>>
  BY DEF CompleteCall, appVars, taskVars
<1>2. Polling' = Polling /\ Outstanding' = Outstanding
  BY <1>1 DEF Polling, Outstanding
<1>3. Total(Outstanding, Tasks)' = Total(Outstanding, Tasks)
  BY <1>2 DEF Total, Pile, Tasks
<1>4. cq' + rpc' = cq + rpc /\ counter # 0
  BY <1>1 DEF Typed, Balance
<1> QED BY <1>1, <1>2, <1>3, <1>4 DEF Balance

\* A post adds a request and a thread that polls.
LEMMA PostBalance ==
  ASSUME Typed, Typed', Balance, NEW t \in Tasks, step[t] # "poll",
         sent[t] < job[t].size, Post(t)
  PROVE  Balance'
<1>1. /\ step' = [step EXCEPT ![t] = "poll"] /\ UNCHANGED <<cq, rpc, counter>>
      /\ Len(qp'[t]) = Len(qp[t]) + 1 /\ \A u \in Tasks \ {t} : qp'[u] = qp[u]
  BY PostEffect DEF appVars
<1>2. Len(qp[t]) \in Nat /\ Len(qp'[t]) \in Nat
  <2>1. qp[t] \in Seq(Chunk) /\ qp'[t] \in Seq(Chunk)
    BY PostEffect DEF Typed
  <2> QED BY <2>1, LenFacts
<1>3. Total(Outstanding, Tasks)' + Len(qp[t]) = Total(Outstanding, Tasks) + Len(qp'[t])
  BY <1>1, OutstandingStep
<1>4. Total(Outstanding, Tasks) \in Nat /\ Total(Outstanding, Tasks)' \in Nat
  BY OutstandingType, OutstandingTypeNext
<1>5. Total(Outstanding, Tasks)' = Total(Outstanding, Tasks) + 1
  BY <1>1, <1>2, <1>3, <1>4
<1>6. Cardinality(Polling') = Cardinality(Polling) + 1
  <2>1. Cardinality(Polling')
          = Cardinality(Polling) + (IF step[t] # "poll" THEN 1 ELSE 0) - 0
    BY <1>1, PollingStep
  <2> QED BY <2>1, PollingFinite
<1>7. Cardinality(Polling) \in Nat /\ cq \in Nat /\ rpc \in Nat
  BY PollingFinite DEF Typed
<1> QED BY <1>1, <1>4, <1>5, <1>6, <1>7 DEF Balance

\* A completion taken is one thread less that polls.
LEMMA PollBalance ==
  ASSUME Typed, Balance, NEW t \in Tasks, PollCompletion(t) PROVE Balance'
<1>1. /\ step[t] = "poll" /\ cq > 0 /\ cq' = cq - 1
      /\ UNCHANGED <<rpc, counter, qp>>
  BY DEF PollCompletion, appVars
<1>2. PICK k \in {"next", "copy"} : step' = [step EXCEPT ![t] = k]
  BY DEF PollCompletion
<1>3. Cardinality(Polling') = Cardinality(Polling) - 1
  <2>1. k # "poll"
    BY <1>2
  <2>2. Cardinality(Polling')
          = Cardinality(Polling) + 0 - (IF step[t] = "poll" THEN 1 ELSE 0)
    BY <1>2, <2>1, PollingStep
  <2> QED BY <1>1, <2>2, PollingFinite
<1>4. Outstanding' = Outstanding
  BY <1>1 DEF Outstanding
<1>5. Total(Outstanding, Tasks)' = Total(Outstanding, Tasks)
  BY <1>4 DEF Total, Pile, Tasks
<1>6. /\ Cardinality(Polling) \in Nat /\ cq \in Nat /\ rpc \in Nat
      /\ Total(Outstanding, Tasks) \in Nat
  BY PollingFinite, OutstandingType DEF Typed
<1> QED BY <1>1, <1>3, <1>5, <1>6 DEF Balance

\* A request performed or flushed is in the completion queue.
LEMMA CompletionAdded ==
  ASSUME Typed, Typed', Balance, NEW t \in Tasks, qp[t] # <<>>,
         qp' = [qp EXCEPT ![t] = Tail(@)], cq' = cq + 1, UNCHANGED <<rpc, counter, step>>
  PROVE  Balance'
<1>1. /\ Len(qp[t]) \in Nat \ {0} /\ Len(qp'[t]) = Len(qp[t]) - 1
      /\ \A u \in Tasks \ {t} : qp'[u] = qp[u]
  BY TakeEffect
<1>2. Total(Outstanding, Tasks)' + Len(qp[t]) = Total(Outstanding, Tasks) + Len(qp'[t])
  BY <1>1, OutstandingStep
<1>3. Total(Outstanding, Tasks) \in Nat /\ Total(Outstanding, Tasks)' \in Nat
  BY OutstandingType, OutstandingTypeNext
<1>4. Total(Outstanding, Tasks)' = Total(Outstanding, Tasks) - 1
  BY <1>1, <1>2, <1>3
<1>5. Polling' = Polling
  BY DEF Polling
<1>6. Cardinality(Polling) \in Nat /\ cq \in Nat /\ rpc \in Nat
  BY PollingFinite DEF Typed
<1> QED BY <1>3, <1>4, <1>5, <1>6 DEF Balance

\* Every other step of a thread: it neither begins nor ends to poll.
LEMMA ElsewhereBalance ==
  ASSUME Typed, Balance, NEW t \in Tasks, NEW k, k # "poll", step[t] # "poll",
         step' = [step EXCEPT ![t] = k], UNCHANGED <<cq, rpc, counter, qp>>
  PROVE  Balance'
<1>1. Polling' = Polling
  BY DEF Polling, Typed
<1> QED BY <1>1, BalanceKept

LEMMA BalanceStep == ASSUME Typed, Scheduled, Balance, [Next]_vars PROVE Balance'
<1>0. Typed'
  BY TypedStep
<1>1. ASSUME NEW o \in Ops, NEW n \in Sizes, StartSmall(o, n) \/ StartLarge(o, n)
      PROVE  Balance'
  <2>1. CASE StartSmall(o, n)
    <3>1. /\ mode = "idle" /\ step' = [step EXCEPT ![0] = "next"]
          /\ UNCHANGED <<cq, rpc, counter, qp>>
      BY <2>1 DEF StartSmall, StartTransfer, nicVars
    <3>2. step[0] # "poll"
      BY <3>1, Constants DEF Scheduled, Quiet
    <3> QED BY <3>1, <3>2, Constants, ElsewhereBalance
  <2>2. CASE StartLarge(o, n)
    <3>1. UNCHANGED <<cq, rpc, counter, qp, step>>
      BY <2>2 DEF StartLarge, StartTransfer, nicVars
    <3>2. Polling' = Polling
      BY <3>1 DEF Polling
    <3> QED BY <3>1, <3>2, BalanceKept
  <2> QED BY <1>1, <2>1, <2>2
<1>2. ASSUME NEW t \in Tasks, RdmaRead(t) \/ RdmaWrite(t) PROVE Balance'
  <2>1. Post(t) /\ step[t] # "poll" /\ sent[t] < job[t].size
    BY <1>2 DEF RdmaRead, RdmaWrite, More, Typed
  <2> QED BY <1>0, <2>1, PostBalance
<1>3. ASSUME NEW t \in Tasks, PopPolling(t) \/ CopyToPool(t) \/ CopyFromPool(t)
                                \/ Finish(t)
      PROVE  Balance'
  <2>1. step[t] # "poll" /\ UNCHANGED <<cq, rpc, counter, qp>>
    BY <1>3 DEF PopPolling, CopyToPool, CopyFromPool, Finish, More, appVars, nicVars
  <2>2. PICK k \in {"next", "post", "idle"} : step' = [step EXCEPT ![t] = k]
    BY <1>3 DEF PopPolling, CopyToPool, CopyFromPool, Finish
  <2> QED BY <2>1, <2>2, ElsewhereBalance
<1>4. ASSUME NEW t \in Tasks, Perform(t) \/ Flush(t) PROVE Balance'
  <2>1. /\ qp[t] # <<>> /\ qp' = [qp EXCEPT ![t] = Tail(@)] /\ cq' = cq + 1
        /\ UNCHANGED <<rpc, counter, step>>
    BY <1>4 DEF Perform, Flush, appVars, taskVars
  <2> QED BY <1>0, <2>1, CompletionAdded
<1>5. ASSUME PushPolling \/ AwaitSignal \/ UNCHANGED vars PROVE Balance'
  <2>1. UNCHANGED <<cq, rpc, counter, qp, step>>
    BY <1>5 DEF PushPolling, AwaitSignal, vars, appVars, taskVars, nicVars
  <2>2. Polling' = Polling
    BY <2>1 DEF Polling
  <2> QED BY <2>1, <2>2, BalanceKept
<1>6. ASSUME Call \/ CompleteCall PROVE Balance'
  BY <1>6, CallBalance, CompleteBalance
<1>7. ASSUME NEW t \in Tasks, TaskStep(t) PROVE Balance'
  BY <1>2, <1>3, <1>7, PollBalance DEF TaskStep
<1> QED BY <1>1, <1>4, <1>5, <1>6, <1>7 DEF Next

-----------------------------------------------------------------------------
(***************************************************************************)
(* Before the first RdmaCall.                                              *)
(***************************************************************************)

\* Nobody polls: then nothing is outstanding.
LEMMA NobodyPolls ==
  ASSUME Typed, Balance, counter = 0, Polling = {}
  PROVE  cq = 0 /\ \A t \in Tasks : qp[t] = <<>>
<1>1. Cardinality(Polling) = 0
  BY FS_EmptySet
<1>2. cq + rpc + Total(Outstanding, Tasks) = 0
  BY <1>1 DEF Balance
<1>3. cq \in Nat /\ rpc \in Nat /\ Total(Outstanding, Tasks) \in Nat
  BY OutstandingType DEF Typed
<1>4. cq = 0 /\ Total(Outstanding, Tasks) = 0
  BY <1>2, <1>3
<1>5. \A t \in Tasks : Outstanding[t] = 0
  <2>1. Outstanding \in [Tasks -> Nat] /\ IsFiniteSet(Tasks)
    BY OutstandingType, Constants
  <2> QED BY <1>4, <2>1, TotalZero
<1>6. \A t \in Tasks : Len(qp[t]) = 0
  BY <1>5, OutstandingType
<1>7. \A t \in Tasks : qp[t] \in Seq(Chunk)
  BY DEF Typed
<1> QED BY <1>4, <1>6, <1>7, LenFacts

LEMMA BalanceIsNothingOutstanding ==
  Typed /\ Scheduled /\ Balance => NothingOutstanding
<1> SUFFICES ASSUME Typed, Scheduled, Balance, mode = "idle", counter = 0
             PROVE  \A t \in Tasks : qp[t] = <<>> /\ queue[t] = <<>> /\ step[t] = "idle"
  BY DEF NothingOutstanding
<1>1. \A t \in Tasks : queue[t] = <<>> /\ step[t] = "idle"
  BY DEF Scheduled, Quiet
<1>2. Polling = {}
  BY <1>1 DEF Polling
<1> QED BY <1>1, <1>2, NobodyPolls

\* The calling thread polls: one request is outstanding or completed, and it is the
\* calling thread's own if that is all there is on its queue pair or has completed.
LEMMA OnlyOne ==
  ASSUME Typed, Balance, counter = 0, Polling = {0}, cq + Len(qp[0]) = 1
  PROVE  \A t \in Tasks \ {0} : qp[t] = <<>>
<1>1. Cardinality(Polling) = 1
  BY FS_Singleton
<1>2. cq + rpc + Total(Outstanding, Tasks) = 1
  BY <1>1 DEF Balance
<1>3. PICK f \in [Tasks -> Nat] : f = Outstanding
  BY OutstandingType
<1>4. IsFiniteSet(Tasks) /\ 0 \in Tasks
  BY Constants
<1>5. Total(f, Tasks \ {0}) \in Nat /\ Total(f, Tasks) = f[0] + Total(f, Tasks \ {0})
  BY <1>4, TotalSplit
<1>6. f[0] = Len(qp[0]) /\ f[0] \in Nat
  BY <1>3, <1>4, OutstandingType
<1>7. cq \in Nat /\ rpc \in Nat
  BY DEF Typed
<1>8. Total(f, Tasks \ {0}) = 0
  BY <1>2, <1>3, <1>5, <1>6, <1>7
<1>9. \A t \in Tasks \ {0} : f[t] = 0
  <2>1. PICK S : S = Tasks \ {0}
    OBVIOUS
  <2>2. PICK g \in [S -> Nat] : g = [t \in S |-> f[t]]
    BY <2>1
  <2>3. Pile(g, S) = Pile(f, S)
    BY <2>2 DEF Pile
  <2>4. Total(g, S) = 0
    BY <1>8, <2>1, <2>3 DEF Total
  <2>5. IsFiniteSet(S)
    BY <1>4, <2>1, FS_Subset
  <2>6. \A t \in S : g[t] = 0
    BY <2>4, <2>5, TotalZero
  <2> QED BY <2>1, <2>2, <2>6
<1>10. \A t \in Tasks : qp[t] \in Seq(Chunk) /\ f[t] = Len(qp[t])
  BY <1>3, OutstandingType DEF Typed
<1> QED BY <1>9, <1>10, LenFacts

LEMMA Alone ==
  ASSUME Typed, Scheduled, Balance, Working, InCaller
  PROVE  /\ \A t \in Tasks \ {0} : Quiet(t) /\ qp[t] = <<>>
         /\ step[0] # "idle"
         /\ step[0] # "poll" => qp[0] = <<>> /\ cq = 0
<1>1. /\ \A t \in Tasks \ {0} : Quiet(t)
      /\ step[0] # "idle" /\ counter = 0 /\ 0 \in Tasks
  BY Constants DEF InCaller, Scheduled
<1>2. CASE step[0] # "poll"
  <2>1. Polling = {}
    BY <1>1, <1>2 DEF Polling, Quiet
  <2> QED BY <1>1, <1>2, <2>1, NobodyPolls
<1>3. CASE step[0] = "poll"
  <2>1. Polling = {0}
    BY <1>1, <1>3 DEF Polling, Quiet
  <2>2. (cq = 0 /\ qp[0] = <<Posted>>) \/ (cq = 1 /\ qp[0] = <<>>)
    BY <1>3, Zenon DEF Working
  <2>3. cq + Len(qp[0]) = 1
    <3>1. ASSUME NEW w PROVE Len(<<w>>) = 1
      OBVIOUS
    <3>2. Len(<<Posted>>) = 1 /\ Len(<<>>) = 0
      BY <3>1
    <3>3. CASE cq = 0 /\ qp[0] = <<Posted>>
      BY <3>2, <3>3
    <3>4. CASE cq = 1 /\ qp[0] = <<>>
      BY <3>2, <3>4
    <3> QED BY <2>2, <3>3, <3>4
  <2> QED BY <1>1, <1>3, <2>1, <2>3, OnlyOne
<1> QED BY <1>2, <1>3

\* In a small transfer only the calling thread steps, and only its requests are
\* performed.
LEMMA OnlyCaller ==
  ASSUME Typed, Scheduled, Balance, Working, InCaller, NEW t \in Tasks,
         TaskStep(t) \/ Perform(t) \/ Flush(t)
  PROVE  t = 0 /\ ~ PopPolling(t)
<1>1. ASSUME TaskStep(t) PROVE step[t] # "idle" \/ queue[t] # <<>>
  BY <1>1 DEF TaskStep, PopPolling, RdmaRead, CopyToPool, RdmaWrite, PollCompletion,
              CopyFromPool, Finish, More
<1>2. ASSUME Perform(t) \/ Flush(t) PROVE qp[t] # <<>>
  BY <1>2 DEF Perform, Flush
<1>3. t = 0
  BY <1>1, <1>2, Alone DEF Quiet
<1>4. step[0] # "idle"
  BY Alone
<1> QED BY <1>3, <1>4 DEF PopPolling

LEMMA CallerInit == Init => Caller
BY DEF Init, Caller

LEMMA CallerKept ==
  ASSUME Caller, UNCHANGED <<job, op, size>>, mode' \in {"idle", mode} PROVE Caller'
BY DEF Caller

LEMMA CallerStep == ASSUME Typed, Scheduled, Caller, [Next]_vars PROVE Caller'
<1>1. ASSUME NEW o \in Ops, NEW n \in Sizes, StartSmall(o, n) PROVE Caller'
  <2>1. 0 \in Tasks /\ job \in [Tasks -> FitJob]
    BY Constants DEF Typed
  <2>2. mode' = "small" /\ op' = o /\ size' = n /\ n < Threshold
        /\ job'[0] = [op |-> o, base |-> 0, size |-> n]
    BY <1>1, <2>1 DEF StartSmall, StartTransfer
  <2> QED BY <2>2 DEF Caller
<1>2. ASSUME NEW o \in Ops, NEW n \in Sizes, StartLarge(o, n) PROVE Caller'
  <2>1. mode' = "push" /\ size' = n /\ n >= Threshold
    BY <1>2 DEF StartLarge, StartTransfer
  <2> QED BY <2>1 DEF Caller
<1>3. ASSUME PushPolling PROVE Caller'
  <2>1. mode = "push" /\ mode' \in {"push", "await"} /\ size' = size
    BY <1>3 DEF PushPolling
  <2> QED BY <2>1 DEF Caller
<1>4. ASSUME AwaitSignal \/ Call \/ CompleteCall \/ UNCHANGED vars PROVE Caller'
  <2>1. UNCHANGED <<job, op, size>> /\ mode' \in {"idle", mode}
    BY <1>4 DEF AwaitSignal, Call, CompleteCall, vars, appVars, taskVars
  <2> QED BY <2>1, CallerKept
<1>5. ASSUME NEW t \in Tasks, PopPolling(t) PROVE Caller'
  <2>1. UNCHANGED <<mode, op, size>> /\ queue[t] # <<>> /\ step[t] = "idle"
        /\ job' = [job EXCEPT ![t] = Head(queue[t])]
    BY <1>5 DEF PopPolling, appVars
  <2>2. mode # "small"
    BY <2>1 DEF Scheduled, Quiet
  <2> QED BY <2>1, <2>2 DEF Caller
<1>6. ASSUME NEW t \in Tasks, RdmaRead(t) \/ CopyToPool(t) \/ RdmaWrite(t)
                \/ PollCompletion(t) \/ CopyFromPool(t) \/ Finish(t)
      PROVE  Caller'
  <2>1. UNCHANGED <<job, op, size>> /\ mode' \in {"idle", mode}
    BY <1>6 DEF RdmaRead, CopyToPool, RdmaWrite, PollCompletion, CopyFromPool, Finish,
                Post, appVars
  <2> QED BY <2>1, CallerKept
<1>7. ASSUME NEW t \in Tasks, Perform(t) \/ Flush(t) PROVE Caller'
  <2>1. UNCHANGED <<job, op, size>> /\ mode' \in {"idle", mode}
    BY <1>7 DEF Perform, Flush, appVars, taskVars
  <2> QED BY <2>1, CallerKept
<1> QED BY <1>1, <1>2, <1>3, <1>4, <1>5, <1>6, <1>7 DEF Next, TaskStep

-----------------------------------------------------------------------------
(***************************************************************************)
(* The data of a transfer by the calling thread.                           *)
(***************************************************************************)

LEMMA WorkingInit == Init => Working
BY DEF Init, Working, InCaller

\* The chunk at hand of the calling thread.
LEMMA CallerChunk ==
  ASSUME Typed, Caller, mode = "small", sent[0] < job[0].size
  PROVE  /\ job[0].op = op /\ From(0) = sent[0] /\ sent[0] \in Nat
         /\ SendSize(0) \in 1..PoolSize /\ SendSize(0) \in Nat
         /\ sent[0] + SendSize(0) <= size
         /\ \A i \in Nat : i < SendSize(0) => sent[0] + i \in Units
         /\ Posted = [op |-> job[0].op, base |-> From(0), size |-> SendSize(0)]
<1>1. 0 \in Tasks
  BY Constants
<1>2. job[0].op = op /\ job[0].base = 0 /\ job[0].size = size
  BY DEF Caller
<1>3. sent[0] \in Nat /\ size \in Sizes
  BY <1>1 DEF Typed
<1>4. From(0) = sent[0]
  BY <1>2, <1>3 DEF From
<1>5. /\ SendSize(0) \in 1..PoolSize /\ SendSize(0) \in Nat
      /\ sent[0] + SendSize(0) <= job[0].size
      /\ From(0) + SendSize(0) <= Max(Sizes)
  BY <1>1, ChunkFits
<1>6. \A i \in Nat : i < SendSize(0) => sent[0] + i \in Units
  BY <1>3, <1>4, <1>5, UnitFits
<1>7. Posted = [op |-> job[0].op, base |-> From(0), size |-> SendSize(0)]
  BY <1>2, <1>4 DEF Posted
<1> QED BY <1>2, <1>3, <1>4, <1>5, <1>6, <1>7

\* Nothing but the variables named changes what is known of the data.
LEMMA DataKept ==
  ASSUME UNCHANGED <<op, transfers, local, remote, sent, job>>
  PROVE  /\ Source' = Source /\ Target' = Target /\ SendSize(0)' = SendSize(0)
         /\ Posted' = Posted /\ Arrived(sent[0])' = Arrived(sent[0])
         /\ Arrived(sent[0] + SendSize(0))' = Arrived(sent[0] + SendSize(0))
BY DEF Source, Target, SendSize, Posted, Arrived

LEMMA LoadedKept ==
  ASSUME UNCHANGED <<transfers, sent, job, pool>> PROVE Loaded' = Loaded
BY DEF Loaded, SendSize, Slots

LEMMA StartWorking ==
  ASSUME Typed, Scheduled, NEW o \in Ops, NEW n \in Sizes, StartSmall(o, n)
  PROVE  Working'
<1>1. /\ transfers' = transfers + 1 /\ transfers < MaxTransfers /\ op' = o
      /\ local'  = (IF o = "write" THEN Fresh ELSE local)
      /\ remote' = (IF o = "read" THEN Fresh ELSE remote)
      /\ step' = [step EXCEPT ![0] = "next"] /\ sent' = [sent EXCEPT ![0] = 0]
  BY DEF StartSmall, StartTransfer
<1>2. step'[0] = "next" /\ sent'[0] = 0
  BY <1>1, Constants DEF Typed
<1>3. \A u \in Units : Source'[u] = <<transfers', u>>
  <2>1. Source' = Fresh
    BY <1>1 DEF Source, Ops
  <2>2. \A u \in Units : Fresh[u] = <<transfers', u>>
    BY <1>1, FreshType
  <2> QED BY <2>1, <2>2
<1>4. Arrived(sent[0])'
  BY <1>2 DEF Arrived
<1> QED BY <1>2, <1>3, <1>4 DEF Working, Units

LEMMA ReadWorking ==
  ASSUME Typed, Scheduled, Balance, Caller, Working, InCaller, RdmaRead(0)
  PROVE  Working'
<1>1. mode = "small" /\ 0 \in Tasks /\ step[0] = "next" /\ sent[0] < job[0].size
      /\ job[0].op = "read" /\ Post(0)
  BY Constants DEF InCaller, RdmaRead, More
<1>2. /\ step' = [step EXCEPT ![0] = "poll"]
      /\ qp'[0] = Append(qp[0], [op |-> job[0].op, base |-> From(0),
                                 size |-> SendSize(0)])
      /\ UNCHANGED <<cq, op, transfers, local, remote, sent, job>>
  BY <1>1, PostEffect DEF appVars, memVars
<1>3. step'[0] = "poll" /\ op = "read"
  BY <1>1, <1>2, CallerChunk DEF Typed
<1>4. cq' = 0 /\ qp[0] = <<>>
  BY <1>1, <1>2, Alone
<1>5. qp'[0] = <<Posted'>>
  <2>1. PICK w : w = Posted
    OBVIOUS
  <2>2. qp'[0] = Append(<<>>, w)
    BY <1>1, <1>2, <1>4, <2>1, CallerChunk
  <2>3. Posted' = w
    BY <1>2, <2>1, DataKept
  <2> QED BY <2>2, <2>3
<1>6. Arrived(sent[0])' /\ \A u \in Units : Source'[u] = <<transfers', u>>
  BY <1>2, DataKept DEF Working
<1>7. op' = "read" /\ op' # "write"
  BY <1>2, <1>3
<1> QED BY <1>3, <1>4, <1>5, <1>6, <1>7, Zenon DEF Working, Units

LEMMA CopyToPoolWorking ==
  ASSUME Typed, Scheduled, Balance, Caller, Working, InCaller, CopyToPool(0)
  PROVE  Working'
<1>1. mode = "small" /\ 0 \in Tasks /\ step[0] = "next" /\ sent[0] < job[0].size
      /\ job[0].op = "write" /\ step' = [step EXCEPT ![0] = "post"]
      /\ UNCHANGED <<op, transfers, local, remote, sent, job>>
  BY Constants DEF InCaller, CopyToPool, More, appVars
<1>2. step'[0] = "post" /\ op = "write"
  BY <1>1, CallerChunk DEF Typed
<1>3. Loaded'
  <2>1. /\ From(0) = sent[0] /\ SendSize(0) \in Nat
        /\ \A i \in Nat : i < SendSize(0) => sent[0] + i \in Units
    BY <1>1, CallerChunk
  <2>2. \A u \in Units : local[u] = <<transfers, u>>
    BY <1>2 DEF Working, Source
  <2>3. pool'[0] = [i \in Slots |-> IF i < SendSize(0) THEN local[sent[0] + i]
                                    ELSE pool[0][i]]
    BY <1>1, <2>1 DEF CopyToPool, Typed
  <2>4. Slots \subseteq Nat
    BY DEF Slots
  <2>5. \A i \in Slots : i < SendSize(0) => pool'[0][i] = <<transfers, sent[0] + i>>
    BY <2>1, <2>2, <2>3, <2>4
  <2>6. SendSize(0)' = SendSize(0) /\ Slots' = Slots
    BY <1>1, DataKept DEF Slots
  <2> QED BY <1>1, <2>5, <2>6 DEF Loaded
<1>4. Arrived(sent[0])' /\ \A u \in Units : Source'[u] = <<transfers', u>>
  BY <1>1, DataKept DEF Working
<1>5. op' = "write" /\ op' # "read" /\ step'[0] # "poll" /\ step'[0] # "copy"
  BY <1>1, <1>2
<1> QED BY <1>3, <1>4, <1>5, Zenon DEF Working, Units

LEMMA WriteWorking ==
  ASSUME Typed, Scheduled, Balance, Caller, Working, InCaller, RdmaWrite(0)
  PROVE  Working'
<1>1. mode = "small" /\ 0 \in Tasks /\ step[0] = "post" /\ Post(0)
  BY Constants DEF InCaller, RdmaWrite
<1>2. sent[0] < job[0].size
  BY <1>1 DEF Typed
<1>3. /\ step' = [step EXCEPT ![0] = "poll"]
      /\ qp'[0] = Append(qp[0], [op |-> job[0].op, base |-> From(0),
                                 size |-> SendSize(0)])
      /\ UNCHANGED <<cq, op, transfers, local, remote, sent, job, pool>>
  BY <1>1, <1>2, PostEffect DEF appVars, memVars
<1>4. step'[0] = "poll" /\ Loaded'
  BY <1>1, <1>3, LoadedKept DEF Typed, Working
<1>5. cq' = 0 /\ qp[0] = <<>>
  BY <1>1, <1>3, Alone
<1>6. qp'[0] = <<Posted'>>
  <2>1. PICK w : w = Posted
    OBVIOUS
  <2>2. qp'[0] = Append(<<>>, w)
    BY <1>1, <1>2, <1>3, <1>5, <2>1, CallerChunk
  <2>3. Posted' = w
    BY <1>3, <2>1, DataKept
  <2> QED BY <2>2, <2>3
<1>7. Arrived(sent[0])' /\ \A u \in Units : Source'[u] = <<transfers', u>>
  BY <1>3, DataKept DEF Working
<1>8. step'[0] # "post" /\ step'[0] # "copy"
  BY <1>4
<1> QED BY <1>4, <1>5, <1>6, <1>7, <1>8, Zenon DEF Working, Units

LEMMA PollWorking ==
  ASSUME Typed, Scheduled, Balance, Caller, Working, InCaller, PollCompletion(0)
  PROVE  Working'
<1>1. /\ mode = "small" /\ 0 \in Tasks /\ step[0] = "poll" /\ sent[0] < job[0].size
      /\ cq > 0 /\ UNCHANGED <<op, transfers, local, remote, job, pool>>
  BY Constants DEF InCaller, PollCompletion, appVars, memVars, Typed
<1>2. op = "read" => Loaded
  BY <1>1 DEF Working
<1>3. op = "write" => Arrived(sent[0] + SendSize(0))
  BY <1>1 DEF Working
<1>4. job[0].op = op /\ op \in {"read", "write"}
  BY <1>1, CallerChunk DEF Typed, Ops
<1>5. \A u \in Units : Source'[u] = <<transfers', u>>
  BY <1>1 DEF Working, Source
<1>6. CASE op = "read"
  <2>1. step'[0] = "copy" /\ sent' = sent
    BY <1>1, <1>4, <1>6 DEF PollCompletion, Typed
  <2>2. Arrived(sent[0])' /\ Loaded'
    BY <1>1, <1>2, <1>6, <2>1, DataKept, LoadedKept DEF Working
  <2>3. op' = "read" /\ op' # "write" /\ step'[0] # "post" /\ step'[0] # "poll"
    BY <1>1, <1>6, <2>1
  <2> QED BY <1>5, <2>2, <2>3, Zenon DEF Working, Units
<1>7. CASE op = "write"
  <2>1. step'[0] = "next" /\ Advance(0)
    BY <1>1, <1>4, <1>7 DEF PollCompletion, Typed
  <2>2. sent'[0] = sent[0] + SendSize(0)
    BY <1>1, <2>1, AdvanceTyped
  <2>3. Arrived(sent[0])'
    BY <1>1, <1>3, <1>7, <2>2 DEF Arrived, Target
  <2>4. step'[0] \notin {"post", "copy", "poll"}
    BY <2>1
  <2> QED BY <1>5, <2>3, <2>4 DEF Working, Units
<1> QED BY <1>4, <1>6, <1>7

LEMMA CopyFromPoolWorking ==
  ASSUME Typed, Scheduled, Balance, Caller, Working, InCaller, CopyFromPool(0)
  PROVE  Working'
<1>1. /\ mode = "small" /\ 0 \in Tasks /\ step[0] = "copy" /\ sent[0] < job[0].size
      /\ Advance(0) /\ step' = [step EXCEPT ![0] = "next"]
      /\ UNCHANGED <<op, transfers, remote, job, pool>>
  BY Constants DEF InCaller, CopyFromPool, appVars, Typed
<1>2. op = "read" /\ Loaded
  BY <1>1 DEF Working, Typed, Ops
<1>3. /\ From(0) = sent[0] /\ sent[0] \in Nat /\ SendSize(0) \in 1..PoolSize
      /\ SendSize(0) \in Nat /\ sent[0] + SendSize(0) <= size
      /\ \A i \in Nat : i < SendSize(0) => sent[0] + i \in Units
  BY <1>1, CallerChunk
<1>4. size \in Nat /\ size <= Max(Sizes) /\ Max(Sizes) \in Nat
  BY LargestSize DEF Typed
<1>5. local' = [u \in Units |->
                  IF u \in sent[0]..(sent[0] + SendSize(0) - 1)
                    THEN pool[0][u - sent[0]] ELSE local[u]]
  BY <1>3 DEF CopyFromPool
<1>6. ASSUME NEW u \in 0..(sent[0] + SendSize(0) - 1)
      PROVE  local'[u] = <<transfers, u>>
  <2>0. u \in Units
    BY <1>3, <1>4 DEF Units
  <2>1. CASE u < sent[0]
    <3>1. local[u] = <<transfers, u>>
      BY <1>2, <1>3, <2>1 DEF Working, Arrived, Target
    <3>2. local'[u] = local[u]
      BY <1>3, <1>5, <2>0, <2>1
    <3> QED BY <3>1, <3>2
  <2>2. CASE u >= sent[0]
    <3>1. PICK i \in Nat : i = u - sent[0]
      BY <1>3, <2>2
    <3>2. i < SendSize(0) /\ i \in Slots /\ u = sent[0] + i
      BY <1>3, <2>2, <3>1, Constants DEF Slots
    <3>3. pool[0][i] = <<transfers, sent[0] + i>>
      BY <1>2, <3>2 DEF Loaded
    <3>4. local'[u] = pool[0][i]
      BY <1>3, <1>5, <2>0, <2>2, <3>1
    <3> QED BY <3>2, <3>3, <3>4
  <2> QED BY <1>3, <2>1, <2>2
<1>7. step'[0] = "next" /\ sent'[0] = sent[0] + SendSize(0)
  BY <1>1, AdvanceTyped DEF Typed
<1>8. Arrived(sent[0])'
  <2>1. Target' = local' /\ transfers' = transfers
    BY <1>1, <1>2 DEF Target
  <2>2. \A u \in 0..(sent'[0] - 1) : local'[u] = <<transfers, u>>
    <3>1. PICK n \in Nat : n = sent[0] + SendSize(0)
      BY <1>3
    <3>2. \A u \in 0..(n - 1) : local'[u] = <<transfers, u>>
      <4> SUFFICES ASSUME NEW u \in 0..(n - 1) PROVE local'[u] = <<transfers, u>>
        OBVIOUS
      <4>1. u \in 0..(sent[0] + SendSize(0) - 1)
        BY <1>3, <3>1
      <4> QED BY <1>6, <4>1
    <3>3. sent'[0] = n
      BY <1>7, <3>1
    <3> QED BY <3>2, <3>3
  <2> QED BY <2>1, <2>2, Zenon DEF Arrived
<1>9. \A u \in Units : Source'[u] = <<transfers', u>>
  BY <1>1, <1>2 DEF Working, Source
<1>10. step'[0] \notin {"post", "copy", "poll"}
  BY <1>7
<1> QED BY <1>8, <1>9, <1>10 DEF Working, Units

LEMMA PerformWorking ==
  ASSUME Typed, Scheduled, Balance, Caller, Working, InCaller, Perform(0)
  PROVE  Working'
<1>1. /\ qp[0] # <<>> /\ mode = "small" /\ 0 \in Tasks
      /\ qp' = [qp EXCEPT ![0] = Tail(@)] /\ cq' = cq + 1
      /\ UNCHANGED <<op, transfers, sent, job, step, local>>
  BY Constants DEF InCaller, Perform, appVars, taskVars
<1>2. step[0] = "poll"
  BY <1>1, Alone
<1>3. cq = 0 /\ qp[0] = <<Posted>> /\ (op = "write" => Loaded)
  BY <1>1, <1>2 DEF Working
<1>4. sent[0] < job[0].size
  BY <1>1, <1>2 DEF Typed
<1>5. /\ sent[0] \in Nat /\ SendSize(0) \in 1..PoolSize /\ SendSize(0) \in Nat
      /\ sent[0] + SendSize(0) <= size
      /\ \A i \in Nat : i < SendSize(0) => sent[0] + i \in Units
  BY <1>1, <1>4, CallerChunk
<1>6. PICK w : w = Posted /\ w.op = op /\ w.base = sent[0] /\ w.size = SendSize(0)
  <2>1. Posted.op = op /\ Posted.base = sent[0] /\ Posted.size = SendSize(0)
    BY DEF Posted
  <2> QED BY <2>1, Zenon
<1>7. Head(qp[0]) = w /\ qp'[0] = <<>> /\ cq' = 1
  <2>1. qp[0] = <<w>> /\ qp \in [Tasks -> Seq(Chunk)]
    BY <1>3, <1>6 DEF Typed
  <2> QED BY <1>1, <1>3, <2>1
<1>8. op \in {"read", "write"} /\ step'[0] = "poll"
  BY <1>1, <1>2 DEF Typed, Ops
<1>9. SendSize(0)' = SendSize(0)
  BY <1>1 DEF SendSize
<1>10. CASE op = "read"
  <2>1. remote' = remote
        /\ pool' = [pool EXCEPT ![0] =
             [i \in Slots |-> IF i < SendSize(0) THEN remote[sent[0] + i] ELSE @[i]]]
    BY <1>6, <1>7, <1>10 DEF Perform
  <2>2. \A u \in Units : remote[u] = <<transfers, u>>
    BY <1>10 DEF Working, Source
  <2>3. pool'[0] = [i \in Slots |-> IF i < SendSize(0) THEN remote[sent[0] + i]
                                    ELSE pool[0][i]]
    BY <1>1, <2>1 DEF Typed
  <2>4. Slots \subseteq Nat
    BY DEF Slots
  <2>5. \A i \in Slots : i < SendSize(0) => pool'[0][i] = <<transfers, sent[0] + i>>
    BY <1>5, <2>2, <2>3, <2>4
  <2>6. Loaded'
    BY <1>1, <1>9, <2>5 DEF Loaded, Slots
  <2>7. Arrived(sent[0])' /\ \A u \in Units : Source'[u] = <<transfers', u>>
    BY <1>1, <2>1, DataKept DEF Working
  <2>8. op' # "write" /\ op' = "read" /\ step'[0] # "post" /\ step'[0] # "copy"
    BY <1>1, <1>8, <1>10
  <2> QED BY <1>7, <2>6, <2>7, <2>8, Zenon DEF Working, Units
<1>11. CASE op = "write"
  <2>1. remote' = [u \in Units |->
                     IF u \in sent[0]..(sent[0] + SendSize(0) - 1)
                       THEN pool[0][u - sent[0]] ELSE remote[u]]
    BY <1>6, <1>7, <1>11 DEF Perform
  <2>2. size \in Nat /\ size <= Max(Sizes) /\ Max(Sizes) \in Nat
    BY LargestSize DEF Typed
  <2>3. ASSUME NEW u \in 0..(sent[0] + SendSize(0) - 1)
        PROVE  remote'[u] = <<transfers, u>>
    <3>0. u \in Units
      BY <1>5, <2>2 DEF Units
    <3>1. CASE u < sent[0]
      <4>1. remote[u] = <<transfers, u>>
        BY <1>1, <1>11, <1>5, <3>1 DEF Working, Arrived, Target
      <4>2. remote'[u] = remote[u]
        BY <1>5, <2>1, <3>0, <3>1
      <4> QED BY <4>1, <4>2
    <3>2. CASE u >= sent[0]
      <4>1. PICK i \in Nat : i = u - sent[0]
        BY <1>5, <3>2
      <4>2. i < SendSize(0) /\ i \in Slots /\ u = sent[0] + i
        BY <1>5, <3>2, <4>1, Constants DEF Slots
      <4>3. pool[0][i] = <<transfers, sent[0] + i>>
        BY <1>3, <1>11, <4>2 DEF Loaded
      <4>4. remote'[u] = pool[0][i]
        BY <1>5, <2>1, <3>0, <3>2, <4>1
      <4> QED BY <4>2, <4>3, <4>4
    <3> QED BY <1>5, <3>1, <3>2
  <2>4. Arrived(sent[0] + SendSize(0))' /\ Arrived(sent[0])'
    BY <1>1, <1>5, <1>9, <1>11, <2>3 DEF Arrived, Target
  <2>5. \A u \in Units : Source'[u] = <<transfers', u>>
    BY <1>1, <1>11 DEF Working, Source
  <2>6. op' = "write" /\ op' # "read" /\ step'[0] # "post" /\ step'[0] # "copy"
    BY <1>1, <1>8, <1>11
  <2> QED BY <1>7, <2>4, <2>5, <2>6, Zenon DEF Working, Units
<1> QED BY <1>8, <1>10, <1>11

LEMMA WorkingKept ==
  ASSUME Working, InCaller' => InCaller,
         UNCHANGED <<op, transfers, local, remote, sent, job, pool, step, qp, cq>>
  PROVE  Working'
<1>1. ASSUME InCaller
      PROVE  /\ Source' = Source /\ Posted' = Posted /\ Loaded' = Loaded
             /\ Arrived(sent[0])' = Arrived(sent[0])
             /\ Arrived(sent[0] + SendSize(0))' = Arrived(sent[0] + SendSize(0))
  BY DataKept, LoadedKept
<1> QED BY <1>1, Zenon DEF Working, Units

LEMMA WorkingStep ==
  ASSUME Typed, Scheduled, Balance, Caller, Working, [Next]_vars PROVE Working'
<1>1. ASSUME NEW o \in Ops, NEW n \in Sizes, StartSmall(o, n) \/ StartLarge(o, n)
      PROVE  Working'
  <2>1. CASE StartSmall(o, n)
    BY <2>1, StartWorking
  <2>2. CASE StartLarge(o, n)
    <3>1. mode' # "small"
      BY <2>2 DEF StartLarge
    <3> QED BY <3>1 DEF Working, InCaller
  <2> QED BY <1>1, <2>1, <2>2
<1>2. ASSUME PushPolling \/ AwaitSignal \/ Call PROVE Working'
  <2>1. mode' # "small"
    BY <1>2 DEF PushPolling, AwaitSignal, Call
  <2> QED BY <2>1 DEF Working, InCaller
<1>3. ASSUME CompleteCall PROVE Working'
  <2>1. rpc > 0 /\ counter' = counter
    BY <1>3 DEF CompleteCall, appVars
  <2>2. counter' # 0
    BY <2>1 DEF Balance
  <2> QED BY <2>2 DEF Working, InCaller
<1>4. ASSUME NEW t \in Tasks, TaskStep(t) \/ Perform(t) \/ Flush(t) PROVE Working'
  <2>1. CASE ~InCaller
    <3>1. counter' = counter /\ mode' \in {mode, "idle"} /\ (broken[0] => broken'[0])
      <4>1. counter' = counter /\ mode' \in {mode, "idle"}
        BY <1>4 DEF TaskStep, PopPolling, RdmaRead, CopyToPool, RdmaWrite,
                    PollCompletion, CopyFromPool, Finish, Perform, Flush, Post, appVars
      <4>2. broken' = broken \/ broken' = [broken EXCEPT ![t] = TRUE]
        BY <1>4 DEF TaskStep, PopPolling, RdmaRead, CopyToPool, RdmaWrite,
                    PollCompletion, CopyFromPool, Finish, Perform, Flush, Post, nicVars
      <4>3. broken[0] => broken'[0]
        BY <4>2, Constants DEF Typed
      <4> QED BY <4>1, <4>3
    <3>2. ~InCaller'
      BY <2>1, <3>1 DEF InCaller
    <3> QED BY <3>2 DEF Working
  <2>2. CASE InCaller
    <3>1. t = 0 /\ ~ PopPolling(t)
      BY <1>4, <2>2, OnlyCaller
    <3>2. CASE Finish(0)
      <4>1. mode' # "small"
        BY <3>2 DEF Finish
      <4> QED BY <4>1 DEF Working, InCaller
    <3>3. CASE Flush(0)
      <4>1. broken'[0] = TRUE
        BY <3>3, Constants DEF Flush, Typed
      <4> QED BY <4>1 DEF Working, InCaller
    <3>4. CASE Perform(0)
      BY <2>2, <3>4, PerformWorking
    <3>5. CASE RdmaRead(0) \/ CopyToPool(0) \/ RdmaWrite(0) \/ PollCompletion(0)
                 \/ CopyFromPool(0)
      BY <2>2, <3>5, ReadWorking, CopyToPoolWorking, WriteWorking, PollWorking,
         CopyFromPoolWorking
    <3> QED BY <1>4, <3>1, <3>2, <3>3, <3>4, <3>5 DEF TaskStep
  <2> QED BY <2>1, <2>2
<1>5. ASSUME UNCHANGED vars PROVE Working'
  <2>1. UNCHANGED <<op, transfers, local, remote, sent, job, pool, step, qp, cq>>
        /\ UNCHANGED <<mode, counter, broken>>
    BY <1>5 DEF vars, appVars, taskVars, memVars, nicVars
  <2>2. InCaller' => InCaller
    BY <2>1 DEF InCaller
  <2> QED BY <2>1, <2>2, WorkingKept
<1> QED BY <1>1, <1>2, <1>3, <1>4, <1>5 DEF Next

LEMMA TransferredInit == Init => TransferredByCaller
BY DEF Init, TransferredByCaller, Transferred

\* The last step of a transfer by the calling thread.
LEMMA FinishTransferred ==
  ASSUME Typed, Caller, Working, InCaller, Finish(0) PROVE Transferred'
<1>1. /\ mode = "small" /\ sent[0] >= job[0].size /\ 0 \in Tasks
      /\ UNCHANGED <<op, size, transfers, local, remote>>
  BY Constants DEF InCaller, Finish, memVars
<1>2. job[0].size = size
  BY <1>1 DEF Caller
<1>3. sent[0] \in Nat /\ size \in Nat /\ sent[0] <= job[0].size
  BY <1>1, LargestSize DEF Typed
<1>4. sent[0] = size
  BY <1>1, <1>2, <1>3
<1>5. \A u \in 0..(size - 1) : Target[u] = <<transfers, u>>
  BY <1>4 DEF Working, Arrived
<1> QED BY <1>1, <1>5, Zenon DEF Transferred, Target

\* Between transfers nothing changes the buffers.
LEMMA TransferredKept ==
  ASSUME Transferred, mode' = mode, UNCHANGED <<op, size, transfers, local, remote>>
  PROVE  Transferred'
BY DEF Transferred

LEMMA TransferredStep ==
  ASSUME Typed, Scheduled, Balance, Caller, Working, TransferredByCaller, [Next]_vars
  PROVE  TransferredByCaller'
<1>1. SUFFICES ASSUME size' < Threshold, counter' = 0, ~broken'[0], mode' = "idle"
               PROVE  Transferred'
  BY DEF TransferredByCaller, Transferred
<1>2. ASSUME NEW o \in Ops, NEW n \in Sizes, StartSmall(o, n) \/ StartLarge(o, n)
      PROVE  FALSE
  BY <1>1, <1>2 DEF StartSmall, StartLarge
<1>3. ASSUME PushPolling PROVE FALSE
  BY <1>1, <1>3 DEF PushPolling
<1>4. ASSUME AwaitSignal PROVE FALSE
  <2>1. mode = "await" /\ size' = size
    BY <1>4 DEF AwaitSignal
  <2>2. size \in Nat /\ Threshold \in Nat
    BY LargestSize, Constants DEF Typed
  <2> QED BY <1>1, <2>1, <2>2 DEF Caller
<1>5. ASSUME Call PROVE FALSE
  <2>1. counter' = (IF counter = SignalPeriod THEN 1 ELSE counter + 1)
    BY <1>5 DEF Call
  <2>2. counter \in Nat
    BY Constants DEF Typed
  <2> QED BY <1>1, <2>1, <2>2
<1>6. ASSUME CompleteCall PROVE FALSE
  <2>1. rpc > 0 /\ counter' = counter
    BY <1>6 DEF CompleteCall, appVars
  <2> QED BY <1>1, <2>1 DEF Balance
<1>7. ASSUME NEW t \in Tasks, TaskStep(t) \/ Perform(t) \/ Flush(t)
      PROVE  Transferred'
  <2>1. counter' = counter /\ (mode = "idle" \/ (mode = "small" /\ Finish(t)))
    BY <1>1, <1>7 DEF TaskStep, PopPolling, RdmaRead, CopyToPool, RdmaWrite,
                PollCompletion, CopyFromPool, Finish, Perform, Flush, Post, appVars
  <2>2. broken[0] => broken'[0]
    <3>1. broken' = broken \/ broken' = [broken EXCEPT ![t] = TRUE]
      BY <1>7 DEF TaskStep, PopPolling, RdmaRead, CopyToPool, RdmaWrite,
                  PollCompletion, CopyFromPool, Finish, Perform, Flush, Post, nicVars
    <3> QED BY <3>1, Constants DEF Typed
  <2>3. CASE mode = "idle"
    <3>1. qp[t] = <<>> /\ queue[t] = <<>> /\ step[t] = "idle"
      BY <1>1, <2>1, <2>3, BalanceIsNothingOutstanding DEF NothingOutstanding
    <3> QED BY <1>7, <3>1 DEF TaskStep, PopPolling, RdmaRead, CopyToPool, RdmaWrite,
               PollCompletion, CopyFromPool, Finish, Perform, Flush, More
  <2>4. CASE mode = "small" /\ Finish(t)
    <3>1. InCaller
      BY <1>1, <2>1, <2>2, <2>4 DEF InCaller
    <3>2. t = 0
      BY <1>7, <3>1, OnlyCaller
    <3> QED BY <2>4, <3>1, <3>2, FinishTransferred
  <2> QED BY <2>1, <2>3, <2>4
<1>8. ASSUME UNCHANGED vars PROVE Transferred'
  <2>1. UNCHANGED <<mode, op, size, transfers, local, remote, counter, broken>>
    BY <1>8 DEF vars, appVars, memVars, nicVars
  <2>2. Transferred
    BY <1>1, <2>1 DEF TransferredByCaller
  <2> QED BY <2>1, <2>2, TransferredKept
<1> QED BY <1>2, <1>3, <1>4, <1>5, <1>6, <1>7, <1>8 DEF Next

-----------------------------------------------------------------------------
(***************************************************************************)
(* The split of a large transfer.                                          *)
(***************************************************************************)

\* Remainders of a division by a product.
LEMMA NestedRemainder ==
  ASSUME NEW a \in Nat, NEW w \in {1, 2, 3, 4}, NEW p \in Nat \ {0}
  PROVE  w * (((a \div w) \div p) * p) = a - (a % (w * p))
<1> DEFINE share == a \div w
           pages == share \div p
<1>1. /\ share \in Nat /\ a % w \in 0..(w - 1) /\ w * share + (a % w) = a
  BY Division
<1>2. /\ pages \in Nat /\ share % p \in 0..(p - 1) /\ p * pages + (share % p) = share
  BY <1>1, Division
<1> HIDE DEF share, pages
<1>3. PICK r \in 0..(w - 1), s \in 0..(p - 1) : r = a % w /\ s = share % p
  BY <1>1, <1>2
<1>4. r \in Nat /\ s \in Nat /\ r + 1 <= w /\ s + 1 <= p
  BY <1>3
<1>5. PICK m \in Nat : m = p * pages
  BY <1>2
<1>6. share = m + s
  BY <1>2, <1>3, <1>5
<1>7. a = w * m + (w * s + r)
  BY <1>1, <1>3, <1>4, <1>5, <1>6
<1>8. w * s + r \in Nat /\ w * s + r < w * p
  BY <1>3, <1>4
<1>9. w * p \in Nat \ {0} /\ w * m = (w * p) * pages /\ w * m = w * (pages * p)
  BY <1>2, <1>5, SMT
<1>10. a % (w * p) = w * s + r
  <2>1. PICK d \in Nat \ {0}, k \in Nat : d = w * p /\ k = w * s + r
    BY <1>8, <1>9
  <2>2. a = d * pages + k /\ k < d
    BY <1>7, <1>8, <1>9, <2>1
  <2>3. a % d = k
    BY <2>1, <2>2, <1>2, SMT
  <2> QED BY <2>1, <2>3
<1>11. a - (w * s + r) = w * m
  <2>1. w * m \in Nat
    BY <1>5
  <2> QED BY <1>7, <1>8, <2>1
<1> QED BY <1>9, <1>10, <1>11 DEF pages, share

\* The parts, by their number.
LEMMA PartBounds ==
  ASSUME size \in Sizes, NEW i \in Tasks
  PROVE  /\ ShipSize \in Nat /\ size \in Nat /\ WorkerNumber * ShipSize <= size
         /\ i < 3 => Part(i).base = i * ShipSize /\ Part(i).size = ShipSize
         /\ i = 3 => Part(i).base = 3 * ShipSize /\ Part(i).size = size - 3 * ShipSize
<1>1. ShipSize \in Nat /\ size \in Nat /\ WorkerNumber * ShipSize <= size
  BY ShipSizeFits, LargestSize
<1> HIDE DEF ShipSize
<1>2. i < 3 => Part(i).base = i * ShipSize /\ Part(i).size = ShipSize
  BY DEF Part
<1>3. i = 3 => Part(i).base = 3 * ShipSize /\ Part(i).size = size - 3 * ShipSize
  BY DEF Part
<1> QED BY <1>1, <1>2, <1>3

\* The parts are disjoint, and together they hold the first InParts units.
LEMMA HeldBy ==
  ASSUME size \in Sizes, NEW u \in Nat
  PROVE  \/ /\ u < InParts
            /\ \E c \in Tasks : {i \in Tasks : /\ Part(i).base <= u
                                               /\ u < Part(i).base + Part(i).size} = {c}
         \/ /\ ~(u < InParts)
            /\ {i \in Tasks : /\ Part(i).base <= u
                              /\ u < Part(i).base + Part(i).size} = {}
<1> DEFINE Holds(i) == Part(i).base <= u /\ u < Part(i).base + Part(i).size
<1>1. WorkerNumber \in {1, 2, 3, 4} /\ Tasks = 0..(WorkerNumber - 1)
      /\ Page \in Nat \ {0}
  BY Constants DEF Tasks
<1>2. PICK z \in Nat, n \in Nat : z = ShipSize /\ n = size /\ WorkerNumber * z <= n
  BY ShipSizeFits, LargestSize
<1>3. CASE WorkerNumber = 4
  <2>1. \A i \in Tasks : Holds(i) <=>
          (i * z <= u /\ u < IF i < 3 THEN i * z + z ELSE n)
    <3> SUFFICES ASSUME NEW i \in Tasks
                 PROVE  Holds(i) <=> (i * z <= u /\ u < IF i < 3 THEN i * z + z ELSE n)
      OBVIOUS
    <3>1. i \in {0, 1, 2, 3}
      BY <1>1, <1>3
    <3>2. CASE i < 3
      <4>1. Part(i).base = i * z /\ Part(i).size = z
        BY <1>2, <3>2, PartBounds
      <4> QED BY <3>2, <4>1
    <3>3. CASE i = 3
      <4>1. Part(i).base = 3 * z /\ Part(i).size = n - 3 * z
        BY <1>2, <3>3, PartBounds
      <4>2. 3 * z + (n - 3 * z) = n
        BY <1>2
      <4> QED BY <3>3, <4>1, <4>2
    <3> QED BY <3>1, <3>2, <3>3
  <2>2. InParts = n
    BY <1>2, <1>3 DEF InParts
  <2>3. Tasks = {0, 1, 2, 3}
    BY <1>1, <1>3
  <2> HIDE DEF Holds
  <2>4. /\ Holds(0) <=> u < z
        /\ Holds(1) <=> z <= u /\ u < 2 * z
        /\ Holds(2) <=> 2 * z <= u /\ u < 3 * z
        /\ Holds(3) <=> 3 * z <= u /\ u < n
        /\ 4 * z <= n
    BY <1>2, <1>3, <2>1, <2>3
  <2>5. CASE u < n
    <3>1. \E c \in {0, 1, 2, 3} : Holds(c) /\ \A i \in {0, 1, 2, 3} : Holds(i) => i = c
      BY <1>2, <2>4, <2>5
    <3>2. \E c \in Tasks : {i \in Tasks : Holds(i)} = {c}
      BY <2>3, <3>1
    <3> QED BY <2>2, <2>5, <3>2 DEF Holds
  <2>6. CASE ~(u < n)
    <3>1. \A i \in {0, 1, 2, 3} : ~Holds(i)
      BY <1>2, <2>4, <2>6
    <3>2. {i \in Tasks : Holds(i)} = {}
      BY <2>3, <3>1
    <3> QED BY <2>2, <2>6, <3>2 DEF Holds
  <2> QED BY <2>5, <2>6
<1>4. CASE WorkerNumber # 4
  <2>1. \A i \in Tasks : Holds(i) <=> (i * z <= u /\ u < i * z + z)
    <3> SUFFICES ASSUME NEW i \in Tasks
                 PROVE  Holds(i) <=> (i * z <= u /\ u < i * z + z)
      OBVIOUS
    <3>1. i < 3
      BY <1>1, <1>4
    <3>2. Part(i).base = i * z /\ Part(i).size = z
      BY <1>2, <3>1, PartBounds
    <3> QED BY <3>2
  <2>2. InParts = WorkerNumber * z
    <3>1. InParts = size - (size % (WorkerNumber * Page))
      BY <1>4 DEF InParts
    <3>2. WorkerNumber * ShipSize = size - (size % (WorkerNumber * Page))
      BY <1>1, <1>2, NestedRemainder DEF ShipSize
    <3> QED BY <1>2, <3>1, <3>2
  <2> HIDE DEF Holds
  <2>3. WorkerNumber \in {1, 2, 3}
    BY <1>1, <1>4
  <2>4. Tasks \subseteq {0, 1, 2} /\ \A i \in {0, 1, 2} : i \in Tasks <=> i < WorkerNumber
    BY <1>1, <2>3
  <2>5. CASE u < WorkerNumber * z
    <3>1. \E c \in Tasks : Holds(c) /\ \A i \in Tasks : Holds(i) => i = c
      <4>1. CASE u < z
        BY <1>2, <2>1, <2>3, <2>4, <4>1
      <4>2. CASE z <= u /\ u < 2 * z
        BY <1>2, <2>1, <2>3, <2>4, <2>5, <4>2
      <4>3. CASE 2 * z <= u
        BY <1>2, <2>1, <2>3, <2>4, <2>5, <4>3
      <4> QED BY <1>2, <4>1, <4>2, <4>3
    <3>2. \E c \in Tasks : {i \in Tasks : Holds(i)} = {c}
      BY <3>1
    <3> QED BY <2>2, <2>5, <3>2 DEF Holds
  <2>6. CASE ~(u < WorkerNumber * z)
    <3>1. \A i \in Tasks : ~Holds(i)
      BY <1>2, <2>1, <2>3, <2>4, <2>6
    <3>2. {i \in Tasks : Holds(i)} = {}
      BY <3>1
    <3> QED BY <2>2, <2>6, <3>2 DEF Holds
  <2> QED BY <2>5, <2>6
<1> QED BY <1>3, <1>4

LEMMA SizedIsPartsCover == size \in Sizes => PartsCover
<1> SUFFICES ASSUME size \in Sizes, NEW u \in 0..(size + PoolSize)
             PROVE  Cardinality({i \in Tasks : Part(i).base <= u
                                               /\ u < Part(i).base + Part(i).size})
                      = IF u < InParts THEN 1 ELSE 0
  BY DEF PartsCover
<1>1. u \in Nat
  OBVIOUS
<1>2. PICK H : H = {i \in Tasks : Part(i).base <= u
                                  /\ u < Part(i).base + Part(i).size}
  OBVIOUS
<1>3. (u < InParts /\ \E c \in Tasks : H = {c}) \/ (~(u < InParts) /\ H = {})
  BY <1>1, <1>2, HeldBy
<1>4. CASE u < InParts /\ \E c \in Tasks : H = {c}
  BY <1>2, <1>4, FS_Singleton
<1>5. CASE ~(u < InParts) /\ H = {}
  BY <1>2, <1>5, FS_EmptySet
<1> QED BY <1>3, <1>4, <1>5

-----------------------------------------------------------------------------
(***************************************************************************)
(* The theorems.                                                           *)
(***************************************************************************)

LEMMA Inductive ==
  /\ Init => IInv
  /\ IInv /\ [Next]_vars => IInv'
<1>1. Init => IInv
  BY TypedInit, ScheduledInit, BalanceInit, CallerInit, WorkingInit, TransferredInit
  DEF IInv
<1>2. IInv /\ [Next]_vars => IInv'
  BY TypedStep, ScheduledStep, BalanceStep, CallerStep, WorkingStep, TransferredStep
  DEF IInv
<1> QED BY <1>1, <1>2

\* What holds in every reachable state: types and bounds, who is at work, how many
\* completions there are, and what has arrived of a transfer of the calling thread.
THEOREM Invariance == Spec => []IInv
<1>1. Init => IInv
  BY Inductive
<1>2. IInv /\ [Next]_vars => IInv'
  BY Inductive
<1> QED BY <1>1, <1>2, PTL DEF Spec

\* Every variable keeps its type: no chunk of InboundHamal or OutboundHamal reaches
\* beyond its pool or the buffers.
THEOREM TypeCorrect == Spec => []TypeOK
<1>1. IInv => TypeOK
  BY TypedIsTypeOK DEF IInv
<1> QED BY <1>1, Invariance, PTL

\* PollCompletion takes whatever entry there is, and still there is one for every
\* thread that polls, however many workers share the completion queue, whichever of
\* their queue pairs fail, and with RdmaCall's writes among them.
THEOREM Balanced == Spec => []CompletionBalance
<1>1. IInv => CompletionBalance
  BY BalanceIsCompletionBalance DEF IInv
<1> QED BY <1>1, Invariance, PTL

\* RemoteRead and RemoteWrite leave no request behind, before the first RdmaCall.
THEOREM NothingLeft == Spec => []NothingOutstanding
<1>1. IInv => NothingOutstanding
  BY BalanceIsNothingOutstanding DEF IInv
<1> QED BY <1>1, Invariance, PTL

\* Transfers of the calling thread transfer the data.
THEOREM SmallTransfers == Spec => []TransferredByCaller
<1>1. IInv => TransferredByCaller
  BY DEF IInv
<1> QED BY <1>1, Invariance, PTL

\* The split of a large transfer in RemoteRead and RemoteWrite, for any size and page:
\* disjoint parts, the whole with four workers, whole pages for each with fewer.
THEOREM PartsAreASplit == Spec => []PartsCover
<1>1. IInv => PartsCover
  BY SizedIsPartsCover DEF IInv, Typed
<1> QED BY <1>1, Invariance, PTL
=============================================================================
