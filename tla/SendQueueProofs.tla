-------------------------- MODULE SendQueueProofs --------------------------
(***************************************************************************)
(* Proofs about SendQueue, for any number of servers, any period and batch *)
(* and any number of completions nobody takes.                             *)
(*                                                                         *)
(* What the completion queue holds (Queued) is right for any Depth.  That  *)
(* the signaled requests are balanced and the queues do not overflow needs *)
(* DeepEnough, and the two need each other: a queue that overflows refuses *)
(* a signaled request, and a request that is missing is waited for.        *)
(***************************************************************************)
EXTENDS SendQueue, FiniteLemmas

\* With the code's SIGNAL_BATCH (31) and QPS_MAX_DEPTH (128): servers and unpolled
\* completions are three together.
DeepEnough == Depth >= (Cardinality(Servers) + MaxUnpolled + 1) * SignalPeriod

\* The completion queue holds as many entries of a server as signaled requests to it
\* were performed and not yet freed.
Matched ==
  \A s \in Servers : Mentions(cq, s) = Until(queue[s], done[s])

QueuesOK ==
  /\ queue \in [Servers -> Seq(BOOLEAN)] /\ done \in [Servers -> Nat]
  /\ cq \in Seq(Servers)
  /\ \A s \in Servers : done[s] <= Len(queue[s]) /\ Len(queue[s]) <= Depth
  /\ Matched
ThreadOK ==
  /\ pc \in {"idle", "loop", "wait"} /\ dest \in Servers
  /\ left \in 0..MaxPostList /\ list \in Seq(BOOLEAN)
  /\ counter \in [Servers -> 0..SignalPeriod]
  /\ unpolled \in 0..MaxUnpolled
  /\ pc # "loop" => list = <<>>
Queued == QueuesOK /\ ThreadOK

\* CompletionBalance, with the sum as a count.
SignaledIn == [s \in Servers |-> Since(queue[s], 0)]
Balance ==
  Total(SignaledIn, Servers) + Since(list, 0)
    = Active + unpolled + (IF pc = "wait" THEN 1 ELSE 0)

\* A request in SignalPeriod is signaled: of the posted requests and the prepared ones
\* behind them, and of any last part of them, there are at most SignalPeriod for each
\* signaled one, and those since the last of a batch.
Run(c)     == IF c = 0 THEN 0 ELSE c - 1
Rest(s)    == Run(counter[s])
Pending(s) == IF dest = s THEN Len(list) ELSE 0
PendingSignaled(s) == IF dest = s THEN Since(list, 0) ELSE 0
Dense(q, n, signaled, rest) ==
  \A i \in 0..Len(q) :
    (Len(q) - i) + n <= (Since(q, i) + signaled) * SignalPeriod + rest

Counted ==
  /\ Balance
  /\ \A s \in Servers : Dense(queue[s], Pending(s), PendingSignaled(s), Rest(s))
  /\ Dense(list, 0, 0, Rest(dest))
  /\ pc = "wait" => SendQueueBound

-----------------------------------------------------------------------------
LEMMA Constants ==
  /\ IsFiniteSet(Servers) /\ Cardinality(Servers) \in Nat
  /\ SignalPeriod \in Nat \ {0} /\ MaxPostList \in Nat \ {0} /\ Depth \in Nat \ {0}
  /\ MaxUnpolled \in Nat
BY SendQueueAssumption, FS_CardinalityType

LEMMA QueueTypes ==
  ASSUME Queued
  PROVE  /\ queue \in [Servers -> Seq(BOOLEAN)] /\ done \in [Servers -> Nat]
         /\ \A s \in Servers :
              /\ queue[s] \in Seq(BOOLEAN) /\ Len(queue[s]) \in Nat
              /\ done[s] \in Nat /\ done[s] <= Len(queue[s]) /\ Len(queue[s]) <= Depth
         /\ list \in Seq(BOOLEAN) /\ Len(list) \in Nat
         /\ cq \in Seq(Servers) /\ dest \in Servers
<1>1. /\ \A s \in Servers : queue[s] \in Seq(BOOLEAN)
      /\ list \in Seq(BOOLEAN) /\ cq \in Seq(Servers) /\ dest \in Servers
      /\ queue \in [Servers -> Seq(BOOLEAN)] /\ done \in [Servers -> Nat]
  BY DEF Queued, QueuesOK, ThreadOK
<1>2. \A s \in Servers : done[s] <= Len(queue[s]) /\ Len(queue[s]) <= Depth
  BY DEF Queued, QueuesOK
<1> QED BY <1>1, <1>2, LenFacts

LEMMA QueuedIsTypeOK == Queued => TypeOK
<1> SUFFICES ASSUME Queued PROVE TypeOK
  OBVIOUS
<1>1. \A s \in Servers : done[s] \in 0..Len(queue[s])
  BY QueueTypes
<1> QED BY <1>1 DEF Queued, QueuesOK, ThreadOK, TypeOK

LEMMA SignaledIsSince ==
  ASSUME NEW q \in Seq(BOOLEAN) PROVE Signaled(q) = Since(q, 0)
<1>1. After(q, 0) = {i \in DOMAIN q : q[i]}
  BY DEF After
<1> QED BY <1>1 DEF Signaled, Since

-----------------------------------------------------------------------------
(***************************************************************************)
(* The completion queue.                                                   *)
(***************************************************************************)

LEMMA QueuedInit == Init => Queued
<1> SUFFICES ASSUME Init PROVE Queued
  OBVIOUS
<1>1. ThreadOK
  <2>1. 0 \in 0..SignalPeriod /\ 0 \in 0..MaxPostList /\ 0 \in 0..MaxUnpolled
    BY Constants
  <2> QED BY <2>1 DEF Init, ThreadOK
<1>2. /\ queue \in [Servers -> Seq(BOOLEAN)] /\ done \in [Servers -> Nat]
      /\ cq \in Seq(Servers)
      /\ \A s \in Servers : done[s] <= Len(queue[s]) /\ Len(queue[s]) <= Depth
  BY Constants DEF Init
<1>3. Matched
  <2> SUFFICES ASSUME NEW s \in Servers PROVE Mentions(cq, s) = Until(queue[s], done[s])
    BY DEF Matched
  <2>1. cq = <<>> /\ cq \in Seq(Servers) /\ queue[s] = <<>> /\ done[s] = 0
    BY DEF Init
  <2>2. Mentions(cq, s) = 0
    <3>1. \A i \in DOMAIN cq : cq[i] # s
      BY <2>1
    <3>2. cq \in Seq(Servers)
      BY <2>1
    <3> QED BY <3>1, <3>2, MentionsType
  <2>3. Until(queue[s], 0) = 0
    <3>1. queue[s] \in Seq(BOOLEAN)
      BY <2>1
    <3> QED BY <3>1, SinceUntil
  <2> QED BY <2>1, <2>2, <2>3
<1> QED BY <1>1, <1>2, <1>3 DEF Queued, QueuesOK

\* What PollCompletion does: it frees the first requests of one queue, of which only
\* the last was signaled.
LEMMA PollEffect ==
  ASSUME Queued, PollCompletion
  PROVE  \E s \in Servers : \E k \in 1..done[s] :
           /\ cq # <<>> /\ Head(cq) = s /\ cq' = Tail(cq)
           /\ k \in 1..Len(queue[s]) /\ Until(queue[s], k) = 1
           /\ queue' = [queue EXCEPT ![s] = SubSeq(@, k + 1, Len(@))]
           /\ done' = [done EXCEPT ![s] = @ - k]
<1>1. cq # <<>> /\ cq' = Tail(cq) /\ cq \in Seq(Servers)
  BY QueueTypes DEF PollCompletion
<1>2. PICK s \in Servers : s = Head(cq)
  BY <1>1, TailFacts
<1>3. /\ queue[s] \in Seq(BOOLEAN) /\ Len(queue[s]) \in Nat
      /\ done[s] \in Nat /\ done[s] <= Len(queue[s])
  BY QueueTypes
<1> DEFINE S == {i \in DOMAIN queue[s] : queue[s][i]}
           k == Min(S)
<1>4. S \in SUBSET Nat /\ IsFiniteSet(S) /\ S \subseteq 1..Len(queue[s])
  <2>1. S \subseteq 1..Len(queue[s])
    BY <1>3
  <2>2. IsFiniteSet(1..Len(queue[s]))
    <3>1. PICK n \in Nat : n = Len(queue[s])
      BY <1>3
    <3> QED BY <3>1, FS_Interval
  <2>3. IsFiniteSet(S)
    BY <2>1, <2>2, FS_Subset
  <2> QED BY <2>1, <2>3
<1>5. PICK j \in 1..done[s] : queue[s][j]
  <2>1. Mentions(cq, s) # 0
    <3>1. \E i \in DOMAIN cq : cq[i] = s
      BY <1>1, <1>2, TailFacts
    <3> QED BY <1>1, <3>1, MentionsType
  <2>2. Until(queue[s], done[s]) # 0
    BY <2>1 DEF Queued, QueuesOK, Matched
  <2>3. Upto(queue[s], done[s]) # {}
    BY <2>2, FS_EmptySet DEF Until
  <2> QED BY <2>3 DEF Upto
<1>6. j \in S
  BY <1>3, <1>5
<1>7. k \in S /\ \A y \in S : k <= y
  <2> HIDE DEF S
  <2> QED BY <1>4, <1>6, SmallestElement
<1>8. k \in 1..Len(queue[s]) /\ k \in 1..done[s] /\ queue[s][k]
      /\ \A i \in 1..Len(queue[s]) : queue[s][i] => k <= i
  <2>1. k <= j /\ k \in Nat /\ k \in 1..Len(queue[s])
    BY <1>4, <1>6, <1>7
  <2>2. k \in 1..done[s]
    BY <1>3, <1>5, <2>1
  <2>3. queue[s][k]
    BY <1>7
  <2>4. \A i \in 1..Len(queue[s]) : queue[s][i] => i \in S
    BY <1>3
  <2> QED BY <1>7, <2>1, <2>2, <2>3, <2>4
<1>9. Until(queue[s], k) = 1
  <2> HIDE DEF k
  <2> QED BY <1>3, <1>8, UntilFirst
<1>10. /\ queue' = [queue EXCEPT ![s] = SubSeq(@, k + 1, Len(@))]
       /\ done' = [done EXCEPT ![s] = @ - k]
  BY <1>2, Zenon DEF PollCompletion
<1> HIDE DEF k
<1> QED BY <1>1, <1>2, <1>8, <1>9, <1>10

\* What is left of the queue.
LEMMA PollLeaves ==
  ASSUME Queued, NEW s \in Servers, NEW k \in 1..Len(queue[s]), k <= done[s],
         Until(queue[s], k) = 1,
         queue' = [queue EXCEPT ![s] = SubSeq(@, k + 1, Len(@))],
         done' = [done EXCEPT ![s] = @ - k]
  PROVE  /\ queue' \in [Servers -> Seq(BOOLEAN)] /\ done' \in [Servers -> Nat]
         /\ Len(queue'[s]) \in Nat /\ Len(queue'[s]) = Len(queue[s]) - k
         /\ k \in Nat /\ done'[s] = done[s] - k /\ done'[s] <= Len(queue'[s])
         /\ \A i \in 0..Len(queue'[s]) : Since(queue'[s], i) = Since(queue[s], k + i)
         /\ Since(queue[s], 0) = Since(queue'[s], 0) + 1
         /\ Until(queue[s], done[s]) = Until(queue'[s], done'[s]) + 1
         /\ \A u \in Servers \ {s} : queue'[u] = queue[u] /\ done'[u] = done[u]
<1>1. /\ queue \in [Servers -> Seq(BOOLEAN)] /\ done \in [Servers -> Nat]
      /\ queue[s] \in Seq(BOOLEAN)
      /\ Len(queue[s]) \in Nat /\ done[s] \in Nat /\ done[s] <= Len(queue[s])
  BY QueueTypes
<1>2. k \in 0..Len(queue[s]) /\ k \in Nat
  BY <1>1
<1>3. PICK q \in Seq(BOOLEAN) : q = SubSeq(queue[s], k + 1, Len(queue[s]))
  BY <1>1, <1>2, SuffixFacts
<1>4. Len(q) \in Nat /\ Len(q) = Len(queue[s]) - k
  BY <1>1, <1>2, <1>3, SuffixFacts
<1>5. queue' = [queue EXCEPT ![s] = q]
  BY <1>3
<1>6. queue' \in [Servers -> Seq(BOOLEAN)] /\ queue'[s] = q
      /\ \A u \in Servers \ {s} : queue'[u] = queue[u]
  BY <1>1, <1>5
<1>7. /\ done' \in [Servers -> Nat] /\ done'[s] = done[s] - k /\ done'[s] <= Len(q)
      /\ \A u \in Servers \ {s} : done'[u] = done[u]
  BY <1>1, <1>2, <1>4
<1>8. /\ \A i \in 0..Len(q) : Since(q, i) = Since(queue[s], k + i)
      /\ \A n \in k..Len(queue[s]) :
           Until(queue[s], n) = Until(queue[s], k) + Until(q, n - k)
  BY <1>1, <1>2, <1>3, SinceSuffix
<1>9. Until(queue[s], done[s]) = 1 + Until(q, done[s] - k)
  BY <1>1, <1>2, <1>8
<1>10. Since(queue[s], 0) = 1 + Since(queue[s], k)
  BY <1>1, <1>2, SinceUntil
<1>11. Since(q, 0) = Since(queue[s], k)
  <2>1. 0 \in 0..Len(q) /\ k + 0 = k
    BY <1>2, <1>4
  <2> QED BY <1>8, <2>1
<1>12. Since(q, 0) \in Nat /\ Until(q, done[s] - k) \in Nat
  <2>1. done[s] - k \in Nat
    BY <1>7
  <2> QED BY <2>1, SinceType, UntilType
<1>13. Since(queue[s], 0) = Since(q, 0) + 1
  BY <1>10, <1>11, <1>12
<1>14. Until(queue[s], done[s]) = Until(q, done'[s]) + 1
  BY <1>7, <1>9, <1>12
<1> QED BY <1>2, <1>4, <1>6, <1>7, <1>8, <1>13, <1>14, Zenon

\* What a post does: it appends as much of the list as there are free entries.
LEMMA PostEffect ==
  ASSUME Queued, NEW s \in Servers, NEW wrs \in Seq(BOOLEAN), Post(s, wrs)
  PROVE  \E r \in Seq(BOOLEAN) :
           /\ queue' = [queue EXCEPT ![s] = @ \o r]
           /\ Len(queue[s]) + Len(r) <= Depth
           /\ Len(queue[s]) + Len(wrs) <= Depth => r = wrs
           /\ UNCHANGED <<done, cq>>
<1>1. /\ queue[s] \in Seq(BOOLEAN) /\ Len(queue[s]) \in Nat /\ Len(wrs) \in Nat
      /\ Len(queue[s]) <= Depth /\ Depth \in Nat
  BY QueueTypes, LenFacts, Constants
<1>2. PICK d \in Nat : d = Depth - Len(queue[s])
  <2>1. Depth - Len(queue[s]) \in Nat
    BY <1>1
  <2> QED BY <2>1
<1>3. PICK m \in Nat : m = Min({Len(wrs), d}) /\ m = IF Len(wrs) <= d THEN Len(wrs) ELSE d
  BY <1>1, SmallerOfTwo
<1>4. m <= Len(wrs) /\ m <= d
  BY <1>1, <1>3
<1>5. PICK r : r = SubSeq(wrs, 1, m)
  OBVIOUS
<1>6. r \in Seq(BOOLEAN) /\ Len(r) = m /\ (m = Len(wrs) => r = wrs)
  BY <1>1, <1>4, <1>5
<1>7. queue' = [queue EXCEPT ![s] = @ \o r] /\ UNCHANGED <<done, cq>>
  BY <1>2, <1>3, <1>5 DEF Post
<1>8. Len(queue[s]) + Len(r) <= Depth
  BY <1>1, <1>2, <1>4, <1>6
<1>9. Len(queue[s]) + Len(wrs) <= Depth => r = wrs
  BY <1>1, <1>2, <1>3, <1>6
<1> QED BY <1>6, <1>7, <1>8, <1>9

LEMMA PostLeaves ==
  ASSUME Queued, NEW s \in Servers, NEW r \in Seq(BOOLEAN),
         queue' = [queue EXCEPT ![s] = @ \o r], Len(queue[s]) + Len(r) <= Depth
  PROVE  /\ queue' \in [Servers -> Seq(BOOLEAN)]
         /\ Len(queue'[s]) = Len(queue[s]) + Len(r) /\ queue'[s] = queue[s] \o r
         /\ \A u \in Servers \ {s} : queue'[u] = queue[u]
         /\ \A u \in Servers : Len(queue'[u]) \in Nat /\ Len(queue'[u]) <= Depth
         /\ \A u \in Servers : done[u] <= Len(queue'[u])
         /\ \A u \in Servers : Until(queue'[u], done[u]) = Until(queue[u], done[u])
<1>1. /\ queue \in [Servers -> Seq(BOOLEAN)]
      /\ \A u \in Servers : /\ queue[u] \in Seq(BOOLEAN) /\ Len(queue[u]) \in Nat
                            /\ Len(queue[u]) <= Depth
                            /\ done[u] \in Nat /\ done[u] <= Len(queue[u])
  BY QueueTypes
<1>2. /\ queue[s] \o r \in Seq(BOOLEAN) /\ Len(queue[s] \o r) = Len(queue[s]) + Len(r)
      /\ \A i \in 1..Len(queue[s]) : (queue[s] \o r)[i] = queue[s][i]
  BY <1>1, ConcatFacts
<1>3. /\ queue' \in [Servers -> Seq(BOOLEAN)] /\ queue'[s] = queue[s] \o r
      /\ \A u \in Servers \ {s} : queue'[u] = queue[u]
  BY <1>1, <1>2
<1>4. Len(r) \in Nat
  BY LenFacts
<1>5. \A u \in Servers : Len(queue'[u]) \in Nat /\ Len(queue'[u]) <= Depth
                         /\ done[u] <= Len(queue'[u])
  BY <1>1, <1>2, <1>3, <1>4
<1>6. Upto(queue'[s], done[s]) = Upto(queue[s], done[s])
  <2>1. \A i \in 1..done[s] : queue'[s][i] = queue[s][i]
    BY <1>1, <1>2, <1>3
  <2> QED BY <2>1 DEF Upto
<1> QED BY <1>2, <1>3, <1>5, <1>6 DEF Until

\* What each does to the completion queue.
LEMMA PollQueues == ASSUME Queued, PollCompletion PROVE QueuesOK'
<1>1. PICK s \in Servers : \E k \in 1..done[s] :
        /\ cq # <<>> /\ Head(cq) = s /\ cq' = Tail(cq)
        /\ k \in 1..Len(queue[s]) /\ Until(queue[s], k) = 1
        /\ queue' = [queue EXCEPT ![s] = SubSeq(@, k + 1, Len(@))]
        /\ done' = [done EXCEPT ![s] = @ - k]
  BY PollEffect
<1>7. PICK k \in 1..done[s] :
        /\ cq # <<>> /\ Head(cq) = s /\ cq' = Tail(cq)
        /\ k \in 1..Len(queue[s]) /\ Until(queue[s], k) = 1
        /\ queue' = [queue EXCEPT ![s] = SubSeq(@, k + 1, Len(@))]
        /\ done' = [done EXCEPT ![s] = @ - k]
  BY <1>1
<1>2. k <= done[s]
  BY <1>7, QueueTypes
<1>3. /\ queue' \in [Servers -> Seq(BOOLEAN)] /\ done' \in [Servers -> Nat]
      /\ Len(queue'[s]) \in Nat /\ Len(queue'[s]) = Len(queue[s]) - k
      /\ k \in Nat /\ done'[s] <= Len(queue'[s])
      /\ Until(queue[s], done[s]) = Until(queue'[s], done'[s]) + 1
      /\ \A u \in Servers \ {s} : queue'[u] = queue[u] /\ done'[u] = done[u]
  BY <1>2, <1>7, PollLeaves
<1>4. cq \in Seq(Servers) /\ cq' \in Seq(Servers)
  BY <1>7, QueueTypes, TailFacts
<1>5. \A u \in Servers : done'[u] <= Len(queue'[u]) /\ Len(queue'[u]) <= Depth
  <2>1. Len(queue'[s]) <= Depth
    <3>1. Len(queue[s]) \in Nat /\ Len(queue[s]) <= Depth /\ Depth \in Nat
      BY QueueTypes, Constants
    <3> QED BY <1>3, <3>1
  <2> QED BY <1>3, <2>1, QueueTypes
<1>6. Matched'
  <2> SUFFICES ASSUME NEW u \in Servers
               PROVE  Mentions(cq', u) = Until(queue'[u], done'[u])
    BY DEF Matched
  <2>1. Mentions(cq, u) = Mentions(cq', u) + (IF s = u THEN 1 ELSE 0)
    BY <1>4, <1>7, MentionsTail
  <2>2. Mentions(cq, u) = Until(queue[u], done[u])
    BY DEF Queued, QueuesOK, Matched
  <2>3. Mentions(cq', u) \in Nat
    BY <1>4, MentionsType
  <2>4. Until(queue'[u], done'[u]) \in Nat
    BY <1>3, UntilType
  <2>5. CASE u = s
    BY <1>3, <2>1, <2>2, <2>3, <2>4, <2>5
  <2>6. CASE u # s
    BY <1>3, <2>1, <2>2, <2>3, <2>6
  <2> QED BY <2>5, <2>6
<1> QED BY <1>3, <1>4, <1>5, <1>6 DEF QueuesOK

LEMMA PostQueues ==
  ASSUME Queued, NEW s \in Servers, NEW wrs \in Seq(BOOLEAN), Post(s, wrs)
  PROVE  QueuesOK'
<1>1. PICK r \in Seq(BOOLEAN) :
        /\ queue' = [queue EXCEPT ![s] = @ \o r]
        /\ Len(queue[s]) + Len(r) <= Depth
        /\ UNCHANGED <<done, cq>>
  BY PostEffect
<1>2. /\ queue' \in [Servers -> Seq(BOOLEAN)]
      /\ \A u \in Servers : Len(queue'[u]) <= Depth /\ done[u] <= Len(queue'[u])
      /\ \A u \in Servers : Until(queue'[u], done[u]) = Until(queue[u], done[u])
  BY <1>1, PostLeaves
<1>3. Matched'
  BY <1>1, <1>2 DEF Queued, QueuesOK, Matched
<1> QED BY <1>1, <1>2, <1>3 DEF Queued, QueuesOK

LEMMA PerformQueues == ASSUME Queued, NEW s \in Servers, Perform(s) PROVE QueuesOK'
<1>1. /\ done[s] < Len(queue[s]) /\ done' = [done EXCEPT ![s] = @ + 1]
      /\ cq' = (IF queue[s][done[s] + 1] THEN Append(cq, s) ELSE cq)
      /\ queue' = queue
  BY DEF Perform
<1>2. /\ queue[s] \in Seq(BOOLEAN) /\ Len(queue[s]) \in Nat /\ done[s] \in Nat
      /\ done \in [Servers -> Nat] /\ cq \in Seq(Servers)
  BY QueueTypes
<1>3. /\ done' \in [Servers -> Nat] /\ done'[s] = done[s] + 1
      /\ \A u \in Servers \ {s} : done'[u] = done[u]
  BY <1>1, <1>2
<1>4. cq' \in Seq(Servers)
  BY <1>1, <1>2, AppendFacts
<1>5. \A u \in Servers : done'[u] <= Len(queue[u]) /\ Len(queue[u]) <= Depth
  <2>1. done'[s] <= Len(queue[s])
    BY <1>1, <1>2, <1>3
  <2> QED BY <1>3, <2>1, QueueTypes
<1>6. Until(queue[s], done[s] + 1)
        = Until(queue[s], done[s]) + (IF queue[s][done[s] + 1] THEN 1 ELSE 0)
  BY <1>1, <1>2, UntilNext
<1>7. Matched'
  <2> SUFFICES ASSUME NEW u \in Servers
               PROVE  Mentions(cq', u) = Until(queue[u], done'[u])
    BY <1>1 DEF Matched
  <2>1. Mentions(Append(cq, s), u) = Mentions(cq, u) + (IF s = u THEN 1 ELSE 0)
    BY <1>2, MentionsAppend
  <2>2. Mentions(cq, u) = Until(queue[u], done[u]) /\ Mentions(cq, u) \in Nat
    BY <1>2, MentionsType DEF Queued, QueuesOK, Matched
  <2>3. CASE u = s
    <3>1. CASE queue[s][done[s] + 1]
      BY <1>1, <1>3, <1>6, <2>1, <2>2, <2>3, <3>1
    <3>2. CASE ~queue[s][done[s] + 1]
      BY <1>1, <1>3, <1>6, <2>2, <2>3, <3>2
    <3> QED BY <3>1, <3>2
  <2>4. CASE u # s
    <3>1. Mentions(cq', u) = Mentions(cq, u)
      BY <1>1, <2>1, <2>2, <2>4
    <3> QED BY <1>3, <2>2, <2>4, <3>1
  <2> QED BY <2>3, <2>4
<1> QED BY <1>1, <1>3, <1>4, <1>5, <1>7 DEF Queued, QueuesOK

\* What each does to the thread.
LEMMA BatchThread ==
  ASSUME ThreadOK, NEW s \in Servers, NEW n \in 1..MaxPostList, Batch(s, n)
  PROVE  ThreadOK'
<1>1. n \in 0..MaxPostList
  BY Constants
<1> QED BY <1>1 DEF Batch, ThreadOK

LEMMA PrepareThread == ASSUME ThreadOK, PrepareRequest PROVE ThreadOK'
<1>1. /\ pc = "loop" /\ left > 0 /\ left' = left - 1
      /\ list' = Append(list, IsSignaled(counter[dest]))
      /\ counter' = [counter EXCEPT ![dest] = NextCount(@)]
      /\ UNCHANGED <<pc, dest, unpolled>>
  BY DEF PrepareRequest
<1>2. left' \in 0..MaxPostList
  BY <1>1, Constants DEF ThreadOK
<1>3. list' \in Seq(BOOLEAN)
  <2>1. IsSignaled(counter[dest]) \in BOOLEAN /\ list \in Seq(BOOLEAN)
    BY DEF ThreadOK, IsSignaled
  <2> HIDE DEF IsSignaled
  <2> QED BY <1>1, <2>1, AppendFacts
<1>4. counter' \in [Servers -> 0..SignalPeriod]
  <2>1. \A n \in 0..SignalPeriod : NextCount(n) \in 0..SignalPeriod
    BY Constants DEF NextCount
  <2> QED BY <1>1, <2>1 DEF ThreadOK
<1> QED BY <1>1, <1>2, <1>3, <1>4 DEF ThreadOK

LEMMA PostThread ==
  ASSUME ThreadOK, PostList \/ Await \/ \E s \in Servers : Single(s) \/ SingleUnpolled(s)
  PROVE  ThreadOK'
<1>1. ASSUME PostList PROVE ThreadOK'
  BY <1>1 DEF PostList, ThreadOK
<1>2. ASSUME Await PROVE ThreadOK'
  BY <1>2 DEF Await, ThreadOK
<1>3. ASSUME NEW s \in Servers, Single(s) PROVE ThreadOK'
  BY <1>3 DEF Single, ThreadOK
<1>4. ASSUME NEW s \in Servers, SingleUnpolled(s) PROVE ThreadOK'
  <2>1. unpolled' \in 0..MaxUnpolled
    BY <1>4, Constants DEF SingleUnpolled, ThreadOK
  <2> QED BY <1>4, <2>1 DEF SingleUnpolled, ThreadOK
<1> QED BY <1>1, <1>2, <1>3, <1>4

LEMMA TrueList == <<TRUE>> \in Seq(BOOLEAN) /\ Len(<<TRUE>>) = 1 /\ <<TRUE>>[1] = TRUE
OBVIOUS

LEMMA QueuesKept == ASSUME QueuesOK, UNCHANGED queueVars PROVE QueuesOK'
BY DEF QueuesOK, Matched, queueVars

LEMMA QueuedStep == ASSUME Queued, [Next]_vars PROVE Queued'
<1>1. ASSUME NEW s \in Servers, NEW n \in 1..MaxPostList, Batch(s, n) PROVE Queued'
  BY <1>1, BatchThread, QueuesKept DEF Batch, Queued
<1>2. ASSUME NEW s \in Servers, Single(s) \/ SingleUnpolled(s) PROVE Queued'
  <2>1. Post(s, <<TRUE>>)
    BY <1>2 DEF Single, SingleUnpolled
  <2>2. QueuesOK'
    BY <2>1, TrueList, PostQueues
  <2> QED BY <1>2, <2>2, PostThread DEF Queued
<1>3. ASSUME NEW s \in Servers, Perform(s) PROVE Queued'
  <2>1. ThreadOK'
    BY <1>3 DEF Perform, threadVars, Queued, ThreadOK
  <2> QED BY <1>3, <2>1, PerformQueues DEF Queued
<1>4. ASSUME PrepareRequest PROVE Queued'
  <2>1. PollCompletion \/ UNCHANGED queueVars
    BY <1>4 DEF PrepareRequest
  <2> QED BY <1>4, <2>1, PrepareThread, PollQueues, QueuesKept DEF Queued
<1>5. ASSUME PostList PROVE Queued'
  <2>1. Post(dest, list) /\ dest \in Servers /\ list \in Seq(BOOLEAN)
    BY <1>5 DEF PostList, Queued, ThreadOK
  <2>2. QueuesOK'
    BY <2>1, PostQueues
  <2> QED BY <1>5, <2>2, PostThread DEF Queued
<1>6. ASSUME Await PROVE Queued'
  <2>1. PollCompletion
    BY <1>6 DEF Await
  <2> QED BY <1>6, <2>1, PollQueues, PostThread DEF Queued
<1>7. ASSUME UNCHANGED vars PROVE Queued'
  <2>1. UNCHANGED queueVars /\ UNCHANGED threadVars
    BY <1>7 DEF vars
  <2>2. ThreadOK'
    BY <2>1 DEF threadVars, Queued, ThreadOK
  <2> QED BY <2>1, <2>2, QueuesKept DEF Queued
<1> QED BY <1>1, <1>2, <1>3, <1>4, <1>5, <1>6, <1>7 DEF Next

-----------------------------------------------------------------------------
(***************************************************************************)
(* Dense sequences.                                                        *)
(***************************************************************************)

LEMMA Monotone ==
  ASSUME NEW a \in Nat, NEW b \in Nat, NEW c \in Nat, a <= b
  PROVE  a * c <= b * c /\ a * c \in Nat /\ b * c \in Nat /\ (a + 1) * c = a * c + c
BY SMT

LEMMA DenseSuffix ==
  ASSUME NEW q \in Seq(BOOLEAN), NEW r \in Seq(BOOLEAN), NEW k \in Nat,
         NEW n \in Nat, NEW z \in Nat, NEW rest \in Nat,
         Len(r) \in Nat, Len(r) = Len(q) - k,
         \A i \in 0..Len(r) : Since(r, i) = Since(q, k + i), Dense(q, n, z, rest)
  PROVE  Dense(r, n, z, rest)
<1> SUFFICES ASSUME NEW i \in 0..Len(r)
             PROVE  (Len(r) - i) + n <= (Since(r, i) + z) * SignalPeriod + rest
  BY DEF Dense
<1>1. Len(q) \in Nat /\ k + i \in 0..Len(q) /\ Len(r) - i = Len(q) - (k + i)
  BY LenFacts
<1>2. (Len(q) - (k + i)) + n <= (Since(q, k + i) + z) * SignalPeriod + rest
  BY <1>1 DEF Dense
<1> QED BY <1>1, <1>2

LEMMA DenseConcat ==
  ASSUME NEW q \in Seq(BOOLEAN), NEW r \in Seq(BOOLEAN), NEW rest \in Nat,
         Dense(q, Len(r), Since(r, 0), rest), Dense(r, 0, 0, rest)
  PROVE  Dense(q \o r, 0, 0, rest)
<1>1. PICK c \in Seq(BOOLEAN) : c = q \o r
  BY ConcatFacts
<1>2. Len(q) \in Nat /\ Len(r) \in Nat /\ Len(c) = Len(q) + Len(r)
  BY <1>1, LenFacts, ConcatFacts
<1>3. /\ \A i \in 0..Len(q) : Since(c, i) = Since(q, i) + Since(r, 0)
      /\ \A i \in 0..Len(r) : Since(c, Len(q) + i) = Since(r, i)
  BY <1>1, SinceConcat
<1> SUFFICES ASSUME NEW i \in 0..Len(c)
             PROVE  (Len(c) - i) + 0 <= (Since(c, i) + 0) * SignalPeriod + rest
  BY <1>1 DEF Dense
<1>4. CASE i <= Len(q)
  <2>1. i \in 0..Len(q)
    BY <1>2, <1>4
  <2>2. (Len(q) - i) + Len(r) <= (Since(q, i) + Since(r, 0)) * SignalPeriod + rest
    BY <2>1 DEF Dense
  <2>3. Since(c, i) = Since(q, i) + Since(r, 0) /\ Since(c, i) \in Nat
    BY <1>3, <2>1, SinceType
  <2>4. (Len(q) - i) + Len(r) <= Since(c, i) * SignalPeriod + rest
    BY <2>2, <2>3
  <2>5. (Len(c) - i) + 0 = (Len(q) - i) + Len(r) /\ Since(c, i) + 0 = Since(c, i)
    BY <1>2, <2>1, <2>3
  <2> QED BY <2>4, <2>5
<1>5. CASE ~(i <= Len(q))
  <2>1. PICK j \in 0..Len(r) : i = Len(q) + j
    <3>1. i - Len(q) \in 0..Len(r) /\ i = Len(q) + (i - Len(q))
      BY <1>2, <1>5
    <3> QED BY <3>1
  <2>2. (Len(r) - j) + 0 <= (Since(r, j) + 0) * SignalPeriod + rest
    BY <2>1 DEF Dense
  <2>3. Since(c, i) = Since(r, j) /\ (Len(c) - i) + 0 = (Len(r) - j) + 0
    BY <1>2, <1>3, <2>1
  <2> QED BY <2>2, <2>3
<1> QED BY <1>4, <1>5

LEMMA SingleList == Since(<<TRUE>>, 0) = 1
<1>1. PICK q1 \in Seq(BOOLEAN) : q1 = <<TRUE>> /\ Len(q1) = 1 /\ q1[1]
  BY TrueList
<1>2. Until(q1, 1) = 1
  <2>1. 1 \in 1..Len(q1) /\ \A j \in 1..Len(q1) : 1 <= j
    BY <1>1
  <2> QED BY <1>1, <2>1, UntilFirst
<1>3. Since(q1, 0) = Until(q1, 1)
  BY <1>1, SinceUntil
<1> QED BY <1>1, <1>2, <1>3

\* One request that is signaled, behind or within.
LEMMA DenseSingle ==
  ASSUME NEW q \in Seq(BOOLEAN), NEW rest \in Nat, Dense(q, 0, 0, rest)
  PROVE  Dense(q \o <<TRUE>>, 0, 0, rest)
<1>1. SignalPeriod \in Nat \ {0}
  BY Constants
<1>2. Since(<<TRUE>>, 0) = 1
  BY SingleList
<1>3. Dense(q, 1, 1, rest)
  <2> SUFFICES ASSUME NEW i \in 0..Len(q)
               PROVE  (Len(q) - i) + 1 <= (Since(q, i) + 1) * SignalPeriod + rest
    BY DEF Dense
  <2>1. (Len(q) - i) + 0 <= (Since(q, i) + 0) * SignalPeriod + rest
    BY DEF Dense
  <2>2. PICK a \in Nat, l \in Nat : a = Since(q, i) /\ l = Len(q) - i
    <3>1. Len(q) \in Nat /\ i \in Nat
      BY LenFacts
    <3>2. Since(q, i) \in Nat /\ Len(q) - i \in Nat
      BY <3>1, SinceType
    <3> QED BY <3>2
  <2>3. a * SignalPeriod \in Nat /\ (a + 1) * SignalPeriod = a * SignalPeriod + SignalPeriod
    BY <1>1, Monotone
  <2>4. l <= a * SignalPeriod + rest
    BY <2>1, <2>2
  <2>5. l + 1 <= (a + 1) * SignalPeriod + rest
    BY <1>1, <2>3, <2>4
  <2> QED BY <2>2, <2>5
<1>4. Dense(<<TRUE>>, 0, 0, rest)
  <2> SUFFICES ASSUME NEW i \in 0..1
               PROVE  (1 - i) + 0 <= (Since(<<TRUE>>, i) + 0) * SignalPeriod + rest
    BY TrueList DEF Dense
  <2>1. Since(<<TRUE>>, 1) \in Nat
    BY TrueList, SinceType
  <2>2. Since(<<TRUE>>, 1) * SignalPeriod \in Nat
    BY <1>1, <2>1, Monotone
  <2>3. CASE i = 0
    BY <1>1, <1>2, <2>3
  <2>4. CASE i = 1
    BY <2>1, <2>2, <2>4
  <2> QED BY <2>3, <2>4
<1> QED BY <1>2, <1>3, <1>4, TrueList, DenseConcat

\* A request prepared, as the counter says.
LEMMA DenseNext ==
  ASSUME NEW c \in 0..SignalPeriod, NEW l \in Nat, NEW a \in Nat,
         l <= a * SignalPeriod + Run(c)
  PROVE  /\ Run(NextCount(c)) \in Nat
         /\ l + 1 <= (a + (IF IsSignaled(c) THEN 1 ELSE 0)) * SignalPeriod
                       + Run(NextCount(c))
<1>1. SignalPeriod \in Nat \ {0} /\ c \in Nat /\ c <= SignalPeriod
  BY Constants
<1>2. PICK m \in Nat : m = a * SignalPeriod /\ (a + 1) * SignalPeriod = m + SignalPeriod
  BY <1>1, Monotone
<1>3. CASE c = 0 \/ c = SignalPeriod
  <2>1. IsSignaled(c) /\ NextCount(c) = 1 /\ Run(NextCount(c)) = 0
    BY <1>1, <1>3 DEF IsSignaled, NextCount, Run
  <2>2. l <= m + (SignalPeriod - 1)
    BY <1>1, <1>2, <1>3 DEF Run
  <2>3. l + 1 <= (a + 1) * SignalPeriod + 0
    BY <1>1, <1>2, <2>2
  <2> QED BY <2>1, <2>3
<1>4. CASE c # 0 /\ c # SignalPeriod
  <2>1. ~IsSignaled(c) /\ NextCount(c) = c + 1 /\ Run(NextCount(c)) = c
    BY <1>1, <1>4 DEF IsSignaled, NextCount, Run
  <2>2. l <= m + (c - 1)
    BY <1>2, <1>4 DEF Run
  <2>3. l + 1 <= (a + 0) * SignalPeriod + c
    BY <1>1, <1>2, <2>2
  <2> QED BY <1>1, <2>1, <2>3
<1> QED BY <1>3, <1>4

LEMMA RunType ==
  ASSUME NEW c \in 0..SignalPeriod
  PROVE  Run(c) \in Nat /\ Run(c) <= SignalPeriod - 1 /\ IsSignaled(c) \in BOOLEAN
BY Constants DEF Run, IsSignaled

LEMMA DenseLonger ==
  ASSUME NEW c \in 0..SignalPeriod, NEW q \in Seq(BOOLEAN), NEW n \in Nat, NEW z \in Nat,
         Dense(q, n, z, Run(c))
  PROVE  Dense(q, n + 1, z + (IF IsSignaled(c) THEN 1 ELSE 0), Run(NextCount(c)))
<1>1. PICK b \in Nat : b = IF IsSignaled(c) THEN 1 ELSE 0
  OBVIOUS
<1> SUFFICES ASSUME NEW i \in 0..Len(q)
             PROVE  (Len(q) - i) + (n + 1)
                      <= (Since(q, i) + (z + b)) * SignalPeriod + Run(NextCount(c))
  BY <1>1 DEF Dense
<1>2. PICK l \in Nat, a \in Nat : l = (Len(q) - i) + n /\ a = Since(q, i) + z
  <2>1. Len(q) \in Nat /\ i \in Nat /\ i <= Len(q)
    BY LenFacts
  <2>2. Since(q, i) \in Nat
    BY <2>1, SinceType
  <2>3. (Len(q) - i) + n \in Nat /\ Since(q, i) + z \in Nat
    BY <2>1, <2>2
  <2> QED BY <2>3
<1>3. l <= a * SignalPeriod + Run(c)
  BY <1>2 DEF Dense
<1>4. l + 1 <= (a + b) * SignalPeriod + Run(NextCount(c))
  BY <1>1, <1>3, DenseNext
<1>5. l + 1 = (Len(q) - i) + (n + 1) /\ a + b = Since(q, i) + (z + b)
  <2>1. Len(q) \in Nat /\ i \in Nat
    BY LenFacts
  <2>2. Since(q, i) \in Nat
    BY <2>1, SinceType
  <2> QED BY <1>2, <2>1, <2>2
<1> QED BY <1>4, <1>5

LEMMA DenseAppend ==
  ASSUME NEW c \in 0..SignalPeriod, NEW q \in Seq(BOOLEAN), Dense(q, 0, 0, Run(c))
  PROVE  Dense(Append(q, IsSignaled(c)), 0, 0, Run(NextCount(c)))
<1>1. PICK r \in Seq(BOOLEAN) : r = Append(q, IsSignaled(c))
  BY RunType, AppendFacts
<1>2. Len(q) \in Nat /\ Len(r) = Len(q) + 1
  BY <1>1, LenFacts, RunType, AppendFacts
<1>3. \A i \in 0..Len(q) : Since(r, i) = Since(q, i) + (IF IsSignaled(c) THEN 1 ELSE 0)
  BY <1>1, RunType, SinceAppend
<1>4. Dense(q, 1, 0 + (IF IsSignaled(c) THEN 1 ELSE 0), Run(NextCount(c)))
  <2>1. Dense(q, 0 + 1, 0 + (IF IsSignaled(c) THEN 1 ELSE 0), Run(NextCount(c)))
    BY DenseLonger
  <2> QED BY <2>1
<1> SUFFICES ASSUME NEW i \in 0..Len(r)
             PROVE  (Len(r) - i) + 0
                      <= (Since(r, i) + 0) * SignalPeriod + Run(NextCount(c))
  BY <1>1 DEF Dense
<1>5. Since(r, i) \in Nat
  BY <1>2, SinceType
<1>6. CASE i = Len(r)
  <2>1. Since(r, i) * SignalPeriod \in Nat
    BY <1>5, Constants, Monotone
  <2>2. Run(NextCount(c)) \in Nat
    BY Constants DEF Run, NextCount
  <2>3. (Len(r) - i) + 0 = 0 /\ Since(r, i) + 0 = Since(r, i)
    BY <1>2, <1>5, <1>6
  <2> QED BY <2>1, <2>2, <2>3
<1>7. CASE i # Len(r)
  <2>1. i \in 0..Len(q)
    BY <1>2, <1>7
  <2>2. PICK b \in Nat : b = IF IsSignaled(c) THEN 1 ELSE 0
    OBVIOUS
  <2>3. (Len(q) - i) + 1 <= (Since(q, i) + (0 + b)) * SignalPeriod + Run(NextCount(c))
    BY <1>4, <2>1, <2>2 DEF Dense
  <2>4. Since(q, i) \in Nat
    BY <2>1, SinceType
  <2>5. Since(q, i) + (0 + b) = Since(r, i) + 0
    BY <1>3, <2>1, <2>2, <2>4
  <2>6. (Len(q) - i) + 1 = (Len(r) - i) + 0
    BY <1>2, <2>1
  <2> QED BY <2>3, <2>5, <2>6
<1> QED BY <1>6, <1>7

LEMMA EmptyList == Since(<<>>, 0) = 0 /\ Len(<<>>) = 0 /\ <<>> \in Seq(BOOLEAN)
<1>1. <<>> \in Seq(BOOLEAN) /\ Len(<<>>) = 0
  OBVIOUS
<1>2. Since(<<>>, 0) = Until(<<>>, 0) /\ Until(<<>>, 0) = 0
  BY <1>1, SinceUntil
<1> QED BY <1>1, <1>2

LEMMA DenseEmpty ==
  ASSUME NEW rest \in Nat PROVE Dense(<<>>, 0, 0, rest)
<1> SUFFICES ASSUME NEW i \in 0..0
             PROVE  (0 - i) + 0 <= (Since(<<>>, i) + 0) * SignalPeriod + rest
  BY EmptyList DEF Dense
<1> QED BY EmptyList, Constants

-----------------------------------------------------------------------------
(***************************************************************************)
(* The counts: signaled requests, active servers.                          *)
(***************************************************************************)

LEMMA SignaledTotal ==
  ASSUME NEW f, f = SignaledIn, QueuesOK
  PROVE  /\ f \in [Servers -> Nat]
         /\ Total(f, Servers) \in Nat
         /\ \A s \in Servers : f[s] = Since(queue[s], 0) /\ f[s] <= Total(f, Servers)
<1>1. f \in [Servers -> Nat]
  BY SinceType DEF SignaledIn, QueuesOK
<1>2. \A s \in Servers : f[s] = Since(queue[s], 0)
  BY DEF SignaledIn
<1>3. Total(f, Servers) \in Nat
  BY <1>1, TotalType, Constants
<1>4. \A s \in Servers : f[s] <= Total(f, Servers)
  <2> TAKE s \in Servers
  <2>1. /\ Total(f, Servers \ {s}) \in Nat
        /\ Total(f, Servers) = f[s] + Total(f, Servers \ {s})
    BY <1>1, TotalSplit, Constants
  <2>2. f[s] \in Nat
    BY <1>1
  <2> QED BY <2>1, <2>2
<1> QED BY <1>1, <1>2, <1>3, <1>4

LEMMA SignaledChange ==
  ASSUME QueuesOK, QueuesOK', NEW s \in Servers,
         \A u \in Servers \ {s} : queue'[u] = queue[u]
  PROVE  Total(SignaledIn', Servers) + Since(queue[s], 0)
           = Total(SignaledIn, Servers) + Since(queue'[s], 0)
<1>1. PICK f : f = SignaledIn
  OBVIOUS
<1>2. PICK g : g = SignaledIn'
  OBVIOUS
<1>3. f \in [Servers -> Nat] /\ \A u \in Servers : f[u] = Since(queue[u], 0)
  BY <1>1, SignaledTotal
<1>4. g \in [Servers -> Nat] /\ \A u \in Servers : g[u] = Since(queue'[u], 0)
  <2>1. \A u \in Servers : queue'[u] \in Seq(BOOLEAN)
    BY DEF QueuesOK
  <2> QED BY <1>2, <2>1, SinceType DEF SignaledIn
<1>5. \A u \in Servers \ {s} : g[u] = f[u]
  BY <1>3, <1>4
<1>6. Total(g, Servers) + f[s] = Total(f, Servers) + g[s]
  BY <1>3, <1>4, <1>5, TotalUpdate, Constants
<1> QED BY <1>1, <1>2, <1>3, <1>4, <1>6

\* MapThenSumSet is that total.
LEMMA SumIsTotal ==
  ASSUME QueuesOK
  PROVE  MapThenSumSet(LAMBDA s : Signaled(queue[s]), Servers) = Total(SignaledIn, Servers)
<1> DEFINE turn(g) == [r \in SUBSET Servers |-> IF r = {} THEN 0
                         ELSE Signaled(queue[Pick(r)]) + g[r \ {Pick(r)}]]
           sum == CHOOSE g : g = turn(g)
<1>1. MapThenSumSet(LAMBDA s : Signaled(queue[s]), Servers) = sum[Servers]
  BY Zenon DEF MapThenSumSet, MapThenFoldSet, Pick
<1>2. PICK f \in [Servers -> Nat] :
        f = SignaledIn /\ \A s \in Servers : f[s] = Signaled(queue[s])
  <2>1. PICK f : f = SignaledIn
    OBVIOUS
  <2>2. f \in [Servers -> Nat] /\ \A s \in Servers : f[s] = Since(queue[s], 0)
    BY <2>1, SignaledTotal
  <2>3. \A s \in Servers : Signaled(queue[s]) = Since(queue[s], 0)
    BY SignaledIsSince DEF QueuesOK
  <2> QED BY <2>1, <2>2, <2>3
<1>3. \A g : turn(g) = Turn(f, Servers, g)
  BY <1>2, PickIn DEF Turn
<1>4. \E g : g = turn(g)
  <2> DEFINE count == [r \in SUBSET Servers |-> Total(f, r)]
  <2>1. count = Turn(f, Servers, count)
    BY Constants, CountTurns
  <2>2. count = turn(count)
    BY <2>1, <1>3
  <2> HIDE DEF count, turn
  <2> QED BY <2>2
<1> HIDE DEF turn
<1>5. sum = turn(sum)
  BY <1>4, Zenon DEF sum
<1> HIDE DEF sum
<1>6. sum = Turn(f, Servers, sum)
  BY <1>3, <1>5
<1>7. sum[Servers] = Total(f, Servers)
  BY <1>6, Constants, TurnsAreCount
<1> QED BY <1>1, <1>2, <1>7

LEMMA BalanceIsCompletionBalance ==
  ASSUME Queued PROVE Balance <=> CompletionBalance
<1>1. QueuesOK /\ list \in Seq(BOOLEAN)
  BY QueueTypes DEF Queued
<1>2. Signaled(list) = Since(list, 0)
  BY <1>1, SignaledIsSince
<1>3. MapThenSumSet(LAMBDA s : Signaled(queue[s]), Servers) = Total(SignaledIn, Servers)
  BY <1>1, SumIsTotal
<1> QED BY <1>2, <1>3 DEF Balance, CompletionBalance

\* The servers that were sent a batch.
ActiveSet == {s \in Servers : counter[s] > 0}

LEMMA ActiveType ==
  /\ IsFiniteSet(ActiveSet) /\ Active = Cardinality(ActiveSet)
  /\ Active \in Nat /\ Active <= Cardinality(Servers)
<1>1. ActiveSet \subseteq Servers
  BY DEF ActiveSet
<1>2. IsFiniteSet(ActiveSet) /\ Cardinality(ActiveSet) <= Cardinality(Servers)
  BY <1>1, Constants, FS_Subset
<1>3. Active = Cardinality(ActiveSet)
  BY DEF Active, ActiveSet
<1> QED BY <1>2, <1>3, FS_CardinalityType

\* A counter that moves.
LEMMA ActiveStep ==
  ASSUME ThreadOK, NEW s \in Servers,
         counter' = [counter EXCEPT ![s] = NextCount(@)]
  PROVE  Active' = Active + (IF counter[s] = 0 THEN 1 ELSE 0)
<1>1. counter \in [Servers -> 0..SignalPeriod] /\ counter[s] \in Nat
      /\ counter[s] <= SignalPeriod
  BY Constants DEF ThreadOK
<1>2. counter'[s] > 0 /\ \A u \in Servers \ {s} : counter'[u] = counter[u]
  <2>1. NextCount(counter[s]) > 0
    BY <1>1, Constants DEF NextCount
  <2> QED BY <1>1, <2>1
<1>3. ActiveSet' = ActiveSet \cup {s} /\ (s \in ActiveSet <=> counter[s] # 0)
  BY <1>1, <1>2 DEF ActiveSet
<1>4. Active' = Cardinality(ActiveSet \cup {s})
  BY <1>3 DEF Active, ActiveSet
<1>5. Cardinality(ActiveSet \cup {s})
        = IF s \in ActiveSet THEN Cardinality(ActiveSet) ELSE Cardinality(ActiveSet) + 1
  BY ActiveType, FS_AddElement
<1> QED BY <1>3, <1>4, <1>5, ActiveType

-----------------------------------------------------------------------------
(***************************************************************************)
(* The bound.                                                              *)
(***************************************************************************)

\* What is the same in every step: the types of the terms.
LEMMA CountTypes ==
  ASSUME Queued
  PROVE  /\ Total(SignaledIn, Servers) \in Nat /\ Since(list, 0) \in Nat
         /\ Active \in Nat /\ unpolled \in Nat /\ unpolled <= MaxUnpolled
         /\ \A s \in Servers :
              /\ counter[s] \in 0..SignalPeriod /\ Rest(s) \in Nat
              /\ Rest(s) <= SignalPeriod - 1
              /\ Pending(s) \in Nat /\ PendingSignaled(s) \in Nat
              /\ Since(queue[s], 0) \in Nat
              /\ Since(queue[s], 0) <= Total(SignaledIn, Servers)
<1>1. QueuesOK /\ ThreadOK /\ Len(list) \in Nat /\ list \in Seq(BOOLEAN)
  BY QueueTypes DEF Queued
<1>2. PICK f : f = SignaledIn
  OBVIOUS
<1>3. /\ f \in [Servers -> Nat] /\ Total(f, Servers) \in Nat
      /\ \A s \in Servers : f[s] = Since(queue[s], 0) /\ f[s] <= Total(f, Servers)
  BY <1>1, <1>2, SignaledTotal
<1>4. Since(list, 0) \in Nat
  BY <1>1, SinceType
<1>5. unpolled \in Nat /\ unpolled <= MaxUnpolled
  BY <1>1, Constants DEF ThreadOK
<1>6. \A s \in Servers : counter[s] \in 0..SignalPeriod
  BY <1>1 DEF ThreadOK
<1>7. \A s \in Servers : Rest(s) \in Nat /\ Rest(s) <= SignalPeriod - 1
  BY <1>6, RunType DEF Rest
<1>8. \A s \in Servers : Pending(s) \in Nat /\ PendingSignaled(s) \in Nat
  BY <1>1, <1>4 DEF Pending, PendingSignaled
<1>9. \A s \in Servers : Since(queue[s], 0) \in Nat
                         /\ Since(queue[s], 0) <= Total(f, Servers)
  BY <1>3
<1> QED BY <1>2, <1>3, <1>4, <1>5, <1>6, <1>7, <1>8, <1>9, ActiveType

LEMMA Boundary ==
  ASSUME NEW l \in Nat, NEW a \in Nat, NEW b \in Nat, NEW rest \in Nat,
         l <= a * SignalPeriod + rest, rest <= SignalPeriod - 1, a <= b
  PROVE  l <= (b + 1) * SignalPeriod - 1
<1>1. SignalPeriod \in Nat \ {0}
  BY Constants
<1>2. /\ a * SignalPeriod <= b * SignalPeriod
      /\ a * SignalPeriod \in Nat /\ b * SignalPeriod \in Nat
      /\ (b + 1) * SignalPeriod = b * SignalPeriod + SignalPeriod
  BY <1>1, Monotone
<1> QED BY <1>1, <1>2

\* A queue that is dense and balanced is within the bound ...
LEMMA Within ==
  ASSUME Queued, Balance, pc # "wait", NEW s \in Servers,
         Dense(queue[s], Pending(s), PendingSignaled(s), Rest(s))
  PROVE  Len(queue[s]) + Pending(s) <= ((Active + unpolled) + 1) * SignalPeriod - 1
<1>1. /\ Total(SignaledIn, Servers) \in Nat /\ Since(list, 0) \in Nat
      /\ Active \in Nat /\ unpolled \in Nat
      /\ Rest(s) \in Nat /\ Rest(s) <= SignalPeriod - 1
      /\ Pending(s) \in Nat /\ PendingSignaled(s) \in Nat
      /\ Since(queue[s], 0) \in Nat
      /\ Since(queue[s], 0) <= Total(SignaledIn, Servers)
  BY CountTypes
<1>2. Len(queue[s]) \in Nat
  BY QueueTypes
<1>3. PendingSignaled(s) <= Since(list, 0)
  BY <1>1 DEF PendingSignaled
<1>4. Total(SignaledIn, Servers) + Since(list, 0) = Active + unpolled
  <2>1. Total(SignaledIn, Servers) + Since(list, 0) = (Active + unpolled) + 0
    BY DEF Balance
  <2> QED BY <1>1, <2>1
<1>5. (Len(queue[s]) - 0) + Pending(s)
        <= (Since(queue[s], 0) + PendingSignaled(s)) * SignalPeriod + Rest(s)
  BY <1>2 DEF Dense
<1>6. PICK l \in Nat, a \in Nat, b \in Nat :
        /\ l = Len(queue[s]) + Pending(s) /\ b = Active + unpolled
        /\ a = Since(queue[s], 0) + PendingSignaled(s)
  BY <1>1, <1>2
<1>7. a <= b
  BY <1>1, <1>3, <1>4, <1>6
<1>8. l <= a * SignalPeriod + Rest(s)
  <2>1. (Len(queue[s]) - 0) + Pending(s) = l
    BY <1>1, <1>2, <1>6
  <2> QED BY <1>5, <1>6, <2>1
<1>9. l <= (b + 1) * SignalPeriod - 1
  BY <1>1, <1>7, <1>8, Boundary
<1> QED BY <1>6, <1>9

LEMMA BoundFromCounted ==
  ASSUME Queued, Counted PROVE SendQueueBound
<1>1. CASE pc = "wait"
  BY <1>1 DEF Counted
<1>2. CASE pc # "wait"
  <2> SUFFICES ASSUME NEW s \in Servers
               PROVE  Len(queue[s]) + (IF dest = s THEN Len(list) ELSE 0)
                        <= (Active + unpolled + 1) * SignalPeriod - 1
                             + (IF pc = "wait" THEN 1 ELSE 0)
    BY DEF SendQueueBound
  <2>1. Len(queue[s]) + Pending(s) <= ((Active + unpolled) + 1) * SignalPeriod - 1
    BY <1>2, Within DEF Counted
  <2>2. Active + unpolled + 1 \in Nat /\ SignalPeriod \in Nat
    BY CountTypes, Constants
  <2>3. PICK x \in Nat : x = (Active + unpolled + 1) * SignalPeriod
    BY <2>2, Monotone
  <2>4. x - 1 + 0 = x - 1
    BY <2>3
  <2>5. Len(queue[s]) + Pending(s) <= x - 1 + 0
    BY <2>1, <2>3, <2>4, Zenon
  <2> QED BY <1>2, <2>3, <2>5, Zenon DEF Pending
<1> QED BY <1>1, <1>2

\* ... and has room for what is prepared and one request more.
LEMMA Room ==
  ASSUME Queued, Counted, DeepEnough, pc # "wait", NEW s \in Servers
  PROVE  Len(queue[s]) + Pending(s) + 1 <= Depth
<1>1. Len(queue[s]) + Pending(s) <= ((Active + unpolled) + 1) * SignalPeriod - 1
  BY Within DEF Counted
<1>2. PICK a \in Nat, b \in Nat : /\ a = (Active + unpolled) + 1
                                  /\ b = Cardinality(Servers) + MaxUnpolled + 1
                                  /\ a <= b
  <2>1. /\ Active \in Nat /\ unpolled \in Nat /\ Active <= Cardinality(Servers)
        /\ unpolled <= MaxUnpolled /\ Cardinality(Servers) \in Nat /\ MaxUnpolled \in Nat
    BY CountTypes, ActiveType, Constants
  <2>2. /\ (Active + unpolled) + 1 \in Nat
        /\ Cardinality(Servers) + MaxUnpolled + 1 \in Nat
        /\ (Active + unpolled) + 1 <= Cardinality(Servers) + MaxUnpolled + 1
    BY <2>1
  <2> QED BY <2>2
<1>3. a * SignalPeriod <= b * SignalPeriod /\ a * SignalPeriod \in Nat
      /\ b * SignalPeriod \in Nat
  BY <1>2, Constants, Monotone
<1>4. Depth >= b * SignalPeriod /\ Depth \in Nat
  BY <1>2, Constants DEF DeepEnough
<1>5. Len(queue[s]) \in Nat /\ Pending(s) \in Nat
  BY QueueTypes, CountTypes
<1> QED BY <1>1, <1>2, <1>3, <1>4, <1>5

-----------------------------------------------------------------------------
(***************************************************************************)
(* Steps.                                                                  *)
(***************************************************************************)

LEMMA NothingPrepared ==
  ASSUME list = <<>>, NEW s PROVE Pending(s) = 0 /\ PendingSignaled(s) = 0
BY EmptyList DEF Pending, PendingSignaled

LEMMA CountedInit == ASSUME Init PROVE Counted
<1>1. Queued /\ QueuesOK
  BY QueuedInit DEF Queued
<1>2. list = <<>> /\ pc = "idle" /\ unpolled = 0 /\ dest \in Servers
      /\ \A s \in Servers : queue[s] = <<>> /\ counter[s] = 0
  BY DEF Init
<1>3. Total(SignaledIn, Servers) = 0
  <2>1. PICK f : f = SignaledIn
    OBVIOUS
  <2>2. f \in [Servers -> Nat] /\ \A s \in Servers : f[s] = Since(queue[s], 0)
    BY <1>1, <2>1, SignaledTotal
  <2>3. \A s \in Servers : f[s] = 0
    BY <1>2, <2>2, EmptyList
  <2> QED BY <2>1, <2>2, <2>3, Constants, TotalZero
<1>4. Active = 0
  <2>1. ActiveSet = {}
    BY <1>2 DEF ActiveSet
  <2> QED BY <2>1, ActiveType, FS_EmptySet
<1>5. Balance
  BY <1>2, <1>3, <1>4, EmptyList DEF Balance
<1>6. \A s \in Servers : Rest(s) = 0
  BY <1>2 DEF Rest, Run
<1>7. \A s \in Servers : Dense(queue[s], Pending(s), PendingSignaled(s), Rest(s))
  BY <1>2, <1>6, NothingPrepared, DenseEmpty
<1> QED BY <1>2, <1>5, <1>6, <1>7, DenseEmpty DEF Counted

LEMMA CountedKept ==
  ASSUME Counted, UNCHANGED <<pc, dest, list, counter, unpolled, queue>>
  PROVE  Counted'
<1>1. Balance'
  BY DEF Counted, Balance, SignaledIn, Active
<1>2. \A s \in Servers :
        Rest(s)' = Rest(s) /\ Pending(s)' = Pending(s)
        /\ PendingSignaled(s)' = PendingSignaled(s)
  BY DEF Rest, Pending, PendingSignaled
<1>3. Rest(dest)' = Rest(dest)
  BY DEF Rest
<1>4. SendQueueBound' <=> SendQueueBound
  BY DEF SendQueueBound, Active
<1> QED BY <1>1, <1>2, <1>3, <1>4 DEF Counted

LEMMA BatchCounted ==
  ASSUME Queued, Counted, NEW s \in Servers, NEW n, Batch(s, n)
  PROVE  Counted'
<1>1. /\ pc = "idle" /\ pc' = "loop" /\ dest' = s /\ list' = <<>>
      /\ UNCHANGED <<counter, unpolled, queue>>
  BY DEF Batch, queueVars
<1>2. list = <<>>
  BY <1>1 DEF Queued, ThreadOK
<1>3. Balance'
  BY <1>1, <1>2 DEF Counted, Balance, SignaledIn, Active
<1>4. \A u \in Servers : Rest(u)' = Rest(u) /\ Rest(u) \in Nat
  BY <1>1, CountTypes DEF Rest
<1>5. \A u \in Servers : Pending(u)' = 0 /\ PendingSignaled(u)' = 0
  BY <1>1, EmptyList DEF Pending, PendingSignaled
<1>6. \A u \in Servers : Dense(queue[u], 0, 0, Rest(u))
  BY <1>2, NothingPrepared DEF Counted
<1>7. Dense(list', 0, 0, Rest(s))
  BY <1>1, <1>4, DenseEmpty
<1>8. Rest(dest)' = Rest(s)
  BY <1>1 DEF Rest
<1> QED BY <1>1, <1>3, <1>4, <1>5, <1>6, <1>7, <1>8 DEF Counted

\* PollCompletion frees one signaled request and leaves every queue dense.
LEMMA PollCounts ==
  ASSUME Queued, PollCompletion, QueuesOK'
  PROVE  /\ Total(SignaledIn, Servers) = Total(SignaledIn', Servers) + 1
         /\ Total(SignaledIn', Servers) \in Nat
         /\ \A s \in Servers : queue'[s] \in Seq(BOOLEAN) /\ Len(queue'[s]) \in Nat
                               /\ Len(queue'[s]) <= Len(queue[s])
         /\ \A s \in Servers : \A n, z, rest \in Nat :
              Dense(queue[s], n, z, rest) => Dense(queue'[s], n, z, rest)
<1>1. PICK s \in Servers : \E k \in 1..done[s] :
        /\ k \in 1..Len(queue[s]) /\ Until(queue[s], k) = 1
        /\ queue' = [queue EXCEPT ![s] = SubSeq(@, k + 1, Len(@))]
        /\ done' = [done EXCEPT ![s] = @ - k]
  BY PollEffect
<1>2. PICK k \in 1..done[s] :
        /\ k \in 1..Len(queue[s]) /\ Until(queue[s], k) = 1
        /\ queue' = [queue EXCEPT ![s] = SubSeq(@, k + 1, Len(@))]
        /\ done' = [done EXCEPT ![s] = @ - k]
  BY <1>1
<1>3. k <= done[s]
  BY <1>2, QueueTypes
<1>4. /\ Len(queue'[s]) \in Nat /\ Len(queue'[s]) = Len(queue[s]) - k
      /\ k \in Nat
      /\ \A i \in 0..Len(queue'[s]) : Since(queue'[s], i) = Since(queue[s], k + i)
      /\ Since(queue[s], 0) = Since(queue'[s], 0) + 1
      /\ \A u \in Servers \ {s} : queue'[u] = queue[u]
  BY <1>2, <1>3, PollLeaves
<1>5. \A u \in Servers : /\ queue[u] \in Seq(BOOLEAN) /\ Len(queue[u]) \in Nat
                         /\ queue'[u] \in Seq(BOOLEAN)
  BY QueueTypes DEF QueuesOK
<1>6. Total(SignaledIn', Servers) + Since(queue[s], 0)
        = Total(SignaledIn, Servers) + Since(queue'[s], 0)
  BY <1>4, SignaledChange DEF Queued
<1>7. Total(SignaledIn, Servers) \in Nat
  BY CountTypes
<1>8. Total(SignaledIn', Servers) \in Nat
  <2>1. PICK g : g = SignaledIn'
    OBVIOUS
  <2>2. g \in [Servers -> Nat]
    BY <1>5, <2>1, SinceType DEF SignaledIn
  <2> QED BY <2>1, <2>2, TotalType, Constants
<1>9. Since(queue'[s], 0) \in Nat
  BY <1>5, SinceType
<1>10. Total(SignaledIn, Servers) = Total(SignaledIn', Servers) + 1
  BY <1>4, <1>6, <1>7, <1>8, <1>9
<1>11. \A u \in Servers : Len(queue'[u]) \in Nat /\ Len(queue'[u]) <= Len(queue[u])
  <2>1. Len(queue'[s]) <= Len(queue[s])
    BY <1>4, <1>5
  <2>2. ASSUME NEW u \in Servers, u # s
        PROVE  Len(queue'[u]) \in Nat /\ Len(queue'[u]) <= Len(queue[u])
    <3>1. queue'[u] = queue[u] /\ Len(queue[u]) \in Nat
      BY <1>4, <1>5, <2>2
    <3> QED BY <3>1
  <2> QED BY <1>4, <2>1, <2>2
<1>12. ASSUME NEW u \in Servers, NEW n \in Nat, NEW z \in Nat, NEW rest \in Nat,
              Dense(queue[u], n, z, rest)
       PROVE  Dense(queue'[u], n, z, rest)
  <2>1. CASE u # s
    BY <1>4, <1>12, <2>1
  <2>2. CASE u = s
    <3>1. PICK q \in Seq(BOOLEAN), r \in Seq(BOOLEAN) : q = queue[s] /\ r = queue'[s]
      BY <1>5
    <3>2. Len(r) \in Nat /\ Len(r) = Len(q) - k /\ k \in Nat
          /\ \A i \in 0..Len(r) : Since(r, i) = Since(q, k + i)
      BY <1>4, <3>1
    <3>3. Dense(r, n, z, rest)
      BY <1>12, <2>2, <3>1, <3>2, DenseSuffix
    <3> QED BY <2>2, <3>1, <3>3
  <2> QED BY <2>1, <2>2
<1> QED BY <1>5, <1>8, <1>10, <1>11, <1>12

LEMMA AwaitCounted ==
  ASSUME Queued, Counted, QueuesOK', Await PROVE Counted'
<1>1. /\ pc = "wait" /\ pc' = "idle" /\ PollCompletion
      /\ UNCHANGED <<dest, list, counter, unpolled>>
  BY DEF Await
<1>2. list = <<>>
  BY <1>1 DEF Queued, ThreadOK
<1>3. /\ Total(SignaledIn, Servers) = Total(SignaledIn', Servers) + 1
      /\ Total(SignaledIn', Servers) \in Nat
      /\ \A s \in Servers : \A n, z, rest \in Nat :
           Dense(queue[s], n, z, rest) => Dense(queue'[s], n, z, rest)
  BY <1>1, PollCounts
<1>4. Balance'
  <2>1. Total(SignaledIn, Servers) + Since(list, 0) = Active + unpolled + 1
    BY <1>1 DEF Counted, Balance
  <2>2. Active' = Active
    BY <1>1 DEF Active
  <2>3. Since(list, 0) = 0 /\ Active \in Nat /\ unpolled \in Nat
    BY <1>2, EmptyList, CountTypes
  <2>4. Total(SignaledIn', Servers) + 0 = Active + unpolled + 0
    BY <1>3, <2>1, <2>3
  <2> QED BY <1>1, <2>2, <2>3, <2>4 DEF Balance
<1>5. \A s \in Servers :
        /\ Rest(s)' = Rest(s) /\ Rest(s) \in Nat
        /\ Pending(s)' = Pending(s) /\ Pending(s) \in Nat
        /\ PendingSignaled(s)' = PendingSignaled(s) /\ PendingSignaled(s) \in Nat
  BY <1>1, CountTypes DEF Rest, Pending, PendingSignaled
<1>6. \A s \in Servers : Dense(queue'[s], Pending(s), PendingSignaled(s), Rest(s))
  BY <1>3, <1>5 DEF Counted
<1>7. Rest(dest)' = Rest(dest) /\ Dense(list, 0, 0, Rest(dest))
  BY <1>1 DEF Rest, Counted
<1> QED BY <1>1, <1>4, <1>5, <1>6, <1>7 DEF Counted

LEMMA PrepareCounted ==
  ASSUME Queued, Counted, QueuesOK', PrepareRequest PROVE Counted'
<1>1. /\ pc = "loop" /\ pc' = "loop" /\ dest' = dest /\ unpolled' = unpolled
      /\ list' = Append(list, IsSignaled(counter[dest]))
      /\ counter' = [counter EXCEPT ![dest] = NextCount(@)]
      /\ IF MustPoll(counter[dest]) THEN PollCompletion ELSE UNCHANGED queueVars
  BY DEF PrepareRequest
<1>2. /\ dest \in Servers /\ list \in Seq(BOOLEAN) /\ Len(list) \in Nat
      /\ counter[dest] \in 0..SignalPeriod /\ counter \in [Servers -> 0..SignalPeriod]
  BY QueueTypes DEF Queued, ThreadOK
<1>3. PICK c \in 0..SignalPeriod : c = counter[dest]
  BY <1>2
<1>4. PICK b \in Nat : b = IF IsSignaled(c) THEN 1 ELSE 0
  OBVIOUS
<1>5. list' \in Seq(BOOLEAN) /\ Len(list') = Len(list) + 1
      /\ Since(list', 0) = Since(list, 0) + b
  <2>1. IsSignaled(c) \in BOOLEAN /\ 0 \in 0..Len(list)
    BY <1>2, RunType
  <2> QED BY <1>1, <1>2, <1>3, <1>4, <2>1, AppendFacts, SinceAppend
<1>6. Active' = Active + (IF c = 0 THEN 1 ELSE 0)
  BY <1>1, <1>2, <1>3, ActiveStep DEF Queued
<1>7. \A s \in Servers :
        /\ counter[s] \in 0..SignalPeriod /\ Rest(s) \in Nat
        /\ Pending(s) \in Nat /\ PendingSignaled(s) \in Nat
        /\ queue'[s] \in Seq(BOOLEAN)
  BY CountTypes DEF QueuesOK
<1>8. /\ Total(SignaledIn, Servers)
           = Total(SignaledIn', Servers) + (IF c = SignalPeriod THEN 1 ELSE 0)
      /\ Total(SignaledIn', Servers) \in Nat
      /\ \A s \in Servers : Dense(queue'[s], Pending(s), PendingSignaled(s), Rest(s))
  <2>1. CASE c = SignalPeriod
    <3>1. PollCompletion
      BY <1>1, <1>3, <2>1 DEF MustPoll
    <3>2. /\ Total(SignaledIn, Servers) = Total(SignaledIn', Servers) + 1
          /\ Total(SignaledIn', Servers) \in Nat
          /\ \A s \in Servers : \A n, z, rest \in Nat :
               Dense(queue[s], n, z, rest) => Dense(queue'[s], n, z, rest)
      BY <3>1, PollCounts
    <3> QED BY <1>7, <2>1, <3>2 DEF Counted
  <2>2. CASE c # SignalPeriod
    <3>1. queue' = queue
      BY <1>1, <1>3, <2>2 DEF MustPoll, queueVars
    <3>2. SignaledIn' = SignaledIn
      BY <3>1 DEF SignaledIn
    <3>3. Total(SignaledIn, Servers) \in Nat
      BY CountTypes
    <3> QED BY <2>2, <3>1, <3>2, <3>3 DEF Counted
  <2> QED BY <2>1, <2>2
<1>9. Balance'
  <2>1. Total(SignaledIn, Servers) + Since(list, 0) = Active + unpolled + 0
    BY <1>1 DEF Counted, Balance
  <2>2. /\ Total(SignaledIn, Servers) \in Nat /\ Since(list, 0) \in Nat
        /\ Active \in Nat /\ unpolled \in Nat
    BY CountTypes
  <2>3. b = (IF c = 0 THEN 1 ELSE 0) + (IF c = SignalPeriod THEN 1 ELSE 0)
    BY <1>4, Constants DEF IsSignaled
  <2>4. PICK x \in Nat, y \in Nat : /\ x = IF c = 0 THEN 1 ELSE 0
                                    /\ y = IF c = SignalPeriod THEN 1 ELSE 0
    OBVIOUS
  <2>5. /\ Total(SignaledIn, Servers) = Total(SignaledIn', Servers) + y
        /\ Active' = Active + x /\ b = x + y
    BY <1>6, <1>8, <2>3, <2>4
  <2>6. Total(SignaledIn', Servers) + (Since(list, 0) + b) = (Active + x) + unpolled + 0
    BY <1>8, <2>1, <2>2, <2>5
  <2> QED BY <1>1, <1>5, <2>5, <2>6 DEF Balance
<1>10. Rest(dest)' = Run(NextCount(c)) /\ Rest(dest) = Run(c)
  BY <1>1, <1>2, <1>3 DEF Rest
<1>11. ASSUME NEW s \in Servers
       PROVE  Dense(queue[s], Pending(s), PendingSignaled(s), Rest(s))'
  <2>1. Dense(queue'[s], Pending(s), PendingSignaled(s), Rest(s))
    BY <1>8
  <2>2. CASE s # dest
    <3>1. /\ Pending(s) = Pending(s)' /\ PendingSignaled(s) = PendingSignaled(s)'
          /\ Rest(s) = Rest(s)'
      BY <1>1, <1>2, <2>2 DEF Pending, PendingSignaled, Rest
    <3> QED BY <2>1, <3>1
  <2>3. CASE s = dest
    <3>1. PICK q \in Seq(BOOLEAN), n \in Nat, z \in Nat :
            q = queue'[s] /\ n = Pending(s) /\ z = PendingSignaled(s)
      BY <1>7
    <3>2. Dense(q, n, z, Run(c))
      BY <1>10, <2>1, <2>3, <3>1
    <3>3. Dense(q, n + 1, z + b, Run(NextCount(c)))
      BY <1>4, <3>2, DenseLonger
    <3>4. Pending(s)' = n + 1 /\ PendingSignaled(s)' = z + b
      BY <1>1, <1>5, <2>3, <3>1 DEF Pending, PendingSignaled
    <3>5. Dense(queue'[s], Pending(s)', PendingSignaled(s)', Rest(s)')
      BY <1>1, <1>10, <2>3, <3>1, <3>3, <3>4
    <3> QED BY <3>5 DEF Dense
  <2> QED BY <2>2, <2>3
<1>12. Dense(list, 0, 0, Rest(dest))'
  <2>1. Dense(list, 0, 0, Run(c))
    BY <1>10 DEF Counted
  <2>2. Dense(Append(list, IsSignaled(c)), 0, 0, Run(NextCount(c)))
    BY <1>2, <2>1, DenseAppend
  <2> QED BY <1>1, <1>3, <1>10, <2>2
<1> QED BY <1>1, <1>9, <1>11, <1>12 DEF Counted

\* What is posted is appended to one queue, for there is room.
LEMMA Posted ==
  ASSUME Queued, Counted, DeepEnough, pc # "wait", QueuesOK',
         NEW s \in Servers, NEW wrs \in Seq(BOOLEAN), Post(s, wrs),
         Len(wrs) <= Pending(s) + 1
  PROVE  /\ queue'[s] = queue[s] \o wrs
         /\ \A u \in Servers \ {s} : queue'[u] = queue[u]
         /\ Total(SignaledIn', Servers) = Total(SignaledIn, Servers) + Since(wrs, 0)
         /\ Since(wrs, 0) \in Nat
<1>1. Len(queue[s]) + Pending(s) + 1 <= Depth
  BY Room
<1>2. /\ Len(queue[s]) \in Nat /\ Pending(s) \in Nat /\ Len(wrs) \in Nat
      /\ queue[s] \in Seq(BOOLEAN) /\ queue \in [Servers -> Seq(BOOLEAN)]
  BY QueueTypes, CountTypes, LenFacts
<1>3. Len(queue[s]) + Len(wrs) <= Depth
  BY <1>1, <1>2, Constants
<1>4. queue' = [queue EXCEPT ![s] = @ \o wrs]
  BY <1>3, PostEffect
<1>5. queue'[s] = queue[s] \o wrs /\ \A u \in Servers \ {s} : queue'[u] = queue[u]
  BY <1>2, <1>4
<1>6. Since(queue'[s], 0) = Since(queue[s], 0) + Since(wrs, 0)
  <2>1. 0 \in 0..Len(queue[s])
    BY <1>2
  <2> QED BY <1>2, <1>5, <2>1, SinceConcat
<1>7. Total(SignaledIn', Servers) + Since(queue[s], 0)
        = Total(SignaledIn, Servers) + Since(queue'[s], 0)
  BY <1>5, SignaledChange DEF Queued
<1>8. /\ Total(SignaledIn, Servers) \in Nat /\ Since(queue[s], 0) \in Nat
      /\ Since(wrs, 0) \in Nat
  BY CountTypes, SinceType
<1>9. Total(SignaledIn', Servers) \in Nat
  <2>1. PICK g : g = SignaledIn'
    OBVIOUS
  <2>2. g \in [Servers -> Nat]
    BY <2>1, SinceType DEF SignaledIn, QueuesOK
  <2> QED BY <2>1, <2>2, TotalType, Constants
<1>10. Total(SignaledIn', Servers) = Total(SignaledIn, Servers) + Since(wrs, 0)
  <2>1. PICK x \in Nat, y \in Nat, a \in Nat, w \in Nat :
          /\ x = Total(SignaledIn', Servers) /\ y = Total(SignaledIn, Servers)
          /\ a = Since(queue[s], 0) /\ w = Since(wrs, 0)
    BY <1>8, <1>9, Zenon
  <2>2. x + a = y + (a + w)
    BY <1>6, <1>7, <2>1, Zenon
  <2>3. x = y + w
    BY <2>2
  <2> QED BY <2>1, <2>3, Zenon
<1> QED BY <1>5, <1>8, <1>10

LEMMA PostCounted ==
  ASSUME Queued, Counted, DeepEnough, QueuesOK', PostList PROVE Counted'
<1>1. /\ pc = "loop" /\ pc' = "idle" /\ list' = <<>> /\ Post(dest, list)
      /\ UNCHANGED <<dest, counter, unpolled>>
  BY DEF PostList
<1>2. /\ dest \in Servers /\ list \in Seq(BOOLEAN) /\ Len(list) \in Nat
      /\ \A s \in Servers : queue[s] \in Seq(BOOLEAN)
  BY QueueTypes
<1>3. Pending(dest) = Len(list) /\ PendingSignaled(dest) = Since(list, 0)
  BY DEF Pending, PendingSignaled
<1>4. /\ queue'[dest] = queue[dest] \o list
      /\ \A u \in Servers \ {dest} : queue'[u] = queue[u]
      /\ Total(SignaledIn', Servers) = Total(SignaledIn, Servers) + Since(list, 0)
      /\ Since(list, 0) \in Nat
  <2>1. Len(list) <= Pending(dest) + 1
    BY <1>2, <1>3
  <2> QED BY <1>1, <1>2, <2>1, Posted
<1>5. Balance'
  <2>1. Total(SignaledIn', Servers) = Active + unpolled + 0
    BY <1>1, <1>4 DEF Counted, Balance
  <2>2. Active' = Active /\ Since(list', 0) = 0
    BY <1>1, EmptyList DEF Active
  <2>3. Total(SignaledIn', Servers) + 0 = Total(SignaledIn', Servers)
    BY <1>4, CountTypes
  <2> QED BY <1>1, <2>1, <2>2, <2>3 DEF Balance
<1>6. \A s \in Servers : Rest(s)' = Rest(s) /\ Rest(s) \in Nat
  BY <1>1, CountTypes DEF Rest
<1>7. \A s \in Servers : Pending(s)' = 0 /\ PendingSignaled(s)' = 0
  BY <1>1, EmptyList DEF Pending, PendingSignaled
<1>8. ASSUME NEW s \in Servers PROVE Dense(queue'[s], 0, 0, Rest(s))
  <2>1. Dense(queue[s], Pending(s), PendingSignaled(s), Rest(s))
    BY DEF Counted
  <2>2. CASE s = dest
    <3>1. Dense(queue[s], Len(list), Since(list, 0), Rest(s))
      BY <1>3, <2>1, <2>2
    <3>2. Dense(list, 0, 0, Rest(s))
      BY <2>2 DEF Counted
    <3> QED BY <1>2, <1>4, <1>6, <2>2, <3>1, <3>2, DenseConcat
  <2>3. CASE s # dest
    <3>1. Pending(s) = 0 /\ PendingSignaled(s) = 0
      BY <2>3 DEF Pending, PendingSignaled
    <3> QED BY <1>4, <2>1, <2>3, <3>1
  <2> QED BY <2>2, <2>3
<1>9. Dense(list', 0, 0, Rest(dest)')
  <2>1. Rest(dest)' = Rest(dest) /\ Rest(dest) \in Nat
    BY <1>1, <1>2, <1>6 DEF Rest
  <2> QED BY <1>1, <2>1, DenseEmpty
<1> QED BY <1>1, <1>5, <1>6, <1>7, <1>8, <1>9 DEF Counted

\* A verb that is signaled.
LEMMA SingleCounted ==
  ASSUME Queued, Counted, DeepEnough, QueuesOK',
         NEW s \in Servers, Single(s) \/ SingleUnpolled(s)
  PROVE  Counted'
<1>1. /\ pc = "idle" /\ dest' = s /\ Post(s, <<TRUE>>)
      /\ UNCHANGED <<list, counter>>
  BY DEF Single, SingleUnpolled
<1>2. list = <<>>
  BY <1>1 DEF Queued, ThreadOK
<1>3. \A u \in Servers : Pending(u) = 0 /\ PendingSignaled(u) = 0
                         /\ Pending(u)' = 0 /\ PendingSignaled(u)' = 0
  BY <1>1, <1>2, EmptyList DEF Pending, PendingSignaled
<1>4. /\ queue'[s] = queue[s] \o <<TRUE>>
      /\ \A u \in Servers \ {s} : queue'[u] = queue[u]
      /\ Total(SignaledIn', Servers) = Total(SignaledIn, Servers) + 1
  <2>1. Len(<<TRUE>>) <= Pending(s) + 1 /\ <<TRUE>> \in Seq(BOOLEAN)
    BY <1>3, TrueList
  <2>2. /\ queue'[s] = queue[s] \o <<TRUE>>
        /\ \A u \in Servers \ {s} : queue'[u] = queue[u]
        /\ Total(SignaledIn', Servers) = Total(SignaledIn, Servers) + Since(<<TRUE>>, 0)
    BY <1>1, <2>1, Posted
  <2> QED BY <2>2, SingleList
<1>5. \A u \in Servers : Rest(u)' = Rest(u) /\ Rest(u) \in Nat
  BY <1>1, CountTypes DEF Rest
<1>6. ASSUME NEW u \in Servers PROVE Dense(queue'[u], 0, 0, Rest(u))
  <2>1. Dense(queue[u], 0, 0, Rest(u))
    BY <1>3 DEF Counted
  <2>2. queue[u] \in Seq(BOOLEAN)
    BY QueueTypes
  <2>3. CASE u = s
    BY <1>4, <1>5, <2>1, <2>2, <2>3, DenseSingle
  <2>4. CASE u # s
    BY <1>4, <2>1, <2>4
  <2> QED BY <2>3, <2>4
<1>7. Dense(list', 0, 0, Rest(dest)')
  <2>1. Rest(dest)' = Rest(s)' /\ Rest(s)' \in Nat
    BY <1>1, <1>5 DEF Rest
  <2> QED BY <1>1, <1>2, <2>1, DenseEmpty
<1>8. Active' = Active /\ Since(list, 0) = 0 /\ Since(list', 0) = 0
      /\ Total(SignaledIn, Servers) + Since(list, 0) = Active + unpolled + 0
      /\ Total(SignaledIn, Servers) \in Nat /\ Active \in Nat /\ unpolled \in Nat
  BY <1>1, <1>2, EmptyList, CountTypes DEF Active, Counted, Balance
<1>9. \A u \in Servers : Len(queue'[u]) <= Len(queue[u]) + 1 /\ Len(queue'[u]) \in Nat
                         /\ Len(queue[u]) \in Nat
  <2> TAKE u \in Servers
  <2>1. Len(queue[u]) \in Nat /\ queue[u] \in Seq(BOOLEAN)
    BY QueueTypes
  <2>2. CASE u = s
    <3>1. Len(queue[u] \o <<TRUE>>) = Len(queue[u]) + 1
      BY <2>1, TrueList, ConcatFacts
    <3> QED BY <1>4, <2>1, <2>2, <3>1
  <2>3. CASE u # s
    <3>1. queue'[u] = queue[u]
      BY <1>4, <2>3
    <3> QED BY <2>1, <3>1
  <2> QED BY <2>2, <2>3
<1>10. CASE SingleUnpolled(s)
  <2>1. unpolled' = unpolled + 1 /\ pc' = "idle"
    BY <1>1, <1>10 DEF SingleUnpolled
  <2>2. Balance'
    <3>1. Total(SignaledIn', Servers) + 0 = Active + (unpolled + 1) + 0
      BY <1>4, <1>8
    <3> QED BY <1>8, <2>1, <3>1 DEF Balance
  <2> QED BY <1>3, <1>5, <1>6, <1>7, <2>1, <2>2 DEF Counted
<1>11. CASE Single(s)
  <2>1. unpolled' = unpolled /\ pc' = "wait"
    BY <1>11 DEF Single
  <2>2. Balance'
    <3>1. Total(SignaledIn', Servers) + 0 = Active + unpolled + 1
      BY <1>4, <1>8
    <3> QED BY <1>8, <2>1, <3>1 DEF Balance
  <2>3. SendQueueBound'
    <3> SUFFICES ASSUME NEW u \in Servers
                 PROVE  Len(queue'[u]) + (IF dest' = u THEN Len(list') ELSE 0)
                          <= (Active' + unpolled' + 1) * SignalPeriod - 1
                               + (IF pc' = "wait" THEN 1 ELSE 0)
      BY DEF SendQueueBound
    <3>1. Active + unpolled + 1 \in Nat /\ SignalPeriod \in Nat
      BY <1>8, Constants
    <3>2. PICK x \in Nat : x = (Active + unpolled + 1) * SignalPeriod
      BY <3>1, Monotone
    <3>3. Len(queue[u]) + (IF dest = u THEN Len(list) ELSE 0)
            <= (Active + unpolled + 1) * SignalPeriod - 1
                 + (IF pc = "wait" THEN 1 ELSE 0)
      BY BoundFromCounted DEF SendQueueBound
    <3>4. Len(queue[u]) + 0 <= x - 1 + 0
      BY <1>1, <1>2, <3>2, <3>3, EmptyList
    <3>5. Len(queue'[u]) + 0 <= x - 1 + 1
      BY <1>9, <3>4
    <3>6. Len(queue'[u]) + 0 <= (Active' + unpolled' + 1) * SignalPeriod - 1 + 1
      BY <1>8, <2>1, <3>2, <3>5
    <3>7. (IF dest' = u THEN Len(list') ELSE 0) = 0
      BY <1>1, <1>2, EmptyList
    <3> QED BY <2>1, <3>6, <3>7
  <2> QED BY <1>3, <1>5, <1>6, <1>7, <2>1, <2>2, <2>3 DEF Counted
<1> QED BY <1>10, <1>11

LEMMA CountedStep ==
  ASSUME Queued, Queued', Counted, DeepEnough, [Next]_vars PROVE Counted'
<1>0. QueuesOK'
  BY DEF Queued
<1>1. ASSUME NEW s \in Servers, NEW n \in 1..MaxPostList, Batch(s, n) PROVE Counted'
  BY <1>1, BatchCounted
<1>2. ASSUME NEW s \in Servers, Single(s) \/ SingleUnpolled(s) PROVE Counted'
  BY <1>0, <1>2, SingleCounted
<1>3. ASSUME NEW s \in Servers, Perform(s) PROVE Counted'
  BY <1>3, CountedKept DEF Perform, threadVars
<1>4. ASSUME PrepareRequest PROVE Counted'
  BY <1>0, <1>4, PrepareCounted
<1>5. ASSUME PostList PROVE Counted'
  BY <1>0, <1>5, PostCounted
<1>6. ASSUME Await PROVE Counted'
  BY <1>0, <1>6, AwaitCounted
<1>7. ASSUME UNCHANGED vars PROVE Counted'
  BY <1>7, CountedKept DEF vars, threadVars, queueVars
<1> QED BY <1>1, <1>2, <1>3, <1>4, <1>5, <1>6, <1>7 DEF Next

-----------------------------------------------------------------------------
(***************************************************************************)
(* The theorems.                                                           *)
(***************************************************************************)

\* Whatever the depth of the send queues: the types, with the adapter never ahead of
\* the posts, and as many completions of a server in the completion queue as signaled
\* requests to it were performed and not freed - so that PollCompletion always frees a
\* request that was performed.
THEOREM CompletionsMatch == Spec => []Queued
<1>1. Init => Queued
  BY QueuedInit
<1>2. Queued /\ [Next]_vars => Queued'
  BY QueuedStep
<1> QED BY <1>1, <1>2, PTL DEF Spec

THEOREM QueueTypeCorrect == Spec => []TypeOK
<1>1. Queued => TypeOK
  BY QueuedIsTypeOK
<1> QED BY <1>1, CompletionsMatch, PTL

Safe == DeepEnough /\ Queued /\ Counted

LEMMA SafeAlways == DeepEnough /\ Spec => []Safe
<1>1. DeepEnough /\ Init => Safe
  BY QueuedInit, CountedInit DEF Safe
<1>2. Safe /\ [Next]_vars => Safe'
  BY QueuedStep, CountedStep DEF Safe
<1> QED BY <1>1, <1>2, PTL DEF Spec

\* In send queues that are deep enough for the servers and the completions nobody takes,
\* the signaled requests are those the thread waits for, sooner or later: PollCompletion
\* in the loop of a batch never waits for nothing.
THEOREM CompletionsBalance == DeepEnough /\ Spec => []CompletionBalance
<1>1. Safe => CompletionBalance
  BY BalanceIsCompletionBalance DEF Safe, Counted
<1> QED BY <1>1, SafeAlways, PTL

\* And they hold SignalPeriod requests for each active server and each completion nobody
\* took, and as many again, less one: no post is refused.
THEOREM QueuesBounded == DeepEnough /\ Spec => []SendQueueBound
<1>1. Safe => SendQueueBound
  BY BoundFromCounted DEF Safe
<1> QED BY <1>1, SafeAlways, PTL
=============================================================================
