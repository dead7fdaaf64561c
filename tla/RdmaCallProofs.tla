--------------------------- MODULE RdmaCallProofs ---------------------------
(***************************************************************************)
(* Proofs about RdmaCall, for every number of clients, workers, calls and  *)
(* resends.                                                                *)
(*                                                                         *)
(* The safety properties rest on one inductive invariant.  Its first part, *)
(* Load, counts: a message in flight is paid for by a resend or by the     *)
(* call that still waits for it.  So a client that never resent has at     *)
(* most one message in flight, and none unless it waits; its second part,  *)
(* Fresh, says that this one message carries the client's current task.    *)
(***************************************************************************)
EXTENDS RdmaCall, TLAPS, FiniteSetTheorems, SequenceTheorems

Awaiting(c) == pc[c] \in {"wait", "resend"} /\ buffer[c].msg # "RESPONSE"

\* A completion queue holds its own clients only, and a worker serves only them.
Routed ==
  \A w \in Workers :
    /\ \A i \in DOMAIN cq[w] : CqOf[cq[w][i]] = w
    /\ wpc[w] # "poll" => CqOf[serving[w]] = w

\* InFlightBound, strengthened: a late response that overwrites a request about
\* to be posted is one message that the post will put back in flight.
Load(c) ==
  InFlight(c) + (IF pc[c] = "post" /\ buffer[c].msg = "RESPONSE" THEN 1 ELSE 0)
    <= resends[c] + (IF Awaiting(c) THEN 1 ELSE 0)

\* Whatever is in flight for a client that has not resent is its current call's.
Fresh(c) ==
  /\ pc[c] # "idle" => buffer[c].task = current[c]
  /\ pc[c] = "copy" => buffer[c] = Response(current[c])
  /\ pc[c] = "idle" => answer[c] = Response(current[c])
  /\ \A i \in DOMAIN wire[c] : wire[c][i].task = current[c]
  /\ Arrivals(c) + Unread(c) > 0 => mailbox[c].task = current[c]
  /\ Answering(c) > 0 => replyTask[CqOf[c]] = current[c]
  /\ replyq[c] > 0 => mailbox[c] = Response(current[c])
  /\ \A i \in DOMAIN replywire[c] : replywire[c][i] = Response(current[c])

\* Receives are lost only with a request that the server leaves unanswered.
NoneLost(c) ==
  /\ Receives(c) <= RecvDepth
  /\ resends[c] = 0 /\ ~ (Awaiting(c) /\ InFlight(c) = 0)
       => Receives(c) = RecvDepth

Local(c) == Load(c) /\ (resends[c] = 0 => Fresh(c)) /\ NoneLost(c)

IInv ==
  /\ TypeOK
  /\ Routed
  /\ \A c \in Clients : Local(c)

-----------------------------------------------------------------------------
(***************************************************************************)
(* Type correctness.                                                       *)
(***************************************************************************)

\* A counter stays in its range.
LEMMA CountType == \A n \in 0..SignalPeriod : NextCount(n) \in 0..SignalPeriod
BY ConstantsAssumption DEF NextCount, ConstantsAssumption

\* The contents that the actions write.
LEMMA ContentType ==
  /\ \A m \in Requests, t \in Nat : [msg |-> m, task |-> t] \in Content
  /\ \A t \in Nat : Response(t) \in Content
  /\ Blank \in Content
BY ConstantsAssumption DEF Content, Response, Blank, Message, ConstantsAssumption

\* The initial state has its types.
LEMMA TypeInit == Init => TypeOK
BY ConstantsAssumption, ContentType DEF Init, TypeOK, ConstantsAssumption

\* Every action keeps the type of every variable.
LEMMA TypeStep == TypeOK /\ [Next]_vars => TypeOK'
<1> SUFFICES ASSUME TypeOK, [Next]_vars PROVE TypeOK'
  OBVIOUS
<1>1. ASSUME NEW c \in Clients, NEW m \in Requests, Call(c, m) PROVE TypeOK'
  <2>1. pc' \in [Clients -> {"idle", "post", "wait", "resend", "copy"}]
    BY <1>1 DEF Call, Prepare, GoTo, TypeOK
  <2>2. taskID' \in [Clients -> Nat]
    BY <1>1 DEF Call, Prepare, GoTo, TypeOK
  <2>3. buffer' \in [Clients -> Content]
    BY <1>1, ContentType DEF Call, Prepare, GoTo, TypeOK
  <2>4. current' \in [Clients -> Nat]
    BY <1>1 DEF Call, Prepare, GoTo, TypeOK
  <2>5. UNCHANGED <<counter, completions, answer, resends, sendq, wire,
                      placed, replyq, replywire, mailbox, receives, cq, wpc,
                      serving, replyTask, executed>>
    BY <1>1 DEF Call, Prepare, GoTo, clientVars, netVars, serverVars
  <2>6. QED
    BY <2>1, <2>2, <2>3, <2>4, <2>5 DEF TypeOK
<1>2. ASSUME NEW c \in Clients, NEW m \in Requests, CallOneWay(c, m) PROVE TypeOK'
  <2>1. taskID' \in [Clients -> Nat]
    BY <1>2 DEF CallOneWay, Prepare, TypeOK
  <2>2. buffer' \in [Clients -> Content]
    BY <1>2, ContentType DEF CallOneWay, Prepare, TypeOK
  <2>3. UNCHANGED <<pc, current, counter, completions, answer, resends,
                      sendq, wire, placed, replyq, replywire, mailbox,
                      receives, cq, wpc, serving, replyTask, executed>>
    BY <1>2 DEF CallOneWay, Prepare, clientVars, netVars, serverVars
  <2>4. QED
    BY <2>1, <2>2, <2>3 DEF TypeOK
<1>3. ASSUME NEW c \in Clients, Send(c) PROVE TypeOK'
  <2>1. pc' \in [Clients -> {"idle", "post", "wait", "resend", "copy"}]
    BY <1>3 DEF Send, BatchWrite, GoTo, TypeOK
  <2>2. completions' \in [Clients -> Nat]
    BY <1>3 DEF Send, BatchWrite, GoTo, TypeOK
  <2>3. counter' \in [Clients -> 0..SignalPeriod]
    BY <1>3, CountType DEF Send, BatchWrite, GoTo, TypeOK
  <2>4. sendq' \in [Clients -> Nat]
    BY <1>3 DEF Send, BatchWrite, GoTo, TypeOK
  <2>5. UNCHANGED <<taskID, current, buffer, answer, resends, wire, placed,
                      replyq, replywire, mailbox, receives, cq, wpc, serving,
                      replyTask, executed>>
    BY <1>3 DEF Send, BatchWrite, GoTo, clientVars, netVars, serverVars
  <2>6. QED
    BY <2>1, <2>2, <2>3, <2>4, <2>5 DEF TypeOK
<1>4. ASSUME NEW c \in Clients, Timeout(c) PROVE TypeOK'
  <2>1. pc' \in [Clients -> {"idle", "post", "wait", "resend", "copy"}]
    BY <1>4 DEF Timeout, GoTo, TypeOK
  <2>2. UNCHANGED <<taskID, current, buffer, counter, completions, answer,
                      resends, sendq, wire, placed, replyq, replywire,
                      mailbox, receives, cq, wpc, serving, replyTask,
                      executed>>
    BY <1>4 DEF Timeout, GoTo, clientVars, netVars, serverVars
  <2>3. QED
    BY <2>1, <2>2 DEF TypeOK
<1>5. ASSUME NEW c \in Clients, Resend(c) PROVE TypeOK'
  <2>1. pc' \in [Clients -> {"idle", "post", "wait", "resend", "copy"}]
    BY <1>5 DEF Resend, BatchWrite, GoTo, TypeOK
  <2>2. completions' \in [Clients -> Nat]
    BY <1>5 DEF Resend, BatchWrite, GoTo, TypeOK
  <2>3. counter' \in [Clients -> 0..SignalPeriod]
    BY <1>5, CountType DEF Resend, BatchWrite, GoTo, TypeOK
  <2>4. sendq' \in [Clients -> Nat]
    BY <1>5 DEF Resend, BatchWrite, GoTo, TypeOK
  <2>5. resends' \in [Clients -> Nat]
    BY <1>5 DEF Resend, BatchWrite, GoTo, TypeOK
  <2>6. UNCHANGED <<taskID, current, buffer, answer, wire, placed, replyq,
                      replywire, mailbox, receives, cq, wpc, serving,
                      replyTask, executed>>
    BY <1>5 DEF Resend, BatchWrite, GoTo, clientVars, netVars, serverVars
  <2>7. QED
    BY <2>1, <2>2, <2>3, <2>4, <2>5, <2>6 DEF TypeOK
<1>6. ASSUME NEW c \in Clients, SeeResponse(c) PROVE TypeOK'
  <2>1. pc' \in [Clients -> {"idle", "post", "wait", "resend", "copy"}]
    BY <1>6 DEF SeeResponse, GoTo, TypeOK
  <2>2. UNCHANGED <<taskID, current, buffer, counter, completions, answer,
                      resends, sendq, wire, placed, replyq, replywire,
                      mailbox, receives, cq, wpc, serving, replyTask,
                      executed>>
    BY <1>6 DEF SeeResponse, GoTo, clientVars, netVars, serverVars
  <2>3. QED
    BY <2>1, <2>2 DEF TypeOK
<1>7. ASSUME NEW c \in Clients, Return(c) PROVE TypeOK'
  <2>1. pc' \in [Clients -> {"idle", "post", "wait", "resend", "copy"}]
    BY <1>7 DEF Return, GoTo, TypeOK
  <2>2. answer' \in [Clients -> Content]
    BY <1>7 DEF Return, GoTo, TypeOK
  <2>3. UNCHANGED <<taskID, current, buffer, counter, completions, resends,
                      sendq, wire, placed, replyq, replywire, mailbox,
                      receives, cq, wpc, serving, replyTask, executed>>
    BY <1>7 DEF Return, GoTo, clientVars, netVars, serverVars
  <2>4. QED
    BY <2>1, <2>2, <2>3 DEF TypeOK
<1>8. ASSUME NEW c \in Clients, Transmit(c) PROVE TypeOK'
  <2>1. sendq' \in [Clients -> Nat]
    BY <1>8 DEF Transmit, TypeOK
  <2>2. wire' \in [Clients -> Seq(Content)]
    BY <1>8 DEF Transmit, TypeOK
  <2>3. UNCHANGED <<pc, taskID, current, buffer, counter, completions,
                      answer, resends, placed, replyq, replywire, mailbox,
                      receives, cq, wpc, serving, replyTask, executed>>
    BY <1>8 DEF Transmit, clientVars, netVars, serverVars
  <2>4. QED
    BY <2>1, <2>2, <2>3 DEF TypeOK
<1>9. ASSUME NEW c \in Clients, Place(c) PROVE TypeOK'
  <2>1. mailbox' \in [Clients -> Content]
    BY <1>9, HeadTailProperties DEF Place, TypeOK
  <2>2. wire' \in [Clients -> Seq(Content)]
    BY <1>9, HeadTailProperties DEF Place, TypeOK
  <2>3. receives' \in [Clients -> Nat]
    <3>1. receives[c] > 0 /\ receives' = [receives EXCEPT ![c] = @ - 1]
      BY <1>9 DEF Place
    <3>2. QED
      BY <3>1 DEF TypeOK
  <2>4. cq' \in [Workers -> Seq(Clients)]
    <3>1. cq' = [cq EXCEPT ![CqOf[c]] = Append(@, c)]
      BY <1>9 DEF Place
    <3>2. QED
      BY <3>1, ConstantsAssumption DEF TypeOK, ConstantsAssumption
  <2>5. placed' \in [Clients -> 0..SignalPeriod]
    BY <1>9, CountType DEF Place, TypeOK
  <2>6. completions' \in [Clients -> Nat]
    <3>1. CASE Signaled(placed[c])
      <4>1. completions' = [completions EXCEPT ![c] = @ + 1]
        BY <1>9, <3>1 DEF Place
      <4>2. QED
        BY <4>1 DEF TypeOK
    <3>2. CASE ~ Signaled(placed[c])
      BY <1>9, <3>2 DEF Place, TypeOK
    <3>3. QED
      BY <3>1, <3>2
  <2>7. UNCHANGED <<pc, taskID, current, buffer, counter, answer, resends,
                      sendq, replyq, replywire, wpc, serving, replyTask,
                      executed>>
    BY <1>9 DEF Place, clientVars, netVars, serverVars
  <2>8. QED
    BY <2>1, <2>2, <2>3, <2>4, <2>5, <2>6, <2>7 DEF TypeOK
<1>10. ASSUME NEW c \in Clients, TransmitReply(c) PROVE TypeOK'
  <2>1. replyq' \in [Clients -> Nat]
    BY <1>10 DEF TransmitReply, TypeOK
  <2>2. replywire' \in [Clients -> Seq(Content)]
    BY <1>10 DEF TransmitReply, TypeOK
  <2>3. UNCHANGED <<pc, taskID, current, buffer, counter, completions,
                      answer, resends, sendq, wire, placed, mailbox,
                      receives, cq, wpc, serving, replyTask, executed>>
    BY <1>10 DEF TransmitReply, clientVars, netVars, serverVars
  <2>4. QED
    BY <2>1, <2>2, <2>3 DEF TypeOK
<1>11. ASSUME NEW c \in Clients, PlaceReply(c) PROVE TypeOK'
  <2>1. buffer' \in [Clients -> Content]
    BY <1>11, HeadTailProperties DEF PlaceReply, TypeOK
  <2>2. replywire' \in [Clients -> Seq(Content)]
    BY <1>11, HeadTailProperties DEF PlaceReply, TypeOK
  <2>3. UNCHANGED <<pc, taskID, current, counter, completions, answer,
                      resends, sendq, wire, placed, replyq, mailbox,
                      receives, cq, wpc, serving, replyTask, executed>>
    BY <1>11 DEF PlaceReply, clientVars, netVars, serverVars
  <2>4. QED
    BY <2>1, <2>2, <2>3 DEF TypeOK
<1>12. ASSUME NEW w \in Workers, RequestPoller(w) PROVE TypeOK'
  <2>1. cq' \in [Workers -> Seq(Clients)]
    BY <1>12, HeadTailProperties DEF RequestPoller, WorkerGoTo, TypeOK
  <2>2. serving' \in [Workers -> Clients]
    BY <1>12, HeadTailProperties DEF RequestPoller, WorkerGoTo, TypeOK
  <2>3. wpc' \in [Workers -> {"poll", "build", "classify", "reply", "repost"}]
    BY <1>12 DEF RequestPoller, WorkerGoTo, TypeOK
  <2>4. UNCHANGED <<pc, taskID, current, buffer, counter, completions,
                      answer, resends, sendq, wire, placed, replyq,
                      replywire, mailbox, receives, replyTask, executed>>
    BY <1>12 DEF RequestPoller, WorkerGoTo, clientVars, netVars, serverVars
  <2>5. QED
    BY <2>1, <2>2, <2>3, <2>4 DEF TypeOK
<1>13. ASSUME NEW w \in Workers, ReadTask(w) PROVE TypeOK'
  <2>1. wpc' \in [Workers -> {"poll", "build", "classify", "reply", "repost"}]
    BY <1>13 DEF ReadTask, WorkerGoTo, TypeOK
  <2>2. replyTask' \in [Workers -> Nat]
    BY <1>13 DEF ReadTask, WorkerGoTo, Content, TypeOK
  <2>3. UNCHANGED <<pc, taskID, current, buffer, counter, completions,
                      answer, resends, sendq, wire, placed, replyq,
                      replywire, mailbox, receives, cq, serving, executed>>
    BY <1>13 DEF ReadTask, WorkerGoTo, clientVars, netVars, serverVars
  <2>4. QED
    BY <2>1, <2>2, <2>3 DEF TypeOK
<1>14. ASSUME NEW w \in Workers, Classify(w) PROVE TypeOK'
  <2>1. wpc' \in [Workers -> {"poll", "build", "classify", "reply", "repost"}]
    BY <1>14 DEF Classify, WorkerGoTo, TypeOK
  <2>2. UNCHANGED <<pc, taskID, current, buffer, counter, completions,
                      answer, resends, sendq, wire, placed, replyq,
                      replywire, mailbox, receives, cq, serving, replyTask,
                      executed>>
    BY <1>14 DEF Classify, WorkerGoTo, clientVars, netVars, serverVars
  <2>3. QED
    BY <2>1, <2>2 DEF TypeOK
<1>15. ASSUME NEW w \in Workers, Reply(w) PROVE TypeOK'
  <2>1. wpc' \in [Workers -> {"poll", "build", "classify", "reply", "repost"}]
    BY <1>15 DEF Reply, WorkerGoTo, TypeOK
  <2>2. mailbox' \in [Clients -> Content]
    BY <1>15, ContentType DEF Reply, WorkerGoTo, TypeOK
  <2>3. replyq' \in [Clients -> Nat]
    <3>1. replyq' = [replyq EXCEPT ![serving[w]] = @ + 1]
      BY <1>15 DEF Reply, WorkerGoTo
    <3>2. QED
      BY <3>1 DEF TypeOK
  <2>4. executed' \in [Clients -> [last : Nat, count : Nat]]
    <3>1. executed' = [executed EXCEPT ![serving[w]] =
                     [last |-> replyTask[w], count |-> @.count + 1]]
      BY <1>15 DEF Reply, WorkerGoTo
    <3>2. QED
      BY <3>1 DEF TypeOK
  <2>5. UNCHANGED <<pc, taskID, current, buffer, counter, completions,
                      answer, resends, sendq, wire, placed, replywire,
                      receives, cq, serving, replyTask>>
    BY <1>15 DEF Reply, WorkerGoTo, clientVars, netVars, serverVars
  <2>6. QED
    BY <2>1, <2>2, <2>3, <2>4, <2>5 DEF TypeOK
<1>16. ASSUME NEW w \in Workers, Repost(w) PROVE TypeOK'
  <2>1. wpc' \in [Workers -> {"poll", "build", "classify", "reply", "repost"}]
    BY <1>16 DEF Repost, WorkerGoTo, TypeOK
  <2>2. receives' \in [Clients -> Nat]
    BY <1>16 DEF Repost, WorkerGoTo, TypeOK
  <2>3. UNCHANGED <<pc, taskID, current, buffer, counter, completions,
                      answer, resends, sendq, wire, placed, replyq,
                      replywire, mailbox, cq, serving, replyTask, executed>>
    BY <1>16 DEF Repost, WorkerGoTo, clientVars, netVars, serverVars
  <2>4. QED
    BY <2>1, <2>2, <2>3 DEF TypeOK
<1>17. CASE UNCHANGED vars
  BY <1>17 DEF vars, clientVars, netVars, serverVars, TypeOK
<1>18. QED
  BY <1>1, <1>2, <1>3, <1>4, <1>5, <1>6, <1>7, <1>8, <1>9, <1>10, <1>11, <1>12, <1>13, <1>14, <1>15, <1>16, <1>17
     DEF Next, ClientStep, AdapterStep, WorkerStep

\* Type correctness of the model: RdmaCall's and RequestPoller's steps keep every
\* buffer, queue and counter of the type the code declares it with.
THEOREM TypeCorrect == Spec => []TypeOK
BY TypeInit, TypeStep, PTL DEF Spec

-----------------------------------------------------------------------------
(***************************************************************************)
(* Counting the arrivals of a client in a completion queue.                *)
(***************************************************************************)

\* Occurrences counts: it is a natural number, and 0 only if there is none.
LEMMA OccurrencesType ==
  ASSUME NEW S, NEW s \in Seq(S), NEW c
  PROVE  /\ IsFiniteSet({i \in DOMAIN s : s[i] = c})
         /\ Occurrences(s, c) \in Nat
         /\ Occurrences(s, c) = 0 <=> \A i \in DOMAIN s : s[i] # c
<1> DEFINE T == {i \in DOMAIN s : s[i] = c}
<1>1. IsFiniteSet(1..Len(s)) /\ T \in SUBSET (1..Len(s))
  <2>1. Len(s) \in Nat /\ DOMAIN s = 1..Len(s)
    BY LenProperties
  <2>2. QED
    BY <2>1, FS_Interval
<1>2. IsFiniteSet(T) /\ Cardinality(T) \in Nat
  BY <1>1, FS_Subset, FS_CardinalityType
<1>3. Cardinality(T) = 0 <=> T = {}
  BY <1>2, FS_EmptySet
<1>4. QED
  BY <1>2, <1>3 DEF Occurrences

\* Appending d adds one occurrence of d and none of another.
LEMMA OccurrencesAppend ==
  ASSUME NEW S, NEW s \in Seq(S), NEW d \in S, NEW c
  PROVE  Occurrences(Append(s, d), c)
           = Occurrences(s, c) + (IF d = c THEN 1 ELSE 0)
<1> DEFINE T == {i \in DOMAIN s : s[i] = c}
           U == {i \in DOMAIN Append(s, d) : Append(s, d)[i] = c}
<1>1. IsFiniteSet(T) /\ Cardinality(T) \in Nat
  BY OccurrencesType DEF Occurrences
<1>2. /\ DOMAIN s = 1..Len(s) /\ DOMAIN Append(s, d) = 1..(Len(s) + 1)
      /\ \A i \in 1..Len(s) : Append(s, d)[i] = s[i]
      /\ Append(s, d)[Len(s) + 1] = d
      /\ Len(s) \in Nat
  BY AppendProperties, LenProperties
<1>3. U = IF d = c THEN T \cup {Len(s) + 1} ELSE T
  BY <1>2
<1>4. Len(s) + 1 \notin T
  BY <1>2
<1>5. Cardinality(T \cup {Len(s) + 1}) = Cardinality(T) + 1
  BY <1>1, <1>4, FS_AddElement
<1>6. Cardinality(U) = Cardinality(T) + (IF d = c THEN 1 ELSE 0)
  <2> HIDE DEF T, U
  <2> QED
    BY <1>1, <1>3, <1>5
<1>7. QED
  BY <1>6 DEF Occurrences

\* Removing the head removes one occurrence of it.
LEMMA OccurrencesTail ==
  ASSUME NEW S, NEW s \in Seq(S), s # <<>>, NEW c
  PROVE  Occurrences(s, c)
           = Occurrences(Tail(s), c) + (IF Head(s) = c THEN 1 ELSE 0)
<1> DEFINE T == {i \in DOMAIN Tail(s) : Tail(s)[i] = c}
           U == {i \in DOMAIN s : s[i] = c}
           V == {i \in U : i # 1}
           f == [i \in T |-> i + 1]
<1>1. /\ DOMAIN s = 1..Len(s) /\ DOMAIN Tail(s) = 1..(Len(s) - 1)
      /\ \A i \in 1..(Len(s) - 1) : Tail(s)[i] = s[i + 1]
      /\ Head(s) = s[1]
      /\ Len(s) \in Nat \ {0}
  BY HeadTailProperties, LenProperties, EmptySeq
<1>2. Tail(s) \in Seq(S)
  BY HeadTailProperties
<1>3. IsFiniteSet(T) /\ Cardinality(T) \in Nat
  BY <1>2, OccurrencesType DEF Occurrences
<1>4. f \in Bijection(T, V)
  <2>1. f \in [T -> V]
    BY <1>1
  <2>2. \A i, j \in T : f[i] = f[j] => i = j
    BY <1>1
  <2>3. \A v \in V : \E i \in T : f[i] = v
    <3>1. SUFFICES ASSUME NEW v \in V PROVE v - 1 \in T /\ f[v - 1] = v
      BY <1>1
    <3>2. QED
      BY <1>1
  <2>4. QED
    BY <2>1, <2>2, <2>3 DEF Bijection, Injection, Surjection, IsInjective
<1>5. IsFiniteSet(V) /\ Cardinality(V) = Cardinality(T)
  BY <1>3, <1>4, FS_Bijection DEF ExistsBijection
<1>6. U = IF Head(s) = c THEN V \cup {1} ELSE V
  BY <1>1
<1>7. Cardinality(V \cup {1}) = Cardinality(V) + 1
  BY <1>5, FS_AddElement
<1>8. Cardinality(U) = Cardinality(T) + (IF Head(s) = c THEN 1 ELSE 0)
  <2> HIDE DEF T, U, V
  <2> QED
    BY <1>3, <1>5, <1>6, <1>7
<1>9. QED
  BY <1>8 DEF Occurrences

-----------------------------------------------------------------------------
(***************************************************************************)
(* Adding up what is in flight.                                            *)
(***************************************************************************)

\* The quantities that Load and NoneLost add up are natural numbers.
LEMMA Numbers ==
  ASSUME TypeOK, NEW d \in Clients
  PROVE  /\ sendq[d] \in Nat /\ Len(wire[d]) \in Nat /\ Arrivals(d) \in Nat
         /\ Unread(d) \in Nat /\ Answering(d) \in Nat /\ Reposting(d) \in Nat
         /\ replyq[d] \in Nat /\ Len(replywire[d]) \in Nat
         /\ receives[d] \in Nat /\ resends[d] \in Nat /\ RecvDepth \in Nat
<1>1. Len(wire[d]) \in Nat /\ Len(replywire[d]) \in Nat
  <2>1. wire[d] \in Seq(Content) /\ replywire[d] \in Seq(Content)
    BY DEF TypeOK
  <2>2. QED
    BY <2>1, LenProperties
<1>2. Arrivals(d) \in Nat
  <2>1. cq[CqOf[d]] \in Seq(Clients)
    BY ConstantsAssumption DEF TypeOK, ConstantsAssumption
  <2>2. QED
    BY <2>1, OccurrencesType DEF Arrivals
<1>3. /\ sendq[d] \in Nat /\ replyq[d] \in Nat
      /\ receives[d] \in Nat /\ resends[d] \in Nat /\ RecvDepth \in Nat
  BY ConstantsAssumption DEF TypeOK, ConstantsAssumption
<1>4. Unread(d) \in Nat /\ Answering(d) \in Nat /\ Reposting(d) \in Nat
  BY DEF Unread, Answering, Reposting, WorkerAt
<1>5. QED
  BY <1>1, <1>2, <1>3, <1>4

\* ... and so are their sums.
LEMMA Sums ==
  ASSUME TypeOK, NEW d \in Clients
  PROVE  /\ Requested(d) \in Nat /\ InHand(d) \in Nat /\ Replied(d) \in Nat
         /\ InFlight(d) \in Nat /\ Receives(d) \in Nat
<1>1. /\ sendq[d] \in Nat /\ Len(wire[d]) \in Nat /\ Arrivals(d) \in Nat
      /\ Unread(d) \in Nat /\ Answering(d) \in Nat /\ Reposting(d) \in Nat
      /\ replyq[d] \in Nat /\ Len(replywire[d]) \in Nat /\ receives[d] \in Nat
  BY Numbers
<1>2. Requested(d) \in Nat
  BY <1>1 DEF Requested
<1>3. InHand(d) \in Nat
  BY <1>1 DEF InHand
<1>4. Replied(d) \in Nat
  BY <1>1 DEF Replied
<1>5. InFlight(d) \in Nat
  BY <1>2, <1>3, <1>4 DEF InFlight
<1>6. Receives(d) \in Nat
  BY <1>1, <1>3 DEF Receives
<1>7. QED
  BY <1>2, <1>3, <1>4, <1>5, <1>6

\* A client that has not resent and does not wait has nothing in flight.
LEMMA Quiet ==
  ASSUME TypeOK, NEW d \in Clients, Local(d), resends[d] = 0, ~ Awaiting(d)
  PROVE  /\ sendq[d] = 0 /\ wire[d] = <<>> /\ Arrivals(d) = 0
         /\ Unread(d) = 0 /\ Answering(d) = 0
         /\ replyq[d] = 0 /\ replywire[d] = <<>>
         /\ InFlight(d) = 0
         /\ pc[d] = "post" => buffer[d].msg # "RESPONSE"
         /\ Receives(d) = RecvDepth
<1>1. /\ InFlight(d) = 0
      /\ ~ (pc[d] = "post" /\ buffer[d].msg = "RESPONSE")
  <2>1. InFlight(d) \in Nat
    BY Sums
  <2>2. InFlight(d) + (IF pc[d] = "post" /\ buffer[d].msg = "RESPONSE"
                         THEN 1 ELSE 0) <= 0
    BY DEF Local, Load
  <2>3. QED
    BY <2>1, <2>2
<1>2. Requested(d) = 0 /\ InHand(d) = 0 /\ Replied(d) = 0
  <2>1. Requested(d) \in Nat /\ InHand(d) \in Nat /\ Replied(d) \in Nat
    BY Sums
  <2>2. QED
    BY <1>1, <2>1 DEF InFlight
<1>3. /\ sendq[d] = 0 /\ Len(wire[d]) = 0 /\ Arrivals(d) = 0
      /\ Unread(d) = 0 /\ Answering(d) = 0
      /\ replyq[d] = 0 /\ Len(replywire[d]) = 0
  <2>1. /\ sendq[d] \in Nat /\ Len(wire[d]) \in Nat /\ Arrivals(d) \in Nat
        /\ Unread(d) \in Nat /\ Answering(d) \in Nat
        /\ replyq[d] \in Nat /\ Len(replywire[d]) \in Nat
    BY Numbers
  <2>2. sendq[d] = 0 /\ Len(wire[d]) = 0 /\ Arrivals(d) = 0
    BY <1>2, <2>1 DEF Requested
  <2>3. Unread(d) = 0 /\ Answering(d) = 0
    BY <1>2, <2>1 DEF InHand
  <2>4. replyq[d] = 0 /\ Len(replywire[d]) = 0
    BY <1>2, <2>1 DEF Replied
  <2>5. QED
    BY <2>2, <2>3, <2>4
<1>4. wire[d] = <<>> /\ replywire[d] = <<>>
  <2>1. wire[d] \in Seq(Content) /\ replywire[d] \in Seq(Content)
    BY DEF TypeOK
  <2>2. QED
    BY <1>3, <2>1, EmptySeq
<1>5. Receives(d) = RecvDepth
  BY <1>1 DEF Local, NoneLost
<1>6. QED
  BY <1>1, <1>3, <1>4, <1>5

\* A client that has not resent has at most one message in flight, and if it
\* has one, it waits and has lost no receive.
LEMMA Single ==
  ASSUME TypeOK, NEW d \in Clients, Local(d), resends[d] = 0, InFlight(d) # 0
  PROVE  /\ Awaiting(d) /\ Receives(d) = RecvDepth
         /\ Requested(d) > 0 => InHand(d) = 0 /\ Replied(d) = 0
         /\ InHand(d) > 0 => Requested(d) = 0 /\ Replied(d) = 0
         /\ Replied(d) > 0 => Requested(d) = 0 /\ InHand(d) = 0
         /\ Requested(d) <= 1 /\ InHand(d) <= 1 /\ Replied(d) <= 1
<1>1. Awaiting(d)
  BY Quiet
<1>2. Receives(d) = RecvDepth
  BY DEF Local, NoneLost
<1>3. InFlight(d) <= 1
  <2>1. InFlight(d) \in Nat
    BY Sums
  <2>2. InFlight(d) + (IF pc[d] = "post" /\ buffer[d].msg = "RESPONSE"
                         THEN 1 ELSE 0) <= 1
    BY <1>1 DEF Local, Load
  <2>3. QED
    BY <2>1, <2>2
<1>4. Requested(d) \in Nat /\ InHand(d) \in Nat /\ Replied(d) \in Nat
  BY Sums
<1>5. QED
  BY <1>1, <1>2, <1>3, <1>4 DEF InFlight

-----------------------------------------------------------------------------
(***************************************************************************)
(* The steps of a client and of the adapters.                              *)
(***************************************************************************)

\* What a step leaves alone for a client stays right for it.
LEMMA Frame ==
  ASSUME NEW d \in Clients, Local(d),
         UNCHANGED <<pc[d], current[d], buffer[d], answer[d], resends[d],
                     sendq[d], wire[d], replyq[d], replywire[d], mailbox[d],
                     receives[d], Arrivals(d), Unread(d), Answering(d),
                     Reposting(d)>>,
         Answering(d) > 0 => UNCHANGED replyTask[CqOf[d]]
  PROVE  Local(d)'
BY DEF Local, Load, Fresh, NoneLost, InFlight, Requested, InHand, Replied,
       Receives, Awaiting

\* A step that leaves the completion queues and the workers alone keeps the
\* routing and every count of requests at the server.
LEMMA QueuesKept ==
  ASSUME UNCHANGED <<cq, wpc, serving>>
  PROVE  /\ Routed => Routed'
         /\ \A d \in Clients :
              UNCHANGED <<Arrivals(d), Unread(d), Answering(d), Reposting(d)>>
BY DEF Routed, Arrivals, Unread, Answering, Reposting, WorkerAt

\* A new call finds nothing in flight and puts nothing in flight.
LEMMA CallStep ==
  ASSUME IInv, NEW c \in Clients, NEW m \in Requests, Call(c, m)
  PROVE  Routed' /\ \A d \in Clients : Local(d)'
<1>1. UNCHANGED <<cq, wpc, serving, replyTask>>
  BY DEF Call, serverVars
<1>2. /\ Routed'
      /\ \A d \in Clients :
           UNCHANGED <<Arrivals(d), Unread(d), Answering(d), Reposting(d)>>
  BY <1>1, QueuesKept DEF IInv
<1>3. ASSUME NEW d \in Clients, d # c PROVE Local(d)'
  <2>1. UNCHANGED <<pc[d], current[d], buffer[d], answer[d], resends[d],
                     sendq[d], wire[d], replyq[d], replywire[d], mailbox[d],
                     receives[d]>>
    BY <1>3 DEF Call, Prepare, GoTo, serverVars, netVars, clientVars, IInv,
                TypeOK
  <2>2. QED
    BY <1>1, <1>2, <1>3, <2>1, Frame DEF IInv
<1>4. Local(c)'
  <2>1. UNCHANGED <<answer[c], resends[c], sendq[c], wire[c], replyq[c],
                    replywire[c], mailbox[c], receives[c]>>
    BY DEF Call, serverVars, netVars, clientVars
  <2>2. /\ pc[c] = "idle" /\ pc'[c] = "post"
        /\ buffer'[c].msg # "RESPONSE" /\ buffer'[c].task = current'[c]
    BY ConstantsAssumption
       DEF Call, Prepare, GoTo, IInv, TypeOK, ConstantsAssumption
  <2>3. TypeOK /\ Local(c)
    BY DEF IInv
  <2>4. InFlight(c)' = InFlight(c) /\ Receives(c)' = Receives(c)
    BY <1>2, <2>1 DEF InFlight, Requested, InHand, Replied, Receives
  <2>5. Load(c)' /\ NoneLost(c)'
    BY <2>1, <2>2, <2>3, <2>4 DEF Local, Load, NoneLost, Awaiting
  <2>6. resends[c] = 0 =>
          /\ wire[c] = <<>> /\ Arrivals(c) = 0 /\ Unread(c) = 0
          /\ Answering(c) = 0 /\ replyq[c] = 0 /\ replywire[c] = <<>>
    BY <2>2, <2>3, Quiet DEF Awaiting
  <2>7. (resends[c] = 0 => Fresh(c))'
    BY <1>2, <2>1, <2>2, <2>6 DEF Fresh
  <2>8. QED
    BY <2>5, <2>7 DEF Local
<1>5. QED
  BY <1>2, <1>3, <1>4

\* A one-way call changes the buffer of a client that is not in a call.
LEMMA CallOneWayStep ==
  ASSUME IInv, NEW c \in Clients, NEW m \in Requests, CallOneWay(c, m)
  PROVE  Routed' /\ \A d \in Clients : Local(d)'
<1>1. UNCHANGED <<cq, wpc, serving, replyTask>>
  BY DEF CallOneWay, serverVars
<1>2. /\ Routed'
      /\ \A d \in Clients :
           UNCHANGED <<Arrivals(d), Unread(d), Answering(d), Reposting(d)>>
  BY <1>1, QueuesKept DEF IInv
<1>3. ASSUME NEW d \in Clients, d # c PROVE Local(d)'
  <2>1. UNCHANGED <<pc[d], current[d], buffer[d], answer[d], resends[d],
                     sendq[d], wire[d], replyq[d], replywire[d], mailbox[d],
                     receives[d]>>
    BY <1>3 DEF CallOneWay, Prepare, serverVars, netVars, IInv, TypeOK
  <2>2. QED
    BY <1>1, <1>2, <1>3, <2>1, Frame DEF IInv
<1>4. Local(c)'
  <2>1. UNCHANGED <<pc[c], current[c], answer[c], resends[c], sendq[c], wire[c],
                    replyq[c], replywire[c], mailbox[c], receives[c],
                    replyTask>>
    BY DEF CallOneWay, serverVars, netVars
  <2>2. pc[c] = "idle" /\ TypeOK /\ Local(c)
    BY DEF CallOneWay, IInv
  <2>3. InFlight(c)' = InFlight(c) /\ Receives(c)' = Receives(c)
    BY <1>2, <2>1 DEF InFlight, Requested, InHand, Replied, Receives
  <2>4. Load(c)' /\ NoneLost(c)'
    BY <2>1, <2>2, <2>3 DEF Local, Load, NoneLost, Awaiting
  <2>5. (resends[c] = 0 => Fresh(c))'
    BY <1>2, <2>1, <2>2 DEF Local, Fresh
  <2>6. QED
    BY <2>4, <2>5 DEF Local
<1>5. QED
  BY <1>2, <1>3, <1>4

\* The post puts the call's one message in flight.
LEMMA SendStep ==
  ASSUME IInv, NEW c \in Clients, Send(c)
  PROVE  Routed' /\ \A d \in Clients : Local(d)'
<1>1. UNCHANGED <<cq, wpc, serving, replyTask>>
  BY DEF Send, serverVars
<1>2. /\ Routed'
      /\ \A d \in Clients :
           UNCHANGED <<Arrivals(d), Unread(d), Answering(d), Reposting(d)>>
  BY <1>1, QueuesKept DEF IInv
<1>3. ASSUME NEW d \in Clients, d # c PROVE Local(d)'
  <2>1. UNCHANGED <<pc[d], current[d], buffer[d], answer[d], resends[d],
                     sendq[d], wire[d], replyq[d], replywire[d], mailbox[d],
                     receives[d]>>
    BY <1>3 DEF Send, BatchWrite, GoTo, serverVars, IInv, TypeOK
  <2>2. QED
    BY <1>1, <1>2, <1>3, <2>1, Frame DEF IInv
<1>4. Local(c)'
  <2>1. UNCHANGED <<current[c], buffer[c], answer[c], resends[c], wire[c],
                    replyq[c], replywire[c], mailbox[c], receives[c]>>
    BY DEF Send, BatchWrite, serverVars
  <2>2. pc[c] = "post" /\ pc'[c] = "wait" /\ sendq'[c] = sendq[c] + 1
    BY DEF Send, BatchWrite, GoTo, IInv, TypeOK
  <2>3. TypeOK /\ Local(c)
    BY DEF IInv
  <2>4. /\ sendq[c] \in Nat /\ Len(wire[c]) \in Nat /\ Arrivals(c) \in Nat
        /\ InHand(c) \in Nat /\ Replied(c) \in Nat /\ Requested(c) \in Nat
        /\ InFlight(c) \in Nat /\ resends[c] \in Nat
    BY <2>3, Numbers, Sums
  <2>5. Requested(c)' = Requested(c) + 1
    BY <1>2, <2>1, <2>2, <2>4 DEF Requested
  <2>6. /\ InHand(c)' = InHand(c) /\ Replied(c)' = Replied(c)
        /\ Receives(c)' = Receives(c)
    BY <1>2, <2>1 DEF InHand, Replied, Receives
  <2>7. InFlight(c)' = InFlight(c) + 1
    BY <2>4, <2>5, <2>6 DEF InFlight
  <2>8. Load(c)'
    BY <2>1, <2>2, <2>3, <2>4, <2>7 DEF Local, Load, Awaiting
  <2>9. resends[c] = 0 =>
          /\ wire[c] = <<>> /\ Arrivals(c) = 0 /\ Unread(c) = 0
          /\ Answering(c) = 0 /\ replyq[c] = 0 /\ replywire[c] = <<>>
          /\ Receives(c) = RecvDepth
    BY <2>2, <2>3, Quiet DEF Awaiting
  <2>10. NoneLost(c)'
    BY <2>1, <2>3, <2>6, <2>9 DEF Local, NoneLost
  <2>11. (resends[c] = 0 => Fresh(c))'
    BY <1>2, <2>1, <2>2, <2>3, <2>9 DEF Local, Fresh
  <2>12. QED
    BY <2>8, <2>10, <2>11 DEF Local
<1>5. QED
  BY <1>2, <1>3, <1>4

\* Giving up the wait changes nothing that is counted.
LEMMA TimeoutStep ==
  ASSUME IInv, NEW c \in Clients, Timeout(c)
  PROVE  Routed' /\ \A d \in Clients : Local(d)'
<1>1. UNCHANGED <<cq, wpc, serving, replyTask>>
  BY DEF Timeout, serverVars
<1>2. /\ Routed'
      /\ \A d \in Clients :
           UNCHANGED <<Arrivals(d), Unread(d), Answering(d), Reposting(d)>>
  BY <1>1, QueuesKept DEF IInv
<1>3. ASSUME NEW d \in Clients, d # c PROVE Local(d)'
  <2>1. UNCHANGED <<pc[d], current[d], buffer[d], answer[d], resends[d],
                     sendq[d], wire[d], replyq[d], replywire[d], mailbox[d],
                     receives[d]>>
    BY <1>3 DEF Timeout, GoTo, netVars, serverVars, IInv, TypeOK
  <2>2. QED
    BY <1>1, <1>2, <1>3, <2>1, Frame DEF IInv
<1>4. Local(c)'
  <2>1. UNCHANGED <<current[c], buffer[c], answer[c], resends[c], sendq[c],
                    wire[c], replyq[c], replywire[c], mailbox[c], receives[c],
                    replyTask>>
    BY DEF Timeout, netVars, serverVars
  <2>2. pc[c] = "wait" /\ pc'[c] = "resend" /\ Local(c)
    BY DEF Timeout, GoTo, IInv, TypeOK
  <2>3. InFlight(c)' = InFlight(c) /\ Receives(c)' = Receives(c)
    BY <1>2, <2>1 DEF InFlight, Requested, InHand, Replied, Receives
  <2>4. Load(c)' /\ NoneLost(c)'
    BY <2>1, <2>2, <2>3 DEF Local, Load, NoneLost, Awaiting
  <2>5. (resends[c] = 0 => Fresh(c))'
    BY <1>2, <2>1, <2>2 DEF Local, Fresh
  <2>6. QED
    BY <2>4, <2>5 DEF Local
<1>5. QED
  BY <1>2, <1>3, <1>4

\* A resend pays for the message it puts in flight.
LEMMA ResendStep ==
  ASSUME IInv, NEW c \in Clients, Resend(c)
  PROVE  Routed' /\ \A d \in Clients : Local(d)'
<1>1. UNCHANGED <<cq, wpc, serving, replyTask>>
  BY DEF Resend, serverVars
<1>2. /\ Routed'
      /\ \A d \in Clients :
           UNCHANGED <<Arrivals(d), Unread(d), Answering(d), Reposting(d)>>
  BY <1>1, QueuesKept DEF IInv
<1>3. ASSUME NEW d \in Clients, d # c PROVE Local(d)'
  <2>1. UNCHANGED <<pc[d], current[d], buffer[d], answer[d], resends[d],
                     sendq[d], wire[d], replyq[d], replywire[d], mailbox[d],
                     receives[d]>>
    BY <1>3 DEF Resend, BatchWrite, GoTo, serverVars, IInv, TypeOK
  <2>2. QED
    BY <1>1, <1>2, <1>3, <2>1, Frame DEF IInv
<1>4. Local(c)'
  <2>1. UNCHANGED <<current[c], buffer[c], answer[c], wire[c], replyq[c],
                    replywire[c], mailbox[c], receives[c]>>
    BY DEF Resend, BatchWrite, serverVars
  <2>2. /\ pc[c] = "resend" /\ pc'[c] = "wait" /\ sendq'[c] = sendq[c] + 1
        /\ resends'[c] = resends[c] + 1
    BY DEF Resend, BatchWrite, GoTo, IInv, TypeOK
  <2>3. TypeOK /\ Local(c)
    BY DEF IInv
  <2>4. /\ sendq[c] \in Nat /\ Len(wire[c]) \in Nat /\ Arrivals(c) \in Nat
        /\ InHand(c) \in Nat /\ Replied(c) \in Nat /\ Requested(c) \in Nat
        /\ InFlight(c) \in Nat /\ resends[c] \in Nat
    BY <2>3, Numbers, Sums
  <2>5. Requested(c)' = Requested(c) + 1
    BY <1>2, <2>1, <2>2, <2>4 DEF Requested
  <2>6. /\ InHand(c)' = InHand(c) /\ Replied(c)' = Replied(c)
        /\ Receives(c)' = Receives(c)
    BY <1>2, <2>1 DEF InHand, Replied, Receives
  <2>7. InFlight(c)' = InFlight(c) + 1
    BY <2>4, <2>5, <2>6 DEF InFlight
  <2>8. Load(c)'
    BY <2>1, <2>2, <2>3, <2>4, <2>7 DEF Local, Load, Awaiting
  <2>9. resends'[c] # 0
    BY <2>2, <2>4
  <2>10. NoneLost(c)'
    BY <2>3, <2>6, <2>9 DEF Local, NoneLost
  <2>11. QED
    BY <2>8, <2>9, <2>10 DEF Local
<1>5. QED
  BY <1>2, <1>3, <1>4

\* The response that a client sees is the one to its current call.
LEMMA SeeResponseStep ==
  ASSUME IInv, NEW c \in Clients, SeeResponse(c)
  PROVE  Routed' /\ \A d \in Clients : Local(d)'
<1>1. UNCHANGED <<cq, wpc, serving, replyTask>>
  BY DEF SeeResponse, serverVars
<1>2. /\ Routed'
      /\ \A d \in Clients :
           UNCHANGED <<Arrivals(d), Unread(d), Answering(d), Reposting(d)>>
  BY <1>1, QueuesKept DEF IInv
<1>3. ASSUME NEW d \in Clients, d # c PROVE Local(d)'
  <2>1. UNCHANGED <<pc[d], current[d], buffer[d], answer[d], resends[d],
                     sendq[d], wire[d], replyq[d], replywire[d], mailbox[d],
                     receives[d]>>
    BY <1>3 DEF SeeResponse, GoTo, netVars, serverVars, IInv, TypeOK
  <2>2. QED
    BY <1>1, <1>2, <1>3, <2>1, Frame DEF IInv
<1>4. Local(c)'
  <2>1. UNCHANGED <<current[c], buffer[c], answer[c], resends[c], sendq[c],
                    wire[c], replyq[c], replywire[c], mailbox[c], receives[c],
                    replyTask>>
    BY DEF SeeResponse, netVars, serverVars
  <2>2. /\ pc[c] = "wait" /\ pc'[c] = "copy" /\ buffer[c].msg = "RESPONSE"
        /\ Local(c) /\ buffer[c] \in Content
    BY DEF SeeResponse, GoTo, IInv, TypeOK
  <2>3. InFlight(c)' = InFlight(c) /\ Receives(c)' = Receives(c)
    BY <1>2, <2>1 DEF InFlight, Requested, InHand, Replied, Receives
  <2>4. Load(c)' /\ NoneLost(c)'
    BY <2>1, <2>2, <2>3 DEF Local, Load, NoneLost, Awaiting
  <2>5. resends[c] = 0 => buffer[c] = Response(current[c])
    BY <2>2 DEF Local, Fresh, Content, Response
  <2>6. (resends[c] = 0 => Fresh(c))'
    BY <1>2, <2>1, <2>2, <2>5 DEF Local, Fresh
  <2>7. QED
    BY <2>4, <2>6 DEF Local
<1>5. QED
  BY <1>2, <1>3, <1>4

\* The response in the buffer becomes the answer.
LEMMA ReturnStep ==
  ASSUME IInv, NEW c \in Clients, Return(c)
  PROVE  Routed' /\ \A d \in Clients : Local(d)'
<1>1. UNCHANGED <<cq, wpc, serving, replyTask>>
  BY DEF Return, serverVars
<1>2. /\ Routed'
      /\ \A d \in Clients :
           UNCHANGED <<Arrivals(d), Unread(d), Answering(d), Reposting(d)>>
  BY <1>1, QueuesKept DEF IInv
<1>3. ASSUME NEW d \in Clients, d # c PROVE Local(d)'
  <2>1. UNCHANGED <<pc[d], current[d], buffer[d], answer[d], resends[d],
                     sendq[d], wire[d], replyq[d], replywire[d], mailbox[d],
                     receives[d]>>
    BY <1>3 DEF Return, GoTo, netVars, serverVars, IInv, TypeOK
  <2>2. QED
    BY <1>1, <1>2, <1>3, <2>1, Frame DEF IInv
<1>4. Local(c)'
  <2>1. UNCHANGED <<current[c], buffer[c], resends[c], sendq[c],
                    wire[c], replyq[c], replywire[c], mailbox[c], receives[c],
                    replyTask>>
    BY DEF Return, netVars, serverVars
  <2>2. /\ pc[c] = "copy" /\ pc'[c] = "idle" /\ answer'[c] = buffer[c]
        /\ Local(c)
    BY DEF Return, GoTo, IInv, TypeOK
  <2>3. InFlight(c)' = InFlight(c) /\ Receives(c)' = Receives(c)
    BY <1>2, <2>1 DEF InFlight, Requested, InHand, Replied, Receives
  <2>4. Load(c)' /\ NoneLost(c)'
    BY <2>1, <2>2, <2>3 DEF Local, Load, NoneLost, Awaiting
  <2>5. (resends[c] = 0 => Fresh(c))'
    BY <1>2, <2>1, <2>2 DEF Local, Fresh
  <2>6. QED
    BY <2>4, <2>5 DEF Local
<1>5. QED
  BY <1>2, <1>3, <1>4

\* What the adapter reads from the buffer is the current call's request.
LEMMA TransmitStep ==
  ASSUME IInv, NEW c \in Clients, Transmit(c)
  PROVE  Routed' /\ \A d \in Clients : Local(d)'
<1>1. UNCHANGED <<cq, wpc, serving, replyTask>>
  BY DEF Transmit, serverVars
<1>2. /\ Routed'
      /\ \A d \in Clients :
           UNCHANGED <<Arrivals(d), Unread(d), Answering(d), Reposting(d)>>
  BY <1>1, QueuesKept DEF IInv
<1>3. ASSUME NEW d \in Clients, d # c PROVE Local(d)'
  <2>1. UNCHANGED <<pc[d], current[d], buffer[d], answer[d], resends[d],
                     sendq[d], wire[d], replyq[d], replywire[d], mailbox[d],
                     receives[d]>>
    BY <1>3 DEF Transmit, clientVars, serverVars, IInv, TypeOK
  <2>2. QED
    BY <1>1, <1>2, <1>3, <2>1, Frame DEF IInv
<1>4. Local(c)'
  <2>1. UNCHANGED <<pc[c], current[c], buffer[c], answer[c], resends[c],
                    replyq[c], replywire[c], mailbox[c], receives[c],
                    replyTask>>
    BY DEF Transmit, clientVars, serverVars
  <2>2. /\ sendq[c] > 0 /\ sendq'[c] = sendq[c] - 1
        /\ wire'[c] = Append(wire[c], buffer[c])
        /\ wire[c] \in Seq(Content) /\ buffer[c] \in Content
        /\ TypeOK /\ Local(c)
    BY DEF Transmit, IInv, TypeOK
  <2>3. /\ Len(wire'[c]) = Len(wire[c]) + 1
        /\ \A i \in DOMAIN wire'[c] :
             \/ wire'[c][i] = buffer[c]
             \/ i \in DOMAIN wire[c] /\ wire'[c][i] = wire[c][i]
    BY <2>2, AppendProperties, LenProperties
  <2>4. /\ sendq[c] \in Nat /\ Len(wire[c]) \in Nat /\ Arrivals(c) \in Nat
        /\ InHand(c) \in Nat /\ Replied(c) \in Nat /\ Requested(c) \in Nat
    BY <2>2, Numbers, Sums
  <2>5. Requested(c)' = Requested(c)
    <3>1. /\ sendq[c]' = sendq[c] - 1 /\ Len(wire[c])' = Len(wire[c]) + 1
          /\ Arrivals(c)' = Arrivals(c)
      BY <1>2, <2>2, <2>3
    <3>2. sendq[c]' + Len(wire[c])' = sendq[c] + Len(wire[c])
      <4>1. sendq[c] \in Nat /\ Len(wire[c]) \in Nat
        BY <2>4
      <4>2. QED
        BY <3>1, <4>1
    <3>3. QED
      BY <3>1, <3>2 DEF Requested
  <2>6. InFlight(c)' = InFlight(c) /\ Receives(c)' = Receives(c)
    BY <1>2, <2>1, <2>5 DEF InFlight, InHand, Replied, Receives
  <2>7. Load(c)' /\ NoneLost(c)'
    BY <2>1, <2>2, <2>6 DEF Local, Load, NoneLost, Awaiting
  <2>8. resends[c] = 0 => Awaiting(c)
    BY <2>2, Quiet
  <2>9. resends[c] = 0 =>
          \A i \in DOMAIN wire'[c] : wire'[c][i].task = current[c]
    BY <2>2, <2>3, <2>8 DEF Awaiting, Local, Fresh
  <2>10. (resends[c] = 0 => Fresh(c))'
    BY <1>2, <2>1, <2>2, <2>9 DEF Local, Fresh
  <2>11. QED
    BY <2>7, <2>10 DEF Local
<1>5. QED
  BY <1>2, <1>3, <1>4

\* What the server's adapter reads from the mailbox is the response.
LEMMA TransmitReplyStep ==
  ASSUME IInv, NEW c \in Clients, TransmitReply(c)
  PROVE  Routed' /\ \A d \in Clients : Local(d)'
<1>1. UNCHANGED <<cq, wpc, serving, replyTask>>
  BY DEF TransmitReply, serverVars
<1>2. /\ Routed'
      /\ \A d \in Clients :
           UNCHANGED <<Arrivals(d), Unread(d), Answering(d), Reposting(d)>>
  BY <1>1, QueuesKept DEF IInv
<1>3. ASSUME NEW d \in Clients, d # c PROVE Local(d)'
  <2>1. UNCHANGED <<pc[d], current[d], buffer[d], answer[d], resends[d],
                     sendq[d], wire[d], replyq[d], replywire[d], mailbox[d],
                     receives[d]>>
    BY <1>3 DEF TransmitReply, clientVars, serverVars, IInv, TypeOK
  <2>2. QED
    BY <1>1, <1>2, <1>3, <2>1, Frame DEF IInv
<1>4. Local(c)'
  <2>1. UNCHANGED <<pc[c], current[c], buffer[c], answer[c], resends[c],
                    sendq[c], wire[c], mailbox[c], receives[c], replyTask>>
    BY DEF TransmitReply, clientVars, serverVars
  <2>2. /\ replyq[c] > 0 /\ replyq'[c] = replyq[c] - 1
        /\ replywire'[c] = Append(replywire[c], mailbox[c])
        /\ replywire[c] \in Seq(Content) /\ mailbox[c] \in Content
        /\ TypeOK /\ Local(c)
    BY DEF TransmitReply, IInv, TypeOK
  <2>3. /\ Len(replywire'[c]) = Len(replywire[c]) + 1
        /\ \A i \in DOMAIN replywire'[c] :
             \/ replywire'[c][i] = mailbox[c]
             \/ i \in DOMAIN replywire[c] /\ replywire'[c][i] = replywire[c][i]
    BY <2>2, AppendProperties, LenProperties
  <2>4. replyq[c] \in Nat /\ Len(replywire[c]) \in Nat
    BY <2>2, Numbers
  <2>5. Replied(c)' = Replied(c)
    BY <2>2, <2>3, <2>4 DEF Replied
  <2>6. InFlight(c)' = InFlight(c) /\ Receives(c)' = Receives(c)
    BY <1>2, <2>1, <2>5 DEF InFlight, Requested, InHand, Receives
  <2>7. Load(c)' /\ NoneLost(c)'
    BY <2>1, <2>2, <2>6 DEF Local, Load, NoneLost, Awaiting
  <2>8. resends[c] = 0 =>
          \A i \in DOMAIN replywire'[c] :
            replywire'[c][i] = Response(current[c])
    BY <2>2, <2>3 DEF Local, Fresh
  <2>9. replyq'[c] > 0 => replyq[c] > 0
    BY <2>2
  <2>10. (resends[c] = 0 => Fresh(c))'
    BY <1>2, <2>1, <2>2, <2>8, <2>9 DEF Local, Fresh
  <2>11. QED
    BY <2>7, <2>10 DEF Local
<1>5. QED
  BY <1>2, <1>3, <1>4

\* A placed response is in flight no more, and its client waits no more.
LEMMA PlaceReplyStep ==
  ASSUME IInv, NEW c \in Clients, PlaceReply(c)
  PROVE  Routed' /\ \A d \in Clients : Local(d)'
<1>1. UNCHANGED <<cq, wpc, serving, replyTask>>
  BY DEF PlaceReply, serverVars
<1>2. /\ Routed'
      /\ \A d \in Clients :
           UNCHANGED <<Arrivals(d), Unread(d), Answering(d), Reposting(d)>>
  BY <1>1, QueuesKept DEF IInv
<1>3. ASSUME NEW d \in Clients, d # c PROVE Local(d)'
  <2>1. UNCHANGED <<pc[d], current[d], buffer[d], answer[d], resends[d],
                     sendq[d], wire[d], replyq[d], replywire[d], mailbox[d],
                     receives[d]>>
    BY <1>3 DEF PlaceReply, serverVars, IInv, TypeOK
  <2>2. QED
    BY <1>1, <1>2, <1>3, <2>1, Frame DEF IInv
<1>4. Local(c)'
  <2>1. UNCHANGED <<pc[c], current[c], answer[c], resends[c], sendq[c],
                    wire[c], replyq[c], mailbox[c], receives[c], replyTask>>
    BY DEF PlaceReply, serverVars
  <2>2. /\ replywire[c] # <<>> /\ buffer'[c] = Head(replywire[c])
        /\ replywire'[c] = Tail(replywire[c])
        /\ replywire[c] \in Seq(Content)
        /\ TypeOK /\ Local(c)
    BY DEF PlaceReply, IInv, TypeOK
  <2>3. /\ Len(replywire'[c]) = Len(replywire[c]) - 1
        /\ Len(replywire[c]) > 0
        /\ 1 \in DOMAIN replywire[c] /\ buffer'[c] = replywire[c][1]
        /\ \A i \in DOMAIN replywire'[c] :
             /\ i + 1 \in DOMAIN replywire[c]
             /\ replywire'[c][i] = replywire[c][i + 1]
    BY <2>2, HeadTailProperties, LenProperties, EmptySeq
  <2>4. Replied(c)' = Replied(c) - 1 /\ Replied(c) > 0
    <3>1. replyq[c] \in Nat /\ Len(replywire[c]) \in Nat
      BY <2>2, Numbers
    <3>2. replyq[c]' = replyq[c] /\ Len(replywire[c])' = Len(replywire[c]) - 1
      BY <2>1, <2>3
    <3>3. Replied(c)' = Replied(c) - 1
      BY <3>1, <3>2 DEF Replied
    <3>4. Replied(c) > 0
      BY <2>3, <3>1 DEF Replied
    <3>5. QED
      BY <3>3, <3>4
  <2>5. Requested(c)' = Requested(c) /\ InHand(c)' = InHand(c)
    BY <1>2, <2>1 DEF Requested, InHand
  <2>6. InFlight(c)' = InFlight(c) - 1 /\ InFlight(c) \in Nat \ {0}
    <3>1. Requested(c) \in Nat /\ InHand(c) \in Nat /\ Replied(c) \in Nat
      BY <2>2, Sums
    <3>2. QED
      BY <2>4, <2>5, <3>1 DEF InFlight
  <2>7. Load(c)'
    <3>1. resends[c] \in Nat
      BY <2>2, Numbers
    <3>2. CASE pc[c] = "post"
      BY <2>1, <2>2, <2>6, <3>1, <3>2 DEF Local, Load, Awaiting
    <3>3. CASE pc[c] # "post"
      BY <2>1, <2>2, <2>6, <3>1, <3>3 DEF Local, Load, Awaiting
    <3>4. QED
      BY <3>2, <3>3
  <2>8. Receives(c)' = Receives(c)
    BY <1>2, <2>1, <2>5 DEF Receives
  <2>9. NoneLost(c)'
    BY <2>1, <2>2, <2>6, <2>8 DEF Local, NoneLost
  <2>10. resends[c] = 0 =>
          /\ buffer'[c] = Response(current[c])
          /\ \A i \in DOMAIN replywire'[c] :
               replywire'[c][i] = Response(current[c])
    BY <2>2, <2>3 DEF Local, Fresh
  <2>11. resends[c] = 0 => Awaiting(c)
    BY <2>2, <2>6, Single
  <2>12. (resends[c] = 0 => Fresh(c))'
    BY <1>2, <2>1, <2>2, <2>10, <2>11 DEF Local, Fresh, Awaiting, Response
  <2>13. QED
    BY <2>7, <2>9, <2>12 DEF Local
<1>5. QED
  BY <1>2, <1>3, <1>4

\* A placed request uses up a receive and adds an arrival for its client only.
LEMMA PlaceStep ==
  ASSUME IInv, NEW c \in Clients, Place(c)
  PROVE  Routed' /\ \A d \in Clients : Local(d)'
<1>1. /\ UNCHANGED <<wpc, serving, replyTask>>
      /\ \A w \in Workers : w # CqOf[c] => cq'[w] = cq[w]
      /\ cq'[CqOf[c]] = Append(cq[CqOf[c]], c)
      /\ CqOf[c] \in Workers /\ cq[CqOf[c]] \in Seq(Clients)
      /\ \A d \in Clients : CqOf[d] \in Workers
  BY ConstantsAssumption DEF Place, IInv, TypeOK, ConstantsAssumption
<1>2. \A d \in Clients :
        /\ UNCHANGED <<Unread(d), Answering(d), Reposting(d)>>
        /\ Arrivals(d)' = Arrivals(d) + (IF d = c THEN 1 ELSE 0)
  <2>1. SUFFICES ASSUME NEW d \in Clients
                 PROVE  /\ UNCHANGED <<Unread(d), Answering(d), Reposting(d)>>
                        /\ Arrivals(d)'
                             = Arrivals(d) + (IF d = c THEN 1 ELSE 0)
    OBVIOUS
  <2>2. UNCHANGED <<Unread(d), Answering(d), Reposting(d)>>
    BY <1>1 DEF Unread, Answering, Reposting, WorkerAt
  <2>3. CASE CqOf[d] = CqOf[c]
    <3>1. Occurrences(Append(cq[CqOf[c]], c), d)
            = Occurrences(cq[CqOf[c]], d) + (IF c = d THEN 1 ELSE 0)
      BY <1>1, OccurrencesAppend
    <3>2. Arrivals(d)' = Occurrences(Append(cq[CqOf[c]], c), d)
      BY <1>1, <2>3 DEF Arrivals
    <3>3. Arrivals(d) = Occurrences(cq[CqOf[c]], d)
      BY <2>3 DEF Arrivals
    <3>4. QED
      BY <2>2, <3>1, <3>2, <3>3
  <2>4. CASE CqOf[d] # CqOf[c]
    <3>1. Arrivals(d)' = Arrivals(d) /\ d # c
      BY <1>1, <2>4 DEF Arrivals
    <3>2. Arrivals(d) \in Nat
      BY Numbers DEF IInv
    <3>3. QED
      BY <2>2, <3>1, <3>2
  <2>5. QED
    BY <2>3, <2>4
<1>3. Routed'
  <2>1. SUFFICES ASSUME NEW w \in Workers, NEW i \in DOMAIN cq'[w]
                 PROVE  CqOf[cq'[w][i]] = w
    BY <1>1 DEF Routed, IInv
  <2>2. CASE w # CqOf[c]
    BY <1>1, <2>2 DEF Routed, IInv
  <2>3. CASE w = CqOf[c]
    <3>1. \/ cq'[w][i] = c
          \/ i \in DOMAIN cq[w] /\ cq'[w][i] = cq[w][i]
      <4>1. /\ cq'[w] = Append(cq[w], c) /\ cq[w] \in Seq(Clients)
            /\ i \in DOMAIN cq'[w]
        BY <1>1, <2>1, <2>3
      <4>2. QED
        BY <4>1, AppendProperties, LenProperties
    <3>2. QED
      BY <2>3, <3>1 DEF Routed, IInv
  <2>4. QED
    BY <2>2, <2>3
<1>4. ASSUME NEW d \in Clients, d # c PROVE Local(d)'
  <2>1. UNCHANGED <<pc[d], current[d], buffer[d], answer[d], resends[d],
                     sendq[d], wire[d], replyq[d], replywire[d], mailbox[d],
                     receives[d]>>
    BY <1>4 DEF Place, IInv, TypeOK
  <2>2. Arrivals(d) \in Nat
    BY Numbers DEF IInv
  <2>3. UNCHANGED <<Arrivals(d), Unread(d), Answering(d), Reposting(d)>>
    BY <1>2, <1>4, <2>2
  <2>4. QED
    BY <1>1, <2>1, <2>3, Frame DEF IInv
<1>5. Local(c)'
  <2>1. UNCHANGED <<pc[c], current[c], buffer[c], answer[c], resends[c],
                    sendq[c], replyq[c], replywire[c], replyTask>>
    BY DEF Place
  <2>2. /\ wire[c] # <<>> /\ wire'[c] = Tail(wire[c])
        /\ mailbox'[c] = Head(wire[c]) /\ wire[c] \in Seq(Content)
        /\ receives'[c] = receives[c] - 1
        /\ TypeOK /\ Local(c)
    BY DEF Place, IInv, TypeOK
  <2>3. /\ Len(wire'[c]) = Len(wire[c]) - 1 /\ Len(wire[c]) > 0
        /\ 1 \in DOMAIN wire[c] /\ mailbox'[c] = wire[c][1]
        /\ \A i \in DOMAIN wire'[c] :
             i + 1 \in DOMAIN wire[c] /\ wire'[c][i] = wire[c][i + 1]
    BY <2>2, HeadTailProperties, LenProperties, EmptySeq
  <2>4. /\ sendq[c] \in Nat /\ Len(wire[c]) \in Nat /\ Arrivals(c) \in Nat
        /\ receives[c] \in Nat /\ InHand(c) \in Nat /\ Reposting(c) \in Nat
        /\ Arrivals(c)' = Arrivals(c) + 1
    BY <1>2, <2>2, Numbers, Sums
  <2>5. Requested(c)' = Requested(c)
    <3>1. Len(wire[c])' + Arrivals(c)' = Len(wire[c]) + Arrivals(c)
      <4>1. Len(wire[c])' = Len(wire[c]) - 1 /\ Len(wire[c]) \in Nat
            /\ Arrivals(c) \in Nat /\ Arrivals(c)' = Arrivals(c) + 1
        BY <2>3, <2>4
      <4>2. QED
        BY <4>1
    <3>2. /\ sendq[c]' = sendq[c] /\ sendq[c] \in Nat
          /\ Len(wire[c]) \in Nat /\ Len(wire[c])' \in Nat
          /\ Arrivals(c) \in Nat /\ Arrivals(c)' \in Nat
      BY <2>1, <2>3, <2>4
    <3>3. Requested(c) = sendq[c] + (Len(wire[c]) + Arrivals(c))
      BY <3>2 DEF Requested
    <3>4. Requested(c)' = sendq[c]' + (Len(wire[c])' + Arrivals(c)')
      BY <3>2 DEF Requested
    <3>5. QED
      BY <3>1, <3>2, <3>3, <3>4
  <2>6. InHand(c)' = InHand(c) /\ Replied(c)' = Replied(c)
    BY <1>2, <2>1 DEF InHand, Replied
  <2>7. InFlight(c)' = InFlight(c)
    BY <2>5, <2>6 DEF InFlight
  <2>8. Receives(c)' = Receives(c)
    <3>1. receives[c]' = receives[c] - 1 /\ receives[c] \in Nat
          /\ Arrivals(c)' = Arrivals(c) + 1 /\ Arrivals(c) \in Nat
      BY <2>2, <2>4
    <3>2. receives[c]' + Arrivals(c)' = receives[c] + Arrivals(c)
      BY <3>1
    <3>3. InHand(c)' = InHand(c) /\ Reposting(c)' = Reposting(c)
      BY <1>2, <2>6
    <3>4. QED
      BY <3>2, <3>3 DEF Receives
  <2>9. Load(c)' /\ NoneLost(c)'
    BY <2>1, <2>2, <2>7, <2>8 DEF Local, Load, NoneLost, Awaiting
  <2>10. resends[c] = 0 =>
          /\ mailbox'[c].task = current[c]
          /\ \A i \in DOMAIN wire'[c] : wire'[c][i].task = current[c]
    BY <2>2, <2>3 DEF Local, Fresh
  <2>11. resends[c] = 0 => replyq[c] = 0
    <3>1. Requested(c) > 0
      BY <2>3, <2>4 DEF Requested
    <3>2. Requested(c) \in Nat /\ InHand(c) \in Nat /\ Replied(c) \in Nat
      BY <2>2, Sums
    <3>3. InFlight(c) # 0
      BY <3>1, <3>2 DEF InFlight
    <3>4. resends[c] = 0 => Replied(c) = 0
      BY <2>2, <3>1, <3>3, Single
    <3>5. replyq[c] \in Nat /\ Len(replywire[c]) \in Nat
      BY <2>2, Numbers
    <3>6. QED
      BY <3>4, <3>5 DEF Replied
  <2>12. (resends[c] = 0 => Fresh(c))'
    BY <1>1, <1>2, <2>1, <2>2, <2>10, <2>11 DEF Local, Fresh
  <2>13. QED
    BY <2>9, <2>12 DEF Local
<1>6. QED
  BY <1>3, <1>4, <1>5

-----------------------------------------------------------------------------
(***************************************************************************)
(* The steps of a worker.                                                  *)
(***************************************************************************)

\* A worker that handles a request of c moves on within its code: the queues
\* keep their arrivals ...
LEMMA WorkerMove ==
  ASSUME IInv, NEW w \in Workers, NEW c \in Clients, serving[w] = c,
         wpc[w] # "poll", UNCHANGED <<cq, serving>>,
         NEW to, wpc' = [wpc EXCEPT ![w] = to]
  PROVE  /\ CqOf[c] = w /\ wpc'[w] = to /\ Routed'
         /\ \A d \in Clients : Arrivals(d)' = Arrivals(d)
<1>1. /\ CqOf[c] = w
      /\ wpc'[w] = to /\ \A v \in Workers : v # w => wpc'[v] = wpc[v]
  BY DEF IInv, TypeOK, Routed
<1>2. Routed'
  BY <1>1 DEF IInv, Routed
<1>3. \A d \in Clients : Arrivals(d)' = Arrivals(d)
  BY DEF Arrivals
<1>4. QED
  BY <1>1, <1>2, <1>3

\* ... and nothing changes for the other clients.
LEMMA WorkerOthers ==
  ASSUME IInv, NEW w \in Workers, NEW c \in Clients, serving[w] = c,
         wpc[w] # "poll", UNCHANGED <<cq, serving>>,
         NEW to, wpc' = [wpc EXCEPT ![w] = to],
         NEW d \in Clients, d # c
  PROVE  /\ UNCHANGED <<Arrivals(d), Unread(d), Answering(d), Reposting(d)>>
         /\ CqOf[d] = w => Answering(d) = 0
<1>1. /\ wpc'[w] = to /\ \A v \in Workers : v # w => wpc'[v] = wpc[v]
      /\ CqOf[d] \in Workers
  BY ConstantsAssumption DEF IInv, TypeOK, ConstantsAssumption
<1>2. QED
  BY <1>1 DEF Arrivals, Unread, Answering, Reposting, WorkerAt

\* The reply under way gets the task of the request in the mailbox.
LEMMA ReadTaskStep ==
  ASSUME IInv, NEW w \in Workers, NEW c \in Clients, serving[w] = c,
         ReadTask(w)
  PROVE  Routed' /\ \A d \in Clients : Local(d)'
<1>1. /\ wpc[w] = "build" /\ wpc' = [wpc EXCEPT ![w] = "classify"]
      /\ UNCHANGED <<cq, serving, mailbox, receives, clientVars, netVars>>
      /\ replyTask'[w] = mailbox[serving[w]].task
      /\ \A v \in Workers : v # w => replyTask'[v] = replyTask[v]
  BY DEF ReadTask, WorkerGoTo, IInv, TypeOK
<1>2. /\ CqOf[c] = w /\ wpc'[w] = "classify" /\ Routed'
      /\ \A d \in Clients : Arrivals(d)' = Arrivals(d)
  BY <1>1, WorkerMove
<1>3. /\ Unread(c) = 1 /\ Unread(c)' = 0
      /\ Answering(c) = 0 /\ Answering(c)' = 1
      /\ Reposting(c) = 0 /\ Reposting(c)' = 0
  BY <1>1, <1>2 DEF Unread, Answering, Reposting, WorkerAt
<1>4. \A d \in Clients :
        d # c => /\ UNCHANGED <<Arrivals(d), Unread(d), Answering(d),
                                Reposting(d)>>
                 /\ CqOf[d] = w => Answering(d) = 0
  BY <1>1, WorkerOthers
<1>5. ASSUME NEW d \in Clients, d # c PROVE Local(d)'
  <2>1. UNCHANGED <<pc[d], current[d], buffer[d], answer[d], resends[d],
                     sendq[d], wire[d], replyq[d], replywire[d], mailbox[d],
                     receives[d]>>
    BY <1>1 DEF clientVars, netVars
  <2>2. Answering(d) > 0 => UNCHANGED replyTask[CqOf[d]]
    BY <1>1, <1>2, <1>3, <1>4, <1>5, ConstantsAssumption DEF ConstantsAssumption
  <2>3. QED
    BY <1>2, <1>3, <1>4, <1>5, <2>1, <2>2, Frame DEF IInv
<1>6. Local(c)'
  <2>1. UNCHANGED <<pc[c], current[c], buffer[c], answer[c], resends[c],
                    sendq[c], wire[c], replyq[c], replywire[c], mailbox[c],
                    receives[c], Arrivals(c), Reposting(c)>>
    BY <1>1, <1>2, <1>3, <1>4 DEF clientVars, netVars
  <2>2. TypeOK /\ Local(c)
    BY <1>2, <1>3, <1>4 DEF IInv
  <2>3. InHand(c)' = InHand(c)
    BY <1>2, <1>3, <1>4 DEF InHand
  <2>4. InFlight(c)' = InFlight(c) /\ Receives(c)' = Receives(c)
    BY <2>1, <2>3 DEF InFlight, Requested, Replied, Receives
  <2>5. Load(c)' /\ NoneLost(c)'
    BY <2>1, <2>2, <2>4 DEF Local, Load, NoneLost, Awaiting
  <2>6. resends[c] = 0 => mailbox[c].task = current[c]
    <3>1. Arrivals(c) \in Nat
      BY <1>2, <1>3, <1>4, <2>2, Numbers
    <3>2. Arrivals(c) + Unread(c) > 0
      BY <1>2, <1>3, <1>4, <3>1
    <3>3. QED
      BY <2>2, <3>2 DEF Local, Fresh
  <2>7. replyTask'[CqOf[c]] = mailbox[c].task
    BY <1>1, <1>2, <1>3, <1>4
  <2>8. (resends[c] = 0 => Fresh(c))'
    BY <2>1, <2>2, <2>6, <2>7 DEF Local, Fresh
  <2>9. QED
    BY <2>5, <2>8 DEF Local
<1>7. QED
  BY <1>2, <1>3, <1>4, <1>5, <1>6


\* The receive is back.
LEMMA RepostStep ==
  ASSUME IInv, NEW w \in Workers, NEW c \in Clients, serving[w] = c,
         Repost(w)
  PROVE  Routed' /\ \A d \in Clients : Local(d)'
<1>1. /\ wpc[w] = "repost" /\ wpc' = [wpc EXCEPT ![w] = "poll"]
      /\ UNCHANGED <<cq, serving, mailbox, replyTask, clientVars, netVars>>
      /\ receives' = [receives EXCEPT ![serving[w]] = @ + 1]
  BY DEF Repost, WorkerGoTo
<1>2. /\ CqOf[c] = w /\ wpc'[w] = "poll" /\ Routed'
      /\ \A d \in Clients : Arrivals(d)' = Arrivals(d)
  BY <1>1, WorkerMove
<1>3. /\ Unread(c) = 0 /\ Unread(c)' = 0
      /\ Answering(c) = 0 /\ Answering(c)' = 0
      /\ Reposting(c) = 1 /\ Reposting(c)' = 0
  BY <1>1, <1>2 DEF Unread, Answering, Reposting, WorkerAt
<1>4. \A d \in Clients :
        d # c => /\ UNCHANGED <<Arrivals(d), Unread(d), Answering(d),
                                Reposting(d)>>
                 /\ CqOf[d] = w => Answering(d) = 0
  BY <1>1, WorkerOthers
<1>5. /\ receives'[c] = receives[c] + 1
      /\ \A d \in Clients : d # c => receives'[d] = receives[d]
  BY <1>1, <1>2, <1>3, <1>4 DEF IInv, TypeOK
<1>6. ASSUME NEW d \in Clients, d # c PROVE Local(d)'
  <2>1. UNCHANGED <<pc[d], current[d], buffer[d], answer[d], resends[d],
                     sendq[d], wire[d], replyq[d], replywire[d], mailbox[d],
                     receives[d], replyTask>>
    BY <1>1, <1>5, <1>6 DEF clientVars, netVars
  <2>2. QED
    BY <1>2, <1>3, <1>4, <1>6, <2>1, Frame DEF IInv
<1>7. Local(c)'
  <2>1. UNCHANGED <<pc[c], current[c], buffer[c], answer[c], resends[c],
                    sendq[c], wire[c], replyq[c], replywire[c], mailbox[c],
                    replyTask, Arrivals(c), Unread(c), Answering(c)>>
    BY <1>1, <1>2, <1>3, <1>4 DEF clientVars, netVars
  <2>2. TypeOK /\ Local(c)
    BY <1>2, <1>3, <1>4 DEF IInv
  <2>3. InHand(c)' = 0 /\ InHand(c) = 0 /\ InFlight(c)' = InFlight(c)
    BY <1>2, <1>3, <1>4, <2>1 DEF InHand, InFlight, Requested, Replied
  <2>4. Receives(c)' = Receives(c)
    <3>1. receives[c] \in Nat /\ Arrivals(c) \in Nat
      BY <1>2, <1>3, <1>4, <2>2, Numbers
    <3>2. Receives(c)' = receives[c] + 1 + Arrivals(c)
      BY <1>2, <1>3, <1>4, <1>5, <2>1, <2>3, <3>1 DEF Receives
    <3>3. Receives(c) = receives[c] + Arrivals(c) + 1
      BY <1>2, <1>3, <1>4, <2>3, <3>1 DEF Receives
    <3>4. QED
      BY <3>1, <3>2, <3>3
  <2>5. Load(c)' /\ NoneLost(c)'
    BY <2>1, <2>2, <2>3, <2>4 DEF Local, Load, NoneLost, Awaiting
  <2>6. (resends[c] = 0 => Fresh(c))'
    BY <2>1, <2>2 DEF Local, Fresh
  <2>7. QED
    BY <2>5, <2>6 DEF Local
<1>8. QED
  BY <1>2, <1>3, <1>4, <1>6, <1>7


\* The request in hand becomes a reply on its way.
LEMMA ReplyStep ==
  ASSUME IInv, NEW w \in Workers, NEW c \in Clients, serving[w] = c,
         Reply(w)
  PROVE  Routed' /\ \A d \in Clients : Local(d)'
<1>1. /\ wpc[w] = "reply" /\ wpc' = [wpc EXCEPT ![w] = "repost"]
      /\ UNCHANGED <<cq, serving, receives, replyTask, sendq, wire, replywire,
                     clientVars>>
      /\ mailbox' = [mailbox EXCEPT ![serving[w]] = Response(replyTask[w])]
      /\ replyq' = [replyq EXCEPT ![serving[w]] = @ + 1]
  BY DEF Reply, WorkerGoTo
<1>2. /\ CqOf[c] = w /\ wpc'[w] = "repost" /\ Routed'
      /\ \A d \in Clients : Arrivals(d)' = Arrivals(d)
  BY <1>1, WorkerMove
<1>3. /\ Unread(c) = 0 /\ Unread(c)' = 0
      /\ Answering(c) = 1 /\ Answering(c)' = 0
      /\ Reposting(c) = 0 /\ Reposting(c)' = 1
  BY <1>1, <1>2 DEF Unread, Answering, Reposting, WorkerAt
<1>4. \A d \in Clients :
        d # c => /\ UNCHANGED <<Arrivals(d), Unread(d), Answering(d),
                                Reposting(d)>>
                 /\ CqOf[d] = w => Answering(d) = 0
  BY <1>1, WorkerOthers
<1>5. /\ replyq'[c] = replyq[c] + 1 /\ mailbox'[c] = Response(replyTask[w])
      /\ \A d \in Clients :
           d # c => mailbox'[d] = mailbox[d] /\ replyq'[d] = replyq[d]
  BY <1>1, <1>2, <1>3, <1>4 DEF IInv, TypeOK
<1>6. ASSUME NEW d \in Clients, d # c PROVE Local(d)'
  <2>1. UNCHANGED <<pc[d], current[d], buffer[d], answer[d], resends[d],
                     sendq[d], wire[d], replyq[d], replywire[d], mailbox[d],
                     receives[d], replyTask>>
    BY <1>1, <1>5, <1>6 DEF clientVars
  <2>2. QED
    BY <1>2, <1>3, <1>4, <1>6, <2>1, Frame DEF IInv
<1>7. Local(c)'
  <2>1. UNCHANGED <<pc[c], current[c], buffer[c], answer[c], resends[c],
                    sendq[c], wire[c], replywire[c], receives[c],
                    replyTask, Arrivals(c), Unread(c)>>
    BY <1>1, <1>2, <1>3, <1>4 DEF clientVars
  <2>2. TypeOK /\ Local(c)
    BY <1>2, <1>3, <1>4 DEF IInv
  <2>3. /\ replyq[c] \in Nat /\ Len(replywire[c]) \in Nat
        /\ Requested(c) \in Nat /\ Replied(c) \in Nat /\ receives[c] \in Nat
        /\ Arrivals(c) \in Nat
    BY <1>2, <1>3, <1>4, <2>2, Numbers, Sums
  <2>4. /\ Requested(c)' = Requested(c) /\ InHand(c) = 1 /\ InHand(c)' = 0
    BY <1>2, <1>3, <1>4, <2>1 DEF Requested, InHand
  <2>5. Replied(c)' = Replied(c) + 1
    BY <1>5, <2>1, <2>3 DEF Replied
  <2>6. InFlight(c)' = InFlight(c) /\ InFlight(c) # 0
    BY <2>3, <2>4, <2>5 DEF InFlight
  <2>7. Receives(c)' = Receives(c)
    <3>1. receives[c]' = receives[c] /\ Arrivals(c)' = Arrivals(c)
      BY <2>1
    <3>2. QED
      BY <1>2, <1>3, <1>4, <2>3, <2>4, <3>1 DEF Receives
  <2>8. Load(c)' /\ NoneLost(c)'
    BY <2>1, <2>2, <2>6, <2>7 DEF Local, Load, NoneLost, Awaiting
  <2>9. resends[c] = 0 => replyTask[CqOf[c]] = current[c]
    BY <1>2, <1>3, <1>4, <2>2 DEF Local, Fresh
  <2>10. resends[c] = 0 => Arrivals(c) = 0
    <3>1. resends[c] = 0 => Requested(c) = 0
      BY <1>2, <1>3, <1>4, <2>2, <2>4, <2>6, Single
    <3>2. sendq[c] \in Nat /\ Len(wire[c]) \in Nat /\ Arrivals(c) \in Nat
      BY <1>2, <1>3, <1>4, <2>2, Numbers
    <3>3. QED
      BY <3>1, <3>2 DEF Requested
  <2>11. (resends[c] = 0 => Fresh(c))'
    BY <1>2, <1>3, <1>4, <1>5, <2>1, <2>2, <2>9, <2>10 DEF Local, Fresh
  <2>12. QED
    BY <2>8, <2>11 DEF Local
<1>8. QED
  BY <1>2, <1>3, <1>4, <1>6, <1>7

\* The request in hand is answered, or dropped with its receive.
LEMMA ClassifyStep ==
  ASSUME IInv, NEW w \in Workers, NEW c \in Clients, serving[w] = c,
         Classify(w)
  PROVE  Routed' /\ \A d \in Clients : Local(d)'
<1>1. /\ wpc[w] = "classify"
      /\ UNCHANGED <<cq, serving, mailbox, receives, replyTask, clientVars,
                     netVars>>
  BY DEF Classify, WorkerGoTo
<1>2. PICK to : /\ to = "reply" \/ to = "poll"
                /\ wpc' = [wpc EXCEPT ![w] = to]
  BY DEF Classify, WorkerGoTo
<1>3. /\ CqOf[c] = w /\ wpc'[w] = to /\ Routed'
      /\ \A d \in Clients : Arrivals(d)' = Arrivals(d)
  BY <1>1, <1>2, WorkerMove
<1>4. /\ Unread(c) = 0 /\ Unread(c)' = 0
      /\ Answering(c) = 1 /\ Answering(c)' = (IF to = "reply" THEN 1 ELSE 0)
      /\ Reposting(c) = 0 /\ Reposting(c)' = 0
  BY <1>1, <1>2, <1>3 DEF Unread, Answering, Reposting, WorkerAt
<1>5. \A d \in Clients :
        d # c => UNCHANGED <<Arrivals(d), Unread(d), Answering(d),
                             Reposting(d)>>
  BY <1>1, <1>2, WorkerOthers
<1>6. ASSUME NEW d \in Clients, d # c PROVE Local(d)'
  <2>1. UNCHANGED <<pc[d], current[d], buffer[d], answer[d], resends[d],
                     sendq[d], wire[d], replyq[d], replywire[d], mailbox[d],
                     receives[d], replyTask>>
    BY <1>1 DEF clientVars, netVars
  <2>2. QED
    BY <1>5, <1>6, <2>1, Frame DEF IInv
<1>7. Local(c)'
  <2>1. UNCHANGED <<pc[c], current[c], buffer[c], answer[c], resends[c],
                    sendq[c], wire[c], replyq[c], replywire[c], mailbox[c],
                    receives[c], replyTask, Arrivals(c), Unread(c),
                    Reposting(c)>>
    BY <1>1, <1>3, <1>4 DEF clientVars, netVars
  <2>2. TypeOK /\ Local(c)
    BY DEF IInv
  <2>3. (resends[c] = 0 => Fresh(c))'
    BY <1>4, <2>1, <2>2 DEF Local, Fresh
  <2>4. CASE to = "reply"
    <3>1. Answering(c)' = Answering(c)
      BY <1>4, <2>4
    <3>2. InFlight(c)' = InFlight(c) /\ Receives(c)' = Receives(c)
      BY <2>1, <3>1 DEF InFlight, Requested, InHand, Replied, Receives
    <3>3. Load(c)' /\ NoneLost(c)'
      BY <2>1, <2>2, <3>2 DEF Local, Load, NoneLost, Awaiting
    <3>4. QED
      BY <2>3, <3>3 DEF Local
  <2>5. CASE to = "poll"
    <3>1. /\ InHand(c) = 1 /\ InHand(c)' = 0
          /\ Requested(c)' = Requested(c) /\ Replied(c)' = Replied(c)
      BY <1>4, <2>1, <2>5 DEF InHand, Requested, Replied
    <3>2. Requested(c) \in Nat /\ Replied(c) \in Nat /\ InFlight(c) \in Nat
      BY <2>2, Sums
    <3>3. InFlight(c)' = InFlight(c) - 1 /\ InFlight(c) # 0
      BY <3>1, <3>2 DEF InFlight
    <3>4. Receives(c)' <= Receives(c)
      <4>1. receives[c] \in Nat /\ Arrivals(c) \in Nat /\ Reposting(c) \in Nat
        BY <2>2, Numbers
      <4>2. /\ receives[c]' = receives[c] /\ Arrivals(c)' = Arrivals(c)
            /\ Reposting(c)' = Reposting(c)
        BY <2>1
      <4>3. QED
        BY <3>1, <4>1, <4>2 DEF Receives
    <3>5. Load(c)'
      <4>1. resends[c] \in Nat
        BY <2>2, Numbers
      <4>2. QED
        BY <2>1, <2>2, <3>2, <3>3, <4>1 DEF Local, Load, Awaiting
    <3>6. resends[c] = 0 => Awaiting(c) /\ InFlight(c)' = 0
      <4>1. resends[c] = 0 => Awaiting(c) /\ Requested(c) = 0 /\ Replied(c) = 0
        BY <2>2, <3>1, <3>3, Single
      <4>2. QED
        BY <3>1, <4>1 DEF InFlight
    <3>7. Receives(c)' <= RecvDepth
      <4>1. Receives(c) \in Nat /\ Receives(c)' \in Int /\ RecvDepth \in Nat
        <5>1. /\ receives[c] \in Nat /\ Arrivals(c) \in Nat
              /\ Reposting(c) \in Nat
          BY <2>2, Numbers
        <5>2. Receives(c)' \in Int
          BY <2>1, <3>1, <5>1 DEF Receives
        <5>3. QED
          BY <2>2, <5>2, Numbers, Sums
      <4>2. Receives(c) <= RecvDepth
        BY <2>2 DEF Local, NoneLost
      <4>3. QED
        BY <3>4, <4>1, <4>2
    <3>8. NoneLost(c)'
      BY <2>1, <3>6, <3>7 DEF NoneLost, Awaiting
    <3>9. QED
      BY <2>3, <3>5, <3>8 DEF Local
  <2>6. QED
    BY <1>2, <2>4, <2>5
<1>8. QED
  BY <1>3, <1>6, <1>7

\* An arrival becomes the request in hand, or is dropped with its receive.
LEMMA RequestPollerStep ==
  ASSUME IInv, NEW w \in Workers, NEW c \in Clients, RequestPoller(w),
         Head(cq[w]) = c
  PROVE  Routed' /\ \A d \in Clients : Local(d)'
<1>1. /\ wpc[w] = "poll" /\ cq[w] # <<>> /\ cq[w] \in Seq(Clients)
      /\ cq'[w] = Tail(cq[w]) /\ serving'[w] = c
      /\ \A v \in Workers : v # w => cq'[v] = cq[v] /\ serving'[v] = serving[v]
      /\ UNCHANGED <<mailbox, receives, replyTask, clientVars, netVars>>
  BY DEF RequestPoller, WorkerGoTo, IInv, TypeOK
<1>2. PICK to : /\ to = "poll" \/ to = "build"
                /\ wpc' = [wpc EXCEPT ![w] = to]
  BY DEF RequestPoller, WorkerGoTo
<1>3. /\ wpc'[w] = to
      /\ \A v \in Workers : v # w => wpc'[v] = wpc[v]
      /\ \A d \in Clients : CqOf[d] \in Workers
  BY <1>2, ConstantsAssumption DEF IInv, TypeOK, ConstantsAssumption
<1>4. /\ 1 \in DOMAIN cq[w] /\ c = cq[w][1]
      /\ \A i \in DOMAIN cq'[w] :
           i + 1 \in DOMAIN cq[w] /\ cq'[w][i] = cq[w][i + 1]
  BY <1>1, HeadTailProperties, LenProperties, EmptySeq
<1>5. CqOf[c] = w
  BY <1>4 DEF IInv, Routed
<1>6. Routed'
  <2>1. ASSUME NEW v \in Workers, v # w
        PROVE  /\ \A i \in DOMAIN cq'[v] : CqOf[cq'[v][i]] = v
               /\ wpc'[v] # "poll" => CqOf[serving'[v]] = v
    BY <1>1, <1>3, <2>1 DEF IInv, Routed
  <2>2. /\ \A i \in DOMAIN cq'[w] : CqOf[cq'[w][i]] = w
        /\ wpc'[w] # "poll" => CqOf[serving'[w]] = w
    BY <1>1, <1>4, <1>5 DEF IInv, Routed
  <2>3. QED
    BY <2>1, <2>2 DEF Routed
<1>7. ASSUME NEW d \in Clients
      PROVE  Arrivals(d) = Arrivals(d)' + (IF d = c THEN 1 ELSE 0)
  <2>1. CASE CqOf[d] = w
    <3>1. Occurrences(cq[w], d)
            = Occurrences(Tail(cq[w]), d)
              + (IF Head(cq[w]) = d THEN 1 ELSE 0)
      BY <1>1, OccurrencesTail
    <3>2. Arrivals(d) = Occurrences(cq[w], d)
      BY <2>1 DEF Arrivals
    <3>3. Arrivals(d)' = Occurrences(Tail(cq[w]), d)
      BY <1>1, <2>1 DEF Arrivals
    <3>4. QED
      BY <3>1, <3>2, <3>3
  <2>2. CASE CqOf[d] # w
    <3>1. Arrivals(d)' = Arrivals(d) /\ d # c
      BY <1>1, <1>3, <1>5, <2>2 DEF Arrivals
    <3>2. Arrivals(d) \in Nat
      BY Numbers DEF IInv
    <3>3. QED
      BY <3>1, <3>2
  <2>3. QED
    BY <2>1, <2>2
<1>8. \A d \in Clients : Arrivals(d)' \in Nat
  <2>1. TypeOK'
    BY TypeStep DEF IInv, Next, WorkerStep
  <2>2. \A d \in Clients : cq'[CqOf[d]] \in Seq(Clients)
    BY <1>3, <2>1 DEF TypeOK
  <2>3. QED
    BY <2>2, OccurrencesType DEF Arrivals
<1>9. ASSUME NEW d \in Clients, d # c PROVE Local(d)'
  <2>1. UNCHANGED <<pc[d], current[d], buffer[d], answer[d], resends[d],
                     sendq[d], wire[d], replyq[d], replywire[d], mailbox[d],
                     receives[d], replyTask>>
    BY <1>1 DEF clientVars, netVars
  <2>2. UNCHANGED <<Unread(d), Answering(d), Reposting(d)>>
    BY <1>1, <1>3, <1>9 DEF Unread, Answering, Reposting, WorkerAt
  <2>3. Arrivals(d)' = Arrivals(d)
    BY <1>7, <1>8, <1>9
  <2>4. QED
    BY <1>9, <2>1, <2>2, <2>3, Frame DEF IInv
<1>10. Local(c)'
  <2>1. UNCHANGED <<pc[c], current[c], buffer[c], answer[c], resends[c],
                    sendq[c], wire[c], replyq[c], replywire[c], mailbox[c],
                    receives[c], replyTask>>
    BY <1>1 DEF clientVars, netVars
  <2>2. TypeOK /\ Local(c)
    BY DEF IInv
  <2>3. /\ Unread(c) = 0 /\ Unread(c)' = (IF to = "build" THEN 1 ELSE 0)
        /\ Answering(c) = 0 /\ Answering(c)' = 0
        /\ Reposting(c) = 0 /\ Reposting(c)' = 0
    BY <1>1, <1>2, <1>3, <1>5 DEF Unread, Answering, Reposting, WorkerAt
  <2>4. Arrivals(c) = Arrivals(c)' + 1 /\ Arrivals(c)' \in Nat
    BY <1>7, <1>8
  <2>5. Requested(c) = Requested(c)' + 1 /\ Requested(c)' \in Nat
    <3>1. sendq[c] \in Nat /\ Len(wire[c]) \in Nat
      BY <2>2, Numbers
    <3>2. sendq[c]' = sendq[c] /\ Len(wire[c])' = Len(wire[c])
      BY <2>1
    <3>3. Requested(c)' = (sendq[c] + Len(wire[c])) + Arrivals(c)'
      BY <3>2 DEF Requested
    <3>4. Requested(c) = (sendq[c] + Len(wire[c])) + Arrivals(c)
      BY DEF Requested
    <3>5. QED
      BY <2>4, <3>1, <3>3, <3>4
  <2>6. /\ InHand(c) = 0 /\ Replied(c)' = Replied(c)
        /\ InHand(c)' = (IF to = "build" THEN 1 ELSE 0)
    BY <2>1, <2>3 DEF InHand, Replied
  <2>7. /\ Requested(c) \in Nat /\ Replied(c) \in Nat /\ InFlight(c) \in Nat
        /\ receives[c] \in Nat /\ resends[c] \in Nat /\ RecvDepth \in Nat
        /\ Receives(c) \in Nat
    BY <2>2, Sums, Numbers
  <2>8. InFlight(c) # 0
    BY <2>5, <2>6, <2>7 DEF InFlight
  <2>9. Receives(c) = receives[c] + Arrivals(c)
    <3>1. receives[c] \in Nat /\ Arrivals(c) \in Nat
      BY <2>4, <2>7
    <3>2. QED
      BY <2>3, <2>6, <3>1 DEF Receives
  <2>10. Receives(c)' = receives[c] + Arrivals(c)' + InHand(c)'
    <3>1. receives[c]' \in Nat /\ Arrivals(c)' \in Nat /\ InHand(c)' \in Nat
      BY <2>1, <2>4, <2>6, <2>7
    <3>2. QED
      BY <2>1, <2>3, <3>1 DEF Receives
  <2>11. resends[c] = 0 => Awaiting(c) /\ mailbox[c].task = current[c]
    <3>1. Arrivals(c) + Unread(c) > 0
      BY <2>3, <2>4
    <3>2. QED
      BY <2>2, <2>8, <3>1, Single DEF Local, Fresh
  <2>12. (resends[c] = 0 => Fresh(c))'
    BY <2>1, <2>2, <2>3, <2>11 DEF Local, Fresh
  <2>13. CASE to = "build"
    <3>1. InFlight(c)' = InFlight(c)
      BY <2>5, <2>6, <2>7, <2>13 DEF InFlight
    <3>2. Receives(c)' = Receives(c)
      BY <2>4, <2>6, <2>7, <2>9, <2>10, <2>13
    <3>3. Load(c)' /\ NoneLost(c)'
      BY <2>1, <2>2, <3>1, <3>2 DEF Local, Load, NoneLost, Awaiting
    <3>4. QED
      BY <2>12, <3>3 DEF Local
  <2>14. CASE to = "poll"
    <3>1. InHand(c)' = 0
      BY <2>6, <2>14
    <3>2. InFlight(c)' = InFlight(c) - 1
      BY <2>5, <2>6, <2>7, <3>1 DEF InFlight
    <3>3. Load(c)'
      BY <2>1, <2>2, <2>7, <3>2 DEF Local, Load, Awaiting
    <3>4. Receives(c)' <= RecvDepth
      <4>1. Receives(c) <= RecvDepth
        BY <2>2 DEF Local, NoneLost
      <4>2. Receives(c)' = receives[c] + Arrivals(c)'
        BY <2>4, <2>7, <2>10, <3>1
      <4>3. QED
        BY <2>4, <2>7, <2>9, <4>1, <4>2
    <3>5. resends[c] = 0 => Requested(c) = 1 /\ Replied(c) = 0
      <4>1. Requested(c) > 0
        BY <2>5
      <4>2. resends[c] = 0 => Requested(c) <= 1 /\ Replied(c) = 0
        BY <2>2, <2>8, <4>1, Single
      <4>3. QED
        BY <2>7, <4>1, <4>2
    <3>6. resends[c] = 0 => InFlight(c)' = 0
      BY <2>5, <2>6, <3>1, <3>5 DEF InFlight
    <3>7. NoneLost(c)'
      BY <2>1, <2>11, <3>4, <3>6 DEF NoneLost, Awaiting
    <3>8. QED
      BY <2>12, <3>3, <3>7 DEF Local
  <2>15. QED
    BY <1>2, <2>13, <2>14
<1>11. QED
  BY <1>6, <1>9, <1>10

-----------------------------------------------------------------------------
(***************************************************************************)
(* The invariant.                                                          *)
(***************************************************************************)

\* Frame again, for a step that changes nothing.
LEMMA StutterStep ==
  ASSUME IInv, UNCHANGED vars
  PROVE  Routed' /\ \A d \in Clients : Local(d)'
<1>1. UNCHANGED <<cq, wpc, serving, replyTask>>
  BY DEF vars, serverVars
<1>2. /\ Routed'
      /\ \A d \in Clients :
           UNCHANGED <<Arrivals(d), Unread(d), Answering(d), Reposting(d)>>
  BY <1>1, QueuesKept DEF IInv
<1>3. ASSUME NEW d \in Clients PROVE Local(d)'
  <2>1. UNCHANGED <<pc[d], current[d], buffer[d], answer[d], resends[d],
                     sendq[d], wire[d], replyq[d], replywire[d], mailbox[d],
                     receives[d]>>
    BY DEF vars, clientVars, netVars, serverVars
  <2>2. QED
    BY <1>1, <1>2, <2>1, Frame DEF IInv
<1>4. QED
  BY <1>2, <1>3

\* Initially nothing is in flight and every receive is posted.
LEMMA InvInit == Init => IInv
<1> SUFFICES ASSUME Init PROVE IInv
  OBVIOUS
<1>1. TypeOK
  BY TypeInit
<1>2. Routed
  BY DEF Init, Routed
<1>3. ASSUME NEW c \in Clients PROVE Local(c)
  <2>1. CqOf[c] \in Workers
    BY ConstantsAssumption DEF ConstantsAssumption
  <2>2. Arrivals(c) = 0
    <3>1. cq[CqOf[c]] = <<>> /\ <<>> \in Seq(Clients)
      BY <2>1 DEF Init
    <3>2. \A i \in DOMAIN <<>> : <<>>[i] # c
      OBVIOUS
    <3>3. QED
      BY <3>1, <3>2, OccurrencesType DEF Arrivals
  <2>3. Unread(c) = 0 /\ Answering(c) = 0 /\ Reposting(c) = 0
    BY <2>1 DEF Init, Unread, Answering, Reposting, WorkerAt
  <2>4. /\ pc[c] = "idle" /\ answer[c] = Response(0) /\ current[c] = 0
        /\ resends[c] = 0 /\ sendq[c] = 0 /\ wire[c] = <<>> /\ replyq[c] = 0
        /\ replywire[c] = <<>> /\ receives[c] = RecvDepth
    BY DEF Init
  <2>5. Len(wire[c]) = 0 /\ Len(replywire[c]) = 0
    BY <2>4
  <2>6. Requested(c) = 0 /\ InHand(c) = 0 /\ Replied(c) = 0
    BY <2>2, <2>3, <2>4, <2>5 DEF Requested, InHand, Replied
  <2>7. InFlight(c) = 0
    BY <2>6 DEF InFlight
  <2>8. Receives(c) = RecvDepth /\ RecvDepth \in Nat
    <3>1. RecvDepth \in Nat
      BY ConstantsAssumption DEF ConstantsAssumption
    <3>2. QED
      BY <2>2, <2>3, <2>4, <2>6, <3>1 DEF Receives
  <2>9. Load(c) /\ NoneLost(c)
    BY <2>4, <2>7, <2>8 DEF Load, NoneLost, Awaiting
  <2>10. Fresh(c)
    BY <2>2, <2>3, <2>4 DEF Fresh
  <2>11. QED
    BY <2>9, <2>10 DEF Local
<1>4. QED
  BY <1>1, <1>2, <1>3 DEF IInv

\* Every action keeps the invariant.
LEMMA InvStep == IInv /\ [Next]_vars => IInv'
<1> SUFFICES ASSUME IInv, [Next]_vars PROVE IInv'
  OBVIOUS
<1>1. TypeOK'
  BY TypeStep DEF IInv
<1>2. Routed' /\ \A d \in Clients : Local(d)'
  <2>1. CASE UNCHANGED vars
    BY <2>1, StutterStep
  <2>2. ASSUME NEW c \in Clients, ClientStep(c)
        PROVE  Routed' /\ \A d \in Clients : Local(d)'
    BY <2>2, CallStep, CallOneWayStep, SendStep, TimeoutStep, ResendStep,
       SeeResponseStep, ReturnStep DEF ClientStep
  <2>3. ASSUME NEW c \in Clients, AdapterStep(c)
        PROVE  Routed' /\ \A d \in Clients : Local(d)'
    BY <2>3, TransmitStep, PlaceStep, TransmitReplyStep, PlaceReplyStep
       DEF AdapterStep
  <2>4. ASSUME NEW w \in Workers, WorkerStep(w)
        PROVE  Routed' /\ \A d \in Clients : Local(d)'
    <3>1. serving[w] \in Clients
      BY DEF IInv, TypeOK
    <3>2. CASE RequestPoller(w)
      <4>1. cq[w] # <<>> /\ cq[w] \in Seq(Clients)
        BY <3>2 DEF RequestPoller, IInv, TypeOK
      <4>2. Head(cq[w]) \in Clients
        BY <4>1, HeadTailProperties
      <4>3. QED
        BY <3>2, <4>2, RequestPollerStep
    <3>3. QED
      BY <2>4, <3>1, <3>2, ReadTaskStep, ClassifyStep, ReplyStep, RepostStep
         DEF WorkerStep
  <2>5. QED
    BY <2>1, <2>2, <2>3, <2>4 DEF Next
<1>3. QED
  BY <1>1, <1>2 DEF IInv

\* The invariant holds in every reachable state.
THEOREM Invariance == Spec => []IInv
<1>1. Init => IInv
  BY InvInit
<1>2. IInv /\ [Next]_vars => IInv'
  BY InvStep
<1>3. QED
  BY <1>1, <1>2, PTL DEF Spec

-----------------------------------------------------------------------------
(***************************************************************************)
(* The safety properties.                                                  *)
(***************************************************************************)

\* Never more in flight for a client than its call and its resends.
THEOREM InFlightBounded == Spec => []InFlightBound
<1>1. IInv => InFlightBound
  <2>1. SUFFICES ASSUME IInv, NEW c \in Clients
                 PROVE  InFlight(c) <= resends[c]
                          + (IF pc[c] \in {"wait", "resend"} THEN 1 ELSE 0)
    BY DEF InFlightBound
  <2>2. InFlight(c) \in Nat /\ resends[c] \in Nat
    BY <2>1, Sums, Numbers DEF IInv
  <2>3. Load(c)
    BY <2>1 DEF IInv, Local
  <2>4. QED
    BY <2>2, <2>3 DEF Load, Awaiting
<1>2. QED
  BY <1>1, Invariance, PTL

\* A client that has not resent gets the response to its own request, whatever
\* the other clients do.
THEOREM OwnAnswers == Spec => []OwnAnswer
<1>1. IInv => OwnAnswer
  BY DEF IInv, Local, Fresh, OwnAnswer
<1>2. QED
  BY <1>1, Invariance, PTL

\* No receive queue overflows, and none has lost a receive to a call that
\* returned.
THEOREM NoReceiveLost == Spec => []ReceivesAccounted
<1>1. IInv => ReceivesAccounted
  BY DEF IInv, Local, NoneLost, Awaiting, ReceivesAccounted
<1>2. QED
  BY <1>1, Invariance, PTL

\* During a call only its own response is written to the client's buffer.
THEOREM HandedOver == Spec => BufferHandover
<1> DEFINE Handover ==
      \A c \in Clients :
        resends[c] = 0 /\ pc[c] # "idle" /\ buffer'[c] # buffer[c]
          => /\ pc[c] \in {"wait", "resend"}
             /\ buffer[c].msg # "RESPONSE"
             /\ buffer'[c] = Response(current[c])
<1>1. IInv /\ [Next]_vars => [Handover]_vars
  <2>1. SUFFICES ASSUME IInv, Next, NEW c \in Clients, resends[c] = 0,
                        pc[c] # "idle", buffer'[c] # buffer[c]
                 PROVE  /\ pc[c] \in {"wait", "resend"}
                        /\ buffer[c].msg # "RESPONSE"
                        /\ buffer'[c] = Response(current[c])
    OBVIOUS
  <2>2. PlaceReply(c)
    <3>1. ASSUME NEW d \in Clients, ClientStep(d) PROVE FALSE
      BY <2>1, <3>1 DEF ClientStep, Call, CallOneWay, Prepare, GoTo, Send,
           Timeout, Resend, SeeResponse, Return, IInv, TypeOK
    <3>2. ASSUME NEW w \in Workers, WorkerStep(w) PROVE FALSE
      BY <2>1, <3>2 DEF WorkerStep, RequestPoller, ReadTask, Classify, Reply,
           Repost, clientVars
    <3>3. ASSUME NEW d \in Clients, AdapterStep(d) PROVE PlaceReply(c)
      BY <2>1, <3>3 DEF AdapterStep, Transmit, Place, TransmitReply,
           PlaceReply, clientVars, IInv, TypeOK
    <3>4. QED
      BY <2>1, <3>1, <3>2, <3>3 DEF Next
  <2>3. /\ replywire[c] # <<>> /\ replywire[c] \in Seq(Content)
        /\ buffer'[c] = Head(replywire[c]) /\ TypeOK /\ Local(c)
    BY <2>1, <2>2 DEF PlaceReply, IInv, TypeOK
  <2>4. Len(replywire[c]) # 0 /\ Head(replywire[c]) = replywire[c][1]
        /\ 1 \in DOMAIN replywire[c]
    BY <2>3, HeadTailProperties, LenProperties, EmptySeq
  <2>5. buffer'[c] = Response(current[c])
    BY <2>1, <2>3, <2>4 DEF Local, Fresh
  <2>6. Awaiting(c)
    BY <2>1, <2>3, <2>4, Quiet
  <2>7. QED
    BY <2>5, <2>6 DEF Awaiting
<1>2. QED
  BY <1>1, Invariance, PTL DEF Spec, BufferHandover

-----------------------------------------------------------------------------
(***************************************************************************)
(* RdmaCall implements CallService when nothing is sent twice.             *)
(***************************************************************************)

\* The server has answered the call that the client is in.
Answered(c) == executed[c].last = current[c]

\* The client has sent its request and seen the response in its buffer.
Responded(c) == pc[c] \in {"wait", "resend", "copy"} /\ ~ Awaiting(c)

\* Tasks are numbered upwards, and the server has answered the current one
\* exactly when its reply is under way or has come.
Once(c) ==
  /\ current[c] < taskID[c] /\ executed[c].last < taskID[c]
  /\ pc[c] = "post" \/ (Awaiting(c) /\ Replied(c) = 0) => ~ Answered(c)
  /\ Replied(c) > 0 \/ Responded(c) => Answered(c)

\* No client has had to send a request again.
NothingResent == \A c \in Clients : resends[c] = 0

OnceInv ==
  /\ IInv
  /\ NothingResent
  /\ \A c \in Clients : Once(c)

\* The state of CallService that RdmaCall's state stands for.
Status == [c \in Clients |->
             IF pc[c] = "idle" THEN "idle"
             ELSE IF Answered(c) THEN "executed" ELSE "issued"]
Executions == [c \in Clients |-> executed[c].count]

Moved(c, from, to) ==
  Status[c] = from /\ Status' = [Status EXCEPT ![c] = to]

\* A step of CallService, or none.
ServiceStep ==
  \/ \E c \in Clients : Moved(c, "idle", "issued") /\ Executions' = Executions
  \/ \E c \in Clients : /\ Moved(c, "issued", "executed")
                        /\ Executions' = [Executions EXCEPT ![c] = @ + 1]
  \/ \E c \in Clients : Moved(c, "executed", "idle") /\ Executions' = Executions
  \/ Status' = Status /\ Executions' = Executions

\* What a step leaves alone for a client stays right for it.
LEMMA OnceFrame ==
  ASSUME NEW d \in Clients, Once(d),
         UNCHANGED <<pc[d], current[d], taskID[d], buffer[d], executed[d],
                     replyq[d], Len(replywire[d])>>
  PROVE  Once(d)'
BY DEF Once, Answered, Awaiting, Responded, Replied

\* A step within a call that executes nothing is not seen by the caller.
LEMMA StatusKept ==
  ASSUME UNCHANGED <<current, executed>>,
         \A d \in Clients : (pc[d] = "idle") <=> (pc'[d] = "idle")
  PROVE  ServiceStep
<1>1. Status' = Status
  BY DEF Status, Answered
<1>2. Executions' = Executions
  BY DEF Executions
<1>3. QED
  BY <1>1, <1>2 DEF ServiceStep

\* A client in the middle of no call has no reply on its way.
LEMMA NoReply ==
  ASSUME OnceInv, NEW c \in Clients, ~ Awaiting(c)
  PROVE  /\ replyq[c] = 0 /\ replywire[c] = <<>> /\ Replied(c) = 0
         /\ pc[c] = "post" => buffer[c].msg # "RESPONSE"
<1>1. TypeOK /\ Local(c) /\ resends[c] = 0
  BY DEF OnceInv, IInv, NothingResent
<1>2. /\ replyq[c] = 0 /\ replywire[c] = <<>>
      /\ pc[c] = "post" => buffer[c].msg # "RESPONSE"
  BY <1>1, Quiet
<1>3. QED
  BY <1>2 DEF Replied

\* A new call has a task that the server has not answered.
LEMMA CallOnce ==
  ASSUME OnceInv, NEW c \in Clients, NEW m \in Requests, Call(c, m)
  PROVE  (\A d \in Clients : Once(d)') /\ ServiceStep
<1>1. /\ UNCHANGED <<resends, replyq, replywire, executed>>
      /\ pc[c] = "idle" /\ pc' = [pc EXCEPT ![c] = "post"]
      /\ taskID' = [taskID EXCEPT ![c] = @ + 1]
      /\ current' = [current EXCEPT ![c] = taskID[c]]
  BY DEF Call, Prepare, GoTo, netVars, serverVars
<1>2. /\ pc'[c] = "post" /\ taskID'[c] = taskID[c] + 1
      /\ current'[c] = taskID[c] /\ taskID[c] \in Nat
      /\ executed[c].last \in Nat
  BY <1>1 DEF OnceInv, IInv, TypeOK
<1>3. \A d \in Clients \ {c} :
        UNCHANGED <<pc[d], current[d], taskID[d], buffer[d]>>
  BY <1>1 DEF Call, Prepare, OnceInv, IInv, TypeOK
<1>4. ASSUME NEW d \in Clients, d # c PROVE Once(d)'
  BY <1>1, <1>3, <1>4, OnceFrame DEF OnceInv
<1>5. Replied(c) = 0 /\ Replied(c)' = 0
  BY <1>1, NoReply DEF Awaiting, Replied
<1>6. Once(c) /\ executed[c].last < taskID[c]
  BY DEF OnceInv, Once
<1>7. Once(c)'
  BY <1>1, <1>2, <1>5, <1>6 DEF Once, Answered, Awaiting, Responded
<1>8. Status[c] = "idle" /\ Status' = [Status EXCEPT ![c] = "issued"]
  <2>1. executed'[c].last # current'[c]
    BY <1>1, <1>2, <1>6
  <2>2. QED
    BY <1>1, <1>2, <1>3, <2>1 DEF Status, Answered
<1>9. Executions' = Executions
  BY <1>1 DEF Executions
<1>10. QED
  BY <1>4, <1>7, <1>8, <1>9 DEF ServiceStep, Moved

\* A one-way call uses up a task and is not seen.
LEMMA CallOneWayOnce ==
  ASSUME OnceInv, NEW c \in Clients, NEW m \in Requests, CallOneWay(c, m)
  PROVE  (\A d \in Clients : Once(d)') /\ ServiceStep
<1>1. /\ UNCHANGED <<pc, current, resends, replyq, replywire, executed>>
      /\ pc[c] = "idle"
      /\ taskID' = [taskID EXCEPT ![c] = @ + 1]
  BY DEF CallOneWay, Prepare, netVars, serverVars
<1>2. /\ taskID'[c] = taskID[c] + 1 /\ taskID[c] \in Nat
      /\ current[c] \in Nat /\ executed[c].last \in Nat
  BY <1>1 DEF OnceInv, IInv, TypeOK
<1>3. \A d \in Clients \ {c} : UNCHANGED <<taskID[d], buffer[d]>>
  BY <1>1 DEF CallOneWay, Prepare, OnceInv, IInv, TypeOK
<1>4. ASSUME NEW d \in Clients, d # c PROVE Once(d)'
  BY <1>1, <1>3, <1>4, OnceFrame DEF OnceInv
<1>5. Replied(c) = 0 /\ Replied(c)' = 0
  BY <1>1, NoReply DEF Awaiting, Replied
<1>6. Once(c)
  BY DEF OnceInv
<1>7. Once(c)'
  BY <1>1, <1>2, <1>5, <1>6 DEF Once, Answered, Awaiting, Responded
<1>8. QED
  BY <1>1, <1>4, <1>7, StatusKept

\* The request is posted: the client awaits its one answer.
LEMMA SendOnce ==
  ASSUME OnceInv, NEW c \in Clients, Send(c)
  PROVE  (\A d \in Clients : Once(d)') /\ ServiceStep
<1>1. /\ UNCHANGED <<taskID, current, buffer, resends, replyq, replywire,
                     executed>>
      /\ pc[c] = "post" /\ pc' = [pc EXCEPT ![c] = "wait"]
  BY DEF Send, BatchWrite, GoTo, serverVars
<1>2. pc'[c] = "wait" /\ \A d \in Clients \ {c} : pc'[d] = pc[d]
  BY <1>1 DEF OnceInv, IInv, TypeOK
<1>3. ASSUME NEW d \in Clients, d # c PROVE Once(d)'
  BY <1>1, <1>2, <1>3, OnceFrame DEF OnceInv
<1>4. Replied(c) = 0 /\ Replied(c)' = 0 /\ buffer[c].msg # "RESPONSE"
  BY <1>1, NoReply DEF Awaiting, Replied
<1>5. Once(c)
  BY DEF OnceInv
<1>6. Once(c)'
  BY <1>1, <1>2, <1>4, <1>5 DEF Once, Answered, Awaiting, Responded
<1>7. ServiceStep
  BY <1>1, <1>2, StatusKept
<1>8. QED
  BY <1>3, <1>6, <1>7

\* A client whose wait has timed out still awaits its one answer ...
LEMMA TimeoutOnce ==
  ASSUME OnceInv, NEW c \in Clients, Timeout(c)
  PROVE  (\A d \in Clients : Once(d)') /\ ServiceStep
<1>1. /\ UNCHANGED <<taskID, current, buffer, replyq, replywire, executed>>
      /\ pc[c] = "wait" /\ pc' = [pc EXCEPT ![c] = "resend"]
  BY DEF Timeout, GoTo, netVars, serverVars
<1>2. pc'[c] = "resend" /\ \A d \in Clients \ {c} : pc'[d] = pc[d]
  BY <1>1 DEF OnceInv, IInv, TypeOK
<1>3. ASSUME NEW d \in Clients, d # c PROVE Once(d)'
  BY <1>1, <1>2, <1>3, OnceFrame DEF OnceInv
<1>4. Once(c)
  BY DEF OnceInv
<1>5. Once(c)'
  BY <1>1, <1>2, <1>4 DEF Once, Answered, Awaiting, Responded, Replied
<1>6. ServiceStep
  BY <1>1, <1>2, StatusKept
<1>7. QED
  BY <1>3, <1>5, <1>6

\* ... until it sends the request again.
LEMMA ResendCounted ==
  ASSUME OnceInv, NEW c \in Clients, Resend(c)
  PROVE  ~ NothingResent'
<1>1. resends'[c] = resends[c] + 1 /\ resends[c] \in Nat
  BY DEF Resend, OnceInv, IInv, TypeOK
<1>2. QED
  BY <1>1 DEF NothingResent

\* The response seen is the answer to the call.
LEMMA SeeResponseOnce ==
  ASSUME OnceInv, NEW c \in Clients, SeeResponse(c)
  PROVE  (\A d \in Clients : Once(d)') /\ ServiceStep
<1>1. /\ UNCHANGED <<taskID, current, buffer, resends, replyq, replywire,
                     executed>>
      /\ pc[c] = "wait" /\ pc' = [pc EXCEPT ![c] = "copy"]
      /\ buffer[c].msg = "RESPONSE"
  BY DEF SeeResponse, GoTo, netVars, serverVars
<1>2. pc'[c] = "copy" /\ \A d \in Clients \ {c} : pc'[d] = pc[d]
  BY <1>1 DEF OnceInv, IInv, TypeOK
<1>3. ASSUME NEW d \in Clients, d # c PROVE Once(d)'
  BY <1>1, <1>2, <1>3, OnceFrame DEF OnceInv
<1>4. Once(c)
  BY DEF OnceInv
<1>5. Once(c)'
  BY <1>1, <1>2, <1>4 DEF Once, Answered, Awaiting, Responded, Replied
<1>6. ServiceStep
  BY <1>1, <1>2, StatusKept
<1>7. QED
  BY <1>3, <1>5, <1>6

\* A call that returns has been executed.
LEMMA ReturnOnce ==
  ASSUME OnceInv, NEW c \in Clients, Return(c)
  PROVE  (\A d \in Clients : Once(d)') /\ ServiceStep
<1>1. /\ UNCHANGED <<taskID, current, buffer, resends, replyq, replywire,
                     executed>>
      /\ pc[c] = "copy" /\ pc' = [pc EXCEPT ![c] = "idle"]
  BY DEF Return, GoTo, netVars, serverVars
<1>2. pc'[c] = "idle" /\ \A d \in Clients \ {c} : pc'[d] = pc[d]
  BY <1>1 DEF OnceInv, IInv, TypeOK
<1>3. ASSUME NEW d \in Clients, d # c PROVE Once(d)'
  BY <1>1, <1>2, <1>3, OnceFrame DEF OnceInv
<1>4. Once(c) /\ Answered(c)
  BY <1>1 DEF OnceInv, Once, Awaiting, Responded
<1>5. Replied(c) = 0 /\ Replied(c)' = 0
  BY <1>1, NoReply DEF Awaiting, Replied
<1>6. Once(c)'
  BY <1>1, <1>2, <1>4, <1>5 DEF Once, Answered, Awaiting, Responded
<1>7. Status[c] = "executed" /\ Status' = [Status EXCEPT ![c] = "idle"]
  BY <1>1, <1>2, <1>4 DEF Status, Answered
<1>8. Executions' = Executions
  BY <1>1 DEF Executions
<1>9. QED
  BY <1>3, <1>6, <1>7, <1>8 DEF ServiceStep, Moved

\* The adapters of the requests' direction touch nothing of this.
LEMMA RequestOnce ==
  ASSUME OnceInv, NEW c \in Clients, Transmit(c) \/ Place(c)
  PROVE  (\A d \in Clients : Once(d)') /\ ServiceStep
<1>1. UNCHANGED <<pc, taskID, current, buffer, resends, replyq, replywire,
                  executed>>
  BY DEF Transmit, Place, clientVars, serverVars
<1>2. QED
  BY <1>1, OnceFrame, StatusKept DEF OnceInv

\* A reply that is read from the mailbox is still on its way.
LEMMA TransmitReplyOnce ==
  ASSUME OnceInv, NEW c \in Clients, TransmitReply(c)
  PROVE  (\A d \in Clients : Once(d)') /\ ServiceStep
<1>1. /\ UNCHANGED <<pc, taskID, current, buffer, resends, executed>>
      /\ replyq[c] > 0 /\ replyq' = [replyq EXCEPT ![c] = @ - 1]
      /\ replywire' = [replywire EXCEPT ![c] = Append(@, mailbox[c])]
  BY DEF TransmitReply, clientVars, serverVars
<1>2. /\ replyq'[c] = replyq[c] - 1 /\ replyq[c] \in Nat
      /\ replywire'[c] = Append(replywire[c], mailbox[c])
      /\ replywire[c] \in Seq(Content) /\ mailbox[c] \in Content
      /\ \A d \in Clients \ {c} :
           replyq'[d] = replyq[d] /\ replywire'[d] = replywire[d]
  BY <1>1 DEF OnceInv, IInv, TypeOK
<1>3. ASSUME NEW d \in Clients, d # c PROVE Once(d)'
  BY <1>1, <1>2, <1>3, OnceFrame DEF OnceInv
<1>4. Replied(c)' = Replied(c)
  <2>1. /\ Len(replywire'[c]) = Len(replywire[c]) + 1
        /\ Len(replywire[c]) \in Nat
    BY <1>2, AppendProperties, LenProperties
  <2>2. replyq[c] > 0 /\ replyq'[c] = replyq[c] - 1
    BY <1>1, <1>2
  <2>3. replyq[c] \in Nat
    BY <1>2
  <2>4. QED
    BY <2>1, <2>2, <2>3 DEF Replied
<1>5. Once(c)
  BY DEF OnceInv
<1>6. Once(c)'
  BY <1>1, <1>4, <1>5 DEF Once, Answered, Awaiting, Responded
<1>7. QED
  BY <1>1, <1>3, <1>6, StatusKept

\* A placed reply answers the call that awaits it.
LEMMA PlaceReplyOnce ==
  ASSUME OnceInv, NEW c \in Clients, PlaceReply(c)
  PROVE  (\A d \in Clients : Once(d)') /\ ServiceStep
<1>1. /\ UNCHANGED <<pc, taskID, current, resends, executed, replyq>>
      /\ replywire[c] # <<>> /\ buffer' = [buffer EXCEPT ![c] = Head(replywire[c])]
      /\ replywire' = [replywire EXCEPT ![c] = Tail(@)]
  BY DEF PlaceReply, serverVars
<1>2. /\ buffer'[c] = Head(replywire[c]) /\ replywire'[c] = Tail(replywire[c])
      /\ replywire[c] \in Seq(Content) /\ replyq[c] \in Nat
      /\ \A d \in Clients \ {c} :
           buffer'[d] = buffer[d] /\ replywire'[d] = replywire[d]
  BY <1>1 DEF OnceInv, IInv, TypeOK
<1>3. ASSUME NEW d \in Clients, d # c PROVE Once(d)'
  BY <1>1, <1>2, <1>3, OnceFrame DEF OnceInv
<1>4. /\ Len(replywire[c]) \in Nat /\ Len(replywire[c]) > 0
      /\ Head(replywire[c]) = replywire[c][1] /\ 1 \in DOMAIN replywire[c]
  BY <1>1, <1>2, HeadTailProperties, LenProperties, EmptySeq
<1>5. Replied(c) > 0
  BY <1>2, <1>4 DEF Replied
<1>6. Once(c) /\ Local(c) /\ TypeOK /\ resends[c] = 0
  BY DEF OnceInv, NothingResent, IInv
<1>7. Answered(c)
  BY <1>5, <1>6 DEF Once
<1>8. Awaiting(c)
  <2>1. replywire[c] # <<>>
    BY <1>1
  <2>2. QED
    BY <1>6, <2>1, Quiet
<1>9. buffer'[c] = Response(current[c])
  BY <1>2, <1>4, <1>6 DEF Local, Fresh
<1>10. Once(c)'
  BY <1>1, <1>6, <1>7, <1>8, <1>9
     DEF Once, Answered, Awaiting, Responded, Response
<1>11. QED
  BY <1>1, <1>3, <1>10, StatusKept

\* The server answers a call that it has not answered yet.
LEMMA ReplyOnce ==
  ASSUME OnceInv, NEW w \in Workers, Reply(w)
  PROVE  (\A d \in Clients : Once(d)') /\ ServiceStep
<1>1. PICK c \in Clients : c = serving[w]
  BY DEF OnceInv, IInv, TypeOK
<1>2. /\ wpc[w] = "reply" /\ wpc' = [wpc EXCEPT ![w] = "repost"]
      /\ UNCHANGED <<pc, taskID, current, buffer, resends, replywire, cq,
                     serving>>
      /\ replyq' = [replyq EXCEPT ![c] = @ + 1]
      /\ executed' = [executed EXCEPT ![c] =
                        [last |-> replyTask[w], count |-> @.count + 1]]
  BY <1>1 DEF Reply, WorkerGoTo, clientVars
<1>3. /\ replyq'[c] = replyq[c] + 1
      /\ executed'[c].last = replyTask[w]
      /\ executed'[c].count = executed[c].count + 1
      /\ \A d \in Clients \ {c} :
           replyq'[d] = replyq[d] /\ executed'[d] = executed[d]
  BY <1>2 DEF OnceInv, IInv, TypeOK
<1>4. CqOf[c] = w
  BY <1>1, <1>2 DEF OnceInv, IInv, Routed
<1>5. Answering(c) = 1
  BY <1>1, <1>2, <1>4 DEF Answering, WorkerAt
<1>6. Once(c) /\ Local(c) /\ TypeOK /\ resends[c] = 0
  BY DEF OnceInv, NothingResent, IInv
<1>7. Awaiting(c) /\ Replied(c) = 0
  <2>1. InHand(c) > 0 /\ InFlight(c) # 0
    <3>1. /\ Unread(c) \in Nat /\ Requested(c) \in Nat /\ Replied(c) \in Nat
      BY <1>6, Numbers, Sums
    <3>2. QED
      BY <1>5, <3>1 DEF InHand, InFlight
  <2>2. QED
    BY <1>6, <2>1, Single
<1>8. pc[c] # "idle" /\ ~ Answered(c)
  BY <1>6, <1>7 DEF Once, Awaiting
<1>9. replyTask[w] = current[c]
  BY <1>4, <1>5, <1>6 DEF Local, Fresh
<1>10. Replied(c)' = 1
  <2>1. replyq[c] \in Nat /\ Len(replywire[c]) \in Nat
    BY <1>6, Numbers
  <2>2. QED
    BY <1>2, <1>3, <1>7, <2>1 DEF Replied
<1>11. Once(c)'
  BY <1>2, <1>3, <1>6, <1>7, <1>8, <1>9, <1>10
     DEF Once, Answered, Awaiting, Responded
<1>12. ASSUME NEW d \in Clients, d # c PROVE Once(d)'
  BY <1>2, <1>3, <1>12, OnceFrame DEF OnceInv
<1>13. Status[c] = "issued" /\ Status' = [Status EXCEPT ![c] = "executed"]
  BY <1>2, <1>3, <1>8, <1>9 DEF Status, Answered
<1>14. Executions' = [Executions EXCEPT ![c] = @ + 1]
  BY <1>3 DEF Executions
<1>15. QED
  BY <1>11, <1>12, <1>13, <1>14 DEF ServiceStep, Moved

\* The other steps of a worker touch nothing of this.
LEMMA WorkerOnce ==
  ASSUME OnceInv, NEW w \in Workers,
         RequestPoller(w) \/ ReadTask(w) \/ Classify(w) \/ Repost(w)
  PROVE  (\A d \in Clients : Once(d)') /\ ServiceStep
<1>1. UNCHANGED <<pc, taskID, current, buffer, resends, replyq, replywire,
                  executed>>
  BY DEF RequestPoller, ReadTask, Classify, Repost, clientVars, netVars
<1>2. QED
  BY <1>1, OnceFrame, StatusKept DEF OnceInv

\* Initially no call has been made.
LEMMA OnceInit == Init => OnceInv
<1> SUFFICES ASSUME Init PROVE OnceInv
  OBVIOUS
<1>1. ASSUME NEW c \in Clients PROVE Once(c)
  <2>1. /\ pc[c] = "idle" /\ current[c] = 0
        /\ taskID[c] = 1 /\ executed[c].last = 0
        /\ replyq[c] = 0 /\ replywire[c] = <<>>
    BY DEF Init
  <2>2. Replied(c) = 0
    BY <2>1 DEF Replied
  <2>3. QED
    BY <2>1, <2>2 DEF Once, Awaiting, Responded
<1>2. NothingResent
  BY DEF Init, NothingResent
<1>3. QED
  BY <1>1, <1>2, InvInit DEF OnceInv

\* Every action but a resend keeps the invariant and is a step of CallService,
\* or none.
LEMMA OnceStep ==
  OnceInv /\ [Next]_vars /\ NothingResent' => OnceInv' /\ ServiceStep
<1> SUFFICES ASSUME OnceInv, [Next]_vars, NothingResent'
             PROVE  OnceInv' /\ ServiceStep
  OBVIOUS
<1>1. IInv'
  BY InvStep DEF OnceInv
<1>2. (\A d \in Clients : Once(d)') /\ ServiceStep
  <2>1. CASE UNCHANGED vars
    <3>1. UNCHANGED <<pc, taskID, current, buffer, replyq, replywire,
                      executed>>
      BY <2>1 DEF vars, clientVars, netVars, serverVars
    <3>2. QED
      BY <3>1, OnceFrame, StatusKept DEF OnceInv
  <2>2. ASSUME NEW c \in Clients, ClientStep(c)
        PROVE  (\A d \in Clients : Once(d)') /\ ServiceStep
    BY <2>2, CallOnce, CallOneWayOnce, SendOnce, TimeoutOnce, ResendCounted,
       SeeResponseOnce, ReturnOnce DEF ClientStep
  <2>3. ASSUME NEW c \in Clients, AdapterStep(c)
        PROVE  (\A d \in Clients : Once(d)') /\ ServiceStep
    BY <2>3, RequestOnce, TransmitReplyOnce, PlaceReplyOnce DEF AdapterStep
  <2>4. ASSUME NEW w \in Workers, WorkerStep(w)
        PROVE  (\A d \in Clients : Once(d)') /\ ServiceStep
    BY <2>4, WorkerOnce, ReplyOnce DEF WorkerStep
  <2>5. QED
    BY <2>1, <2>2, <2>3, <2>4 DEF Next
<1>3. QED
  BY <1>1, <1>2 DEF OnceInv

\* The refinement: as long as no request is sent twice, a call is executed by
\* the server exactly once, after it was issued and before it returns, whatever
\* the number of clients, of workers and of calls.  RdmaCall, RequestPoller and
\* ProcessRequest implement CallService.
THEOREM Implements == Spec /\ []NothingResent => ExactlyOnce
<1>1. Init => OnceInv
  BY OnceInit
<1>2. OnceInv /\ [Next]_vars /\ NothingResent' => OnceInv'
  BY OnceStep
<1>3. Init => Service!Init
  BY DEF Init, Service!Init
<1>4. OnceInv /\ [Next]_vars /\ NothingResent' => [Service!Next]_(Service!vars)
  <2>1. SUFFICES ASSUME ServiceStep PROVE [Service!Next]_(Service!vars)
    BY OnceStep
  <2>2. QED
    BY <2>1 DEF ServiceStep, Moved, Status, Executions, Answered, Service!Next,
         Service!vars, Service!Issue, Service!Execute, Service!Return,
         Service!Move
<1>5. QED
  BY <1>1, <1>2, <1>3, <1>4, PTL DEF Spec, ExactlyOnce, Service!Spec

\* No client gets as far as to resend when none is allowed to.
Patient ==
  MaxResends = 0 /\ TypeOK /\ NothingResent
    /\ \A c \in Clients : pc[c] # "resend"

LEMMA PatientStep == Patient /\ [Next]_vars => Patient'
<1> SUFFICES ASSUME Patient, [Next]_vars PROVE Patient'
  OBVIOUS
<1>1. TypeOK'
  BY TypeStep DEF Patient
<1>2. ASSUME NEW c \in Clients PROVE resends'[c] = 0 /\ pc'[c] # "resend"
  <2>1. pc \in [Clients -> {"idle", "post", "wait", "resend", "copy"}]
    BY DEF Patient, TypeOK
  <2>2. resends[c] = 0 /\ pc[c] # "resend"
    BY DEF Patient, NothingResent
  <2>3. \A d \in Clients : ~ Timeout(d) /\ ~ Resend(d)
    BY DEF Patient, NothingResent, Timeout, Resend, GoTo
  <2>4. ASSUME NEW d \in Clients, ClientStep(d)
        PROVE  resends'[c] = 0 /\ pc'[c] # "resend"
    BY <2>1, <2>2, <2>3, <2>4
       DEF ClientStep, Call, CallOneWay, Send, SeeResponse, Return, GoTo
  <2>5. ASSUME NEW d \in Clients, AdapterStep(d)
        PROVE  resends'[c] = 0 /\ pc'[c] # "resend"
    BY <2>2, <2>5
       DEF AdapterStep, Transmit, Place, TransmitReply, PlaceReply, clientVars
  <2>6. ASSUME NEW w \in Workers, WorkerStep(w)
        PROVE  resends'[c] = 0 /\ pc'[c] # "resend"
    BY <2>2, <2>6
       DEF WorkerStep, RequestPoller, ReadTask, Classify, Reply, Repost,
           clientVars
  <2>7. CASE UNCHANGED vars
    BY <2>2, <2>7 DEF vars, clientVars
  <2>8. QED
    BY <2>4, <2>5, <2>6, <2>7 DEF Next
<1>3. QED
  BY <1>1, <1>2 DEF Patient, NothingResent

\* In particular when the timeout of RdmaCall never expires.
COROLLARY ImplementsPatiently == MaxResends = 0 /\ Spec => ExactlyOnce
<1>1. MaxResends = 0 /\ Init => Patient
  BY TypeInit DEF Init, Patient, NothingResent
<1>2. Patient /\ [Next]_vars => Patient'
  BY PatientStep
<1>3. Patient => NothingResent
  BY DEF Patient
<1>4. QED
  BY <1>1, <1>2, <1>3, Implements, PTL DEF Spec
=============================================================================
