----------------------------- MODULE SendQueue -----------------------------
(***************************************************************************)
(* The send queues of a client process: queue pair 0 to each server, used  *)
(* by one thread through _RdmaBatchWrite, _RdmaBatchSend, _RdmaBatchRead   *)
(* (the same loop three times) and through the verbs that are signaled     *)
(* each (RdmaRead, RdmaWrite, RdmaSend, RdmaFetchAndAdd,                   *)
(* RdmaCompareAndSwap).                                                    *)
(*                                                                         *)
(* A send queue has Depth entries.  An entry is free again only when a     *)
(* completion of that request, or of a later one of the same queue, has    *)
(* been TAKEN from the completion queue.  A batched request is signaled    *)
(* only at every SignalPeriod-th, and then the thread first takes one      *)
(* completion, of whatever queue: all of a client's queues share one       *)
(* completion queue, and PollCompletion does not look whose entry it got.  *)
(***************************************************************************)
EXTENDS Naturals, Sequences, FiniteSets, FiniteSetsExt

CONSTANTS
  Servers,       \* the servers the client is connected to
  SignalPeriod,  \* SIGNAL_BATCH + 1
  MaxPostList,   \* MAX_POST_LIST, the longest batch
  Depth,         \* QPS_MAX_DEPTH
  MaxUnpolled    \* bound: signaled requests whose completion nobody takes

\* The code has 24 and 32: a batch holds at most one signaled request, so that
\* the completion the loop waits for is never one of its own, unposted, batch.
ASSUME SendQueueAssumption ==
  /\ IsFiniteSet(Servers)
  /\ {SignalPeriod, MaxPostList, Depth} \subseteq Nat \ {0}
  /\ MaxPostList <= SignalPeriod
  /\ MaxUnpolled \in Nat

VARIABLES
  pc,        \* "idle", or where the thread is: "loop", "wait" (PollCompletion)
  dest,      \* the server of the latest operation
  left,      \* requests of the batch that are still to be prepared
  list,      \* send_wr: the prepared ones, each with whether it is signaled
  counter,   \* PeerSockData::counter, reduced as in NextCount
  queue,     \* posted requests that still have an entry, oldest first
  done,      \* how many of these the adapter has performed
  cq,        \* the completion queue: whose requests
  unpolled   \* history: signaled requests nobody waited for

threadVars == <<pc, dest, left, list, counter, unpolled>>
queueVars  == <<queue, done, cq>>
vars       == <<threadVars, queueVars>>

Init ==
  /\ pc = "idle" /\ dest \in Servers /\ left = 0 /\ list = <<>>
  /\ counter = [s \in Servers |-> 0]
  /\ queue = [s \in Servers |-> <<>>]
  /\ done = [s \in Servers |-> 0]
  /\ cq = <<>>
  /\ unpolled = 0

-----------------------------------------------------------------------------
\* 0 stands for 0, n \in 1..SignalPeriod for every positive n modulo
\* SignalPeriod: "counter & SIGNAL_BATCH = 0" and "counter > 0" are all the code
\* asks.  (The mutant leaves out the wrap-around.)
NextCountUnwrapped(n) == n + 1

NextCount(n) == IF n = SignalPeriod THEN 1 ELSE n + 1

IsSignaled(n) == n \in {0, SignalPeriod}

\* Mutant of MustPoll: no completion is awaited.
MustPollNever(n) == FALSE

MustPoll(n) == n = SignalPeriod

\* One entry is taken from the completion queue; it frees the entries of its
\* send queue up to its own.
PollCompletion ==
  /\ cq # <<>>
  /\ LET s    == Head(cq)
         last == Min({i \in DOMAIN queue[s] : queue[s][i]})
     IN /\ queue' = [queue EXCEPT ![s] = SubSeq(@, last + 1, Len(@))]
        /\ done'  = [done EXCEPT ![s] = @ - last]
  /\ cq' = Tail(cq)

\* ibv_post_send: the requests that find an entry are posted, the others are
\* refused.  The caller (RdmaCall) does not look at the result.
Post(s, wrs) ==
  /\ queue' = [queue EXCEPT
                 ![s] = @ \o SubSeq(wrs, 1, Min({Len(wrs), Depth - Len(@)}))]
  /\ UNCHANGED <<done, cq>>

-----------------------------------------------------------------------------
\* A batch of n requests to s.
Batch(s, n) ==
  /\ pc = "idle"
  /\ pc' = "loop" /\ dest' = s /\ left' = n /\ list' = <<>>
  /\ UNCHANGED <<counter, unpolled, queueVars>>

\* One turn of the loop.
PrepareRequest ==
  /\ pc = "loop" /\ left > 0
  /\ IF MustPoll(counter[dest]) THEN PollCompletion ELSE UNCHANGED queueVars
  /\ list' = Append(list, IsSignaled(counter[dest]))
  /\ counter' = [counter EXCEPT ![dest] = NextCount(@)]
  /\ left' = left - 1
  /\ UNCHANGED <<pc, dest, unpolled>>

\* The loop is done: the list is posted.
PostList ==
  /\ pc = "loop" /\ left = 0
  /\ Post(dest, list)
  /\ pc' = "idle" /\ list' = <<>>
  /\ UNCHANGED <<dest, left, counter, unpolled>>

\* A verb that is always signaled, by a caller that waits for a completion ...
Single(s) ==
  /\ pc = "idle"
  /\ Post(s, <<TRUE>>)
  /\ pc' = "wait" /\ dest' = s
  /\ UNCHANGED <<left, list, counter, unpolled>>

\* ... and by one that does not, as the test client's reads and writes.
SingleUnpolled(s) ==
  /\ pc = "idle" /\ unpolled < MaxUnpolled
  /\ Post(s, <<TRUE>>)
  /\ dest' = s /\ unpolled' = unpolled + 1
  /\ UNCHANGED <<pc, left, list, counter>>

\* Mutant of Await: the entry of another server's queue pair is left where it
\* is.
AwaitOwn ==
  /\ pc = "wait" /\ cq # <<>>
  /\ IF Head(cq) = dest THEN PollCompletion /\ pc' = "idle"
                        ELSE UNCHANGED <<queueVars, pc>>
  /\ UNCHANGED <<dest, left, list, counter, unpolled>>

Await ==
  /\ pc = "wait"
  /\ PollCompletion
  /\ pc' = "idle"
  /\ UNCHANGED <<dest, left, list, counter, unpolled>>

\* The adapter performs the requests of a queue in order.
Perform(s) ==
  /\ done[s] < Len(queue[s])
  /\ done' = [done EXCEPT ![s] = @ + 1]
  /\ cq' = IF queue[s][done[s] + 1] THEN Append(cq, s) ELSE cq
  /\ UNCHANGED <<queue, threadVars>>

Next ==
  \/ \E s \in Servers :
       \/ \E n \in 1..MaxPostList : Batch(s, n)
       \/ Single(s) \/ SingleUnpolled(s) \/ Perform(s)
  \/ PrepareRequest \/ PostList \/ Await

Spec == Init /\ [][Next]_vars

\* PollCompletion spins; the adapter makes progress.
Fairness ==
  /\ WF_vars(PrepareRequest) /\ WF_vars(PostList) /\ WF_vars(Await)
  /\ \A s \in Servers : WF_vars(Perform(s))

FairSpec == Spec /\ Fairness

-----------------------------------------------------------------------------
(***************************************************************************)
(* Properties.                                                             *)
(***************************************************************************)

\* Every variable keeps its type; the adapter is never ahead of the posts.
TypeOK ==
  /\ pc \in {"idle", "loop", "wait"} /\ dest \in Servers
  /\ left \in 0..MaxPostList /\ list \in Seq(BOOLEAN)
  /\ counter \in [Servers -> 0..SignalPeriod]
  /\ queue \in [Servers -> Seq(BOOLEAN)]
  /\ \A s \in Servers : done[s] \in 0..Len(queue[s])
  /\ cq \in Seq(Servers)
  /\ unpolled \in 0..MaxUnpolled

Signaled(q) == Cardinality({i \in DOMAIN q : q[i]})
Active == Cardinality({s \in Servers : counter[s] > 0})

\* The signaled requests whose completion has not been taken are one for each
\* server that was sent a batch, one for each that nobody waited for, and the
\* one being waited for.  So the loop never waits for a completion that does not
\* come, and the completion queue (QPS_MAX_DEPTH entries) does not overflow
\* before the unpolled ones fill it.
CompletionBalance ==
  MapThenSumSet(LAMBDA s : Signaled(queue[s]), Servers) + Signaled(list)
    = Active + unpolled + (IF pc = "wait" THEN 1 ELSE 0)

\* How full a send queue gets.  The completions the thread takes may all be
\* those of the OTHER queues, one per queue, so that a queue must hold
\* SignalPeriod entries for each server and as many again, less one: with the
\* code's 32 and 128 that is enough for three servers, and not for four.
SendQueueBound ==
  \A s \in Servers :
    Len(queue[s]) + (IF dest = s THEN Len(list) ELSE 0)
      <= (Active + unpolled + 1) * SignalPeriod - 1
           + (IF pc = "wait" THEN 1 ELSE 0)

\* Every batch and every awaited verb returns.
EveryPostReturns == pc # "idle" ~> pc = "idle"
=============================================================================
