------------------------------ MODULE Adapter ------------------------------
(***************************************************************************)
(* The adapter's resources of one process: RdmaSocket::CreateResources,    *)
(* the queue pairs of each connection (CreateQueuePair, ModifyQPto...,     *)
(* within ConnectQueuePair), and ResourcesDestroy.  Every call of the      *)
(* verbs library may fail.                                                 *)
(*                                                                         *)
(* The constructor ignores the result of CreateResources, the members ctx, *)
(* pd and mr have no initial value, and neither have the array peers[] and *)
(* the queue pairs of a PeerSockData (malloc): "wild" is a pointer to      *)
(* nothing, because it was never set or because what it pointed to is      *)
(* gone.  Using a wild pointer, or giving the library a null one, ends the *)
(* process.                                                                *)
(*                                                                         *)
(* A client connects to the servers in its only thread and destroys the    *)
(* socket after that.  A server has a Listener thread, which is detached   *)
(* and not stopped when the socket is destroyed.                           *)
(***************************************************************************)
EXTENDS Naturals

CONSTANTS
  Peers,        \* the nodes a process connects to or accepts
  ServerPeers,  \* those that are servers (NodeIDs 1..ServerCount)
  Accepted,     \* those that a SERVER accepts rather than connects to
  CqNum,        \* cqNum
  QpNumber      \* QP_NUMBER

ASSUME AdapterAssumption ==
  /\ ServerPeers \subseteq Peers /\ Accepted \subseteq Peers
  /\ Peers \ ServerPeers \subseteq Accepted
  /\ CqNum \in Nat \ {0} /\ QpNumber \in Nat /\ QpNumber > 2

Cqs     == 0..(CqNum - 1)
Qps     == 0..(QpNumber - 1)
QpState == {"null", "wild", "RESET", "INIT", "RTR", "RTS"}
Pointer == {"null", "wild", "open"}

VARIABLES
  isServer,  \* which kind of process it is
  fresh,     \* what memory that was never set reads as: null or wild
  stage,     \* where CreateResources or ResourcesDestroy is
  list,      \* the device list is allocated
  ctx, pd, mr, cq,
  step,      \* step[p]: where ConnectQueuePair is for p; then "known" (p is
             \* in peers[]), "lost" (it failed) or "freed"
  qp,        \* qp[p]: the queue pairs of p's PeerSockData
  fault,     \* the process has crashed
  failed     \* history: "create" CreateResources, "qp" ibv_create_qp failed

resVars  == <<list, ctx, pd, mr, cq>>
peerVars == <<step, qp>>
vars     == <<isServer, fresh, stage, resVars, peerVars, fault, failed>>

Init ==
  /\ isServer \in BOOLEAN /\ fresh \in {"null", "wild"}
  /\ stage = "device" /\ list = FALSE
  /\ ctx = fresh /\ pd = fresh /\ mr = fresh
  /\ cq = [i \in Cqs |-> "null"]
  /\ step = [p \in Peers |-> "none"]
  /\ qp = [p \in Peers |-> [k \in Qps |-> fresh]]
  /\ fault = FALSE /\ failed = {}

-----------------------------------------------------------------------------
(***************************************************************************)
(* CreateResources.                                                        *)
(***************************************************************************)

\* if (x) release(x); a member keeps its value.
Release(x) == IF x = "open" THEN "wild" ELSE x

\* The rest of the cleanup, once the domain is d: the device and the list go,
\* unless the domain or the device was a wild pointer, and the process ended
\* there.
CloseAndFree(c, d) ==
  /\ failed' = failed \cup {"create"}
  /\ \/ "wild" \in {c, d} /\ fault' = TRUE /\ ctx' = c /\ UNCHANGED <<list, stage>>
     \/ /\ "wild" \notin {c, d} /\ fault' = FALSE
        /\ ctx' = "null" /\ list' = FALSE /\ stage' = "failed"

\* Mutant of Cleanup: without the lines that deallocate the domain.
CleanupKeepsDomain(c, d, q) ==
  /\ cq' = [i \in DOMAIN q |-> Release(q[i])]
  /\ pd' = d
  /\ CloseAndFree(c, "null")

\* Mutant of Cleanup: its loop goes to cqNum inclusive.
CleanupBeyond(c, d, q) ==
  /\ cq' = [i \in 0..CqNum |-> IF i = CqNum THEN "wild" ELSE Release(q[i])]
  /\ pd' = IF d = "wild" THEN d ELSE "null"
  /\ CloseAndFree(c, d)

\* CreateResourcesExit after an error: what is open is released, in this order.
\* The completion queues' pointers are not reset, and whether the domain and
\* the device are open is read off members that may never have been set.
Cleanup(c, d, q) ==
  /\ cq' = [i \in DOMAIN q |-> Release(q[i])]
  /\ pd' = IF d = "wild" THEN d ELSE "null"
  /\ CloseAndFree(c, d)

GetDevice ==
  /\ stage = "device"
  /\ \/ stage' = "open" /\ list' = TRUE /\ UNCHANGED <<ctx, pd, cq, fault, failed>>
     \/ Cleanup(ctx, pd, cq)
  /\ UNCHANGED <<isServer, fresh, mr, peerVars>>

OpenDevice ==
  /\ stage = "open"
  /\ \/ /\ stage' = "port" /\ ctx' = "open" /\ list' = FALSE
        /\ UNCHANGED <<pd, cq, fault, failed>>
     \/ Cleanup("null", pd, cq)
  /\ UNCHANGED <<isServer, fresh, mr, peerVars>>

QueryPort ==
  /\ stage = "port"
  /\ \/ stage' = "cq" /\ UNCHANGED <<list, ctx, pd, cq, fault, failed>>
     \/ Cleanup(ctx, pd, cq)
  /\ UNCHANGED <<isServer, fresh, mr, peerVars>>

\* One turn of the loop over the completion queues.
CreateCq ==
  /\ stage = "cq"
  /\ \/ \E i \in Cqs :
          /\ cq[i] = "null" /\ \A j \in Cqs : j < i => cq[j] = "open"
          /\ cq' = [cq EXCEPT ![i] = "open"]
          /\ stage' = IF i + 1 = CqNum THEN "pd" ELSE "cq"
          /\ UNCHANGED <<list, ctx, pd, fault, failed>>
     \/ Cleanup(ctx, pd, cq)
  /\ UNCHANGED <<isServer, fresh, mr, peerVars>>

AllocPd ==
  /\ stage = "pd"
  /\ \/ stage' = "mr" /\ pd' = "open" /\ UNCHANGED <<list, ctx, cq, fault, failed>>
     \/ Cleanup(ctx, "null", cq)
  /\ UNCHANGED <<isServer, fresh, mr, peerVars>>

RegMr ==
  /\ stage = "mr"
  /\ \/ /\ stage' = "created" /\ mr' = "open"
        /\ UNCHANGED <<list, ctx, pd, cq, fault, failed>>
     \/ mr' = "null" /\ Cleanup(ctx, pd, cq)
  /\ UNCHANGED <<isServer, fresh, peerVars>>

-----------------------------------------------------------------------------
(***************************************************************************)
(* ConnectQueuePair, in the thread that connects (RdmaConnect of a client, *)
(* ServerConnect of a server) or in a server's Listener.                   *)
(***************************************************************************)

Listens(p) == isServer /\ p \in Accepted
InProgress == {"create", "meta", "modify"}
Busy(p)    == \E q \in Peers : step[q] \in InProgress /\ Listens(q) = Listens(p)

\* The connecting thread gives up at the first failure; the Listener goes on.
GivenUp == \E q \in Peers : ~Listens(q) /\ step[q] = "lost"

Constructed == stage \notin {"device", "open", "port", "cq", "pd", "mr"}

\* Mutant of Width: the third queue pair is for clients that connect to a
\* server, and not for a client itself.
WidthByPeer(p) == IF p \in ServerPeers THEN 2 ELSE QpNumber

\* How many queue pairs are made: two between servers, else QP_NUMBER.
Width(p) == IF isServer /\ p \in ServerPeers THEN 2 ELSE QpNumber

Advance(p, to) == step' = [step EXCEPT ![p] = to]

Die == fault' = TRUE /\ UNCHANGED peerVars

\* The connection and the exchange of IDs, which may fail.
ExchangeID(p) ==
  /\ Constructed /\ step[p] = "none" /\ ~Busy(p)
  /\ isServer \/ p \in ServerPeers
  /\ Listens(p) \/ (stage \in {"created", "failed"} /\ ~GivenUp)
  /\ Advance(p, "create") \/ Advance(p, "lost")
  /\ UNCHANGED <<isServer, fresh, stage, resVars, qp, fault, failed>>

\* k is the first queue pair of p that is not in state s.
NextOf(p, k, s) ==
  qp[p][k] # s /\ \A j \in Qps : j < k => qp[p][j] = s

\* CreateQueuePair for the next queue pair.  Its number is printed before it is
\* looked at whether there is one.
CreateQueuePair(p) ==
  /\ step[p] = "create"
  /\ \/ /\ pd = "open"
        /\ \E k \in Qps :
             /\ NextOf(p, k, "RESET")
             /\ qp' = [qp EXCEPT ![p][k] = "RESET"]
             /\ Advance(p, IF k + 1 = Width(p) THEN "meta" ELSE "create")
        /\ UNCHANGED <<fault, failed>>
     \/ Die /\ failed' = IF pd = "open" THEN failed \cup {"qp"} ELSE failed
  /\ UNCHANGED <<isServer, fresh, stage, resVars>>

\* ibv_query_gid, mr->rkey and the exchange of ExchangeMeta.
ExchangeMeta(p) ==
  /\ step[p] = "meta"
  /\ IF ctx # "open" \/ mr # "open" THEN Die ELSE
     /\ Advance(p, "modify") \/ Advance(p, "lost")
     /\ UNCHANGED <<qp, fault>>
  /\ UNCHANGED <<isServer, fresh, stage, resVars, failed>>

NextState == [s \in {"RESET", "INIT", "RTR"} |->
                CASE s = "RESET" -> "INIT" [] s = "INIT" -> "RTR" [] s = "RTR" -> "RTS"]

\* ModifyQPtoInit, ModifyQPtoRTR and ModifyQPtoRTS of one queue pair after the
\* other; ConnectQueuePair gives up at the first that fails.
ModifyQP(p) ==
  /\ step[p] = "modify"
  /\ \E k \in 0..(Width(p) - 1) :
       /\ NextOf(p, k, "RTS")
       /\ \/ qp' = [qp EXCEPT ![p][k] = NextState[@]] /\ UNCHANGED step
          \/ Advance(p, "lost") /\ UNCHANGED qp
  /\ UNCHANGED <<isServer, fresh, stage, resVars, fault, failed>>

\* Mutant of Record: the results of ModifyQPto... are not looked at.
RecordAnyway(p) ==
  /\ step[p] = "lost"
  /\ Advance(p, "known")
  /\ UNCHANGED <<isServer, fresh, stage, resVars, qp, fault, failed>>

\* peers[peer->NodeID] = peer.
Record(p) ==
  /\ step[p] = "modify" /\ \A k \in 0..(Width(p) - 1) : qp[p][k] = "RTS"
  /\ Advance(p, "known")
  /\ UNCHANGED <<isServer, fresh, stage, resVars, qp, fault, failed>>

-----------------------------------------------------------------------------
(***************************************************************************)
(* The destructor: ResourcesDestroy.                                       *)
(***************************************************************************)

ConnectEnded ==
  \A p \in Peers :
    Listens(p) \/ GivenUp \/ step[p] = "known" \/ (~isServer /\ p \notin ServerPeers)

\* An entry of peers[] for a server that is not known was never set; a server's
\* entry for itself never is.
UnsetPeer == isServer \/ \E p \in ServerPeers : step[p] # "known"

\* Mutant of DestroyPeers: only the two queue pairs every peer has.
DestroyPairs ==
  /\ stage \in {"created", "failed"} /\ ConnectEnded
  /\ LET gone == {p \in ServerPeers : step[p] = "known"} IN
     /\ fault' = \/ UnsetPeer /\ fresh = "wild"
                 \/ \E p \in gone : \E k \in 0..1 : qp[p][k] = "wild"
     /\ qp' = [p \in Peers |-> IF p \in gone
                 THEN [k \in Qps |-> IF k < 2 THEN "null" ELSE qp[p][k]] ELSE qp[p]]
     /\ step' = [p \in Peers |-> IF p \in gone THEN "freed" ELSE step[p]]
  /\ stage' = "mr?"
  /\ UNCHANGED <<isServer, fresh, resVars, failed>>

\* All QP_NUMBER queue pairs of the servers in peers[], those never made too;
\* clients are passed over.
DestroyPeers ==
  /\ stage \in {"created", "failed"} /\ ConnectEnded
  /\ LET gone == {p \in ServerPeers : step[p] = "known"} IN
     /\ fault' = \/ UnsetPeer /\ fresh = "wild"
                 \/ \E p \in gone : \E k \in Qps : qp[p][k] = "wild"
     /\ qp' = [p \in Peers |-> IF p \in gone THEN [k \in Qps |-> "null"] ELSE qp[p]]
     /\ step' = [p \in Peers |-> IF p \in gone THEN "freed" ELSE step[p]]
  /\ stage' = "mr?"
  /\ UNCHANGED <<isServer, fresh, resVars, failed>>

DeregMr ==
  /\ stage = "mr?"
  /\ mr' = Release(mr) /\ fault' = (mr = "wild")
  /\ stage' = "pd?"
  /\ UNCHANGED <<isServer, fresh, list, ctx, pd, cq, peerVars, failed>>

\* The library keeps a domain that still has a queue pair.
LiveQps == {pk \in Peers \X Qps : qp[pk[1]][pk[2]] \notin {"null", "wild"}}

DeallocPd ==
  /\ stage = "pd?"
  /\ pd' = IF LiveQps = {} THEN Release(pd) ELSE pd
  /\ fault' = (pd = "wild")
  /\ stage' = "ctx?"
  /\ UNCHANGED <<isServer, fresh, list, ctx, mr, cq, peerVars, failed>>

CloseDevice ==
  /\ stage = "ctx?"
  /\ ctx' = Release(ctx) /\ fault' = (ctx = "wild")
  /\ stage' = "gone"
  /\ UNCHANGED <<isServer, fresh, list, pd, mr, cq, peerVars, failed>>

Create  == GetDevice \/ OpenDevice \/ QueryPort \/ CreateCq \/ AllocPd \/ RegMr
Connect(p) ==
  ExchangeID(p) \/ CreateQueuePair(p) \/ ExchangeMeta(p) \/ ModifyQP(p) \/ Record(p)
Destroy == DestroyPeers \/ DeregMr \/ DeallocPd \/ CloseDevice

Next == ~fault /\ (Create \/ Destroy \/ \E p \in Peers : Connect(p))

Spec == Init /\ [][Next]_vars

-----------------------------------------------------------------------------
(***************************************************************************)
(* Properties.                                                             *)
(***************************************************************************)

\* Every variable keeps its type.
TypeOK ==
  /\ {isServer, list, fault} \subseteq BOOLEAN
  /\ fresh \in {"null", "wild"}
  /\ {ctx, pd, mr} \subseteq Pointer
  /\ cq \in [Cqs -> Pointer]
  /\ stage \in {"device", "open", "port", "cq", "pd", "mr", "created", "failed",
                "mr?", "pd?", "ctx?", "gone"}
  /\ step \in [Peers -> InProgress \cup {"none", "known", "lost", "freed"}]
  /\ qp \in [Peers -> [Qps -> QpState]]
  /\ failed \subseteq {"create", "qp"}

\* Who is in peers[] can be used: whatever failed on the way there, all queue
\* pairs the code will post on are ready to send, and the protection domain and
\* the completion queues they belong to are there.
ReadyPeers ==
  \A p \in Peers : step[p] = "known" =>
    /\ \A k \in 0..(Width(p) - 1) : qp[p][k] = "RTS"
    /\ pd = "open" /\ \A i \in DOMAIN cq : cq[i] = "open"

\* CreateResources leaves nothing open when it returns false, whichever call
\* failed.  (It need not return: the cleanup may crash, see Crashes.)
FailureLeavesNothing ==
  stage = "failed" =>
    /\ ~list
    /\ "open" \notin {ctx, pd, mr} \cup {cq[i] : i \in DOMAIN cq}

\* A client that has made all its connections and destroys its socket gives
\* back its queue pairs, memory region, protection domain and device.  (The
\* completion queues stay, their release is commented out.)
ClientGivesBack ==
  ~isServer /\ stage = "gone" /\ ~GivenUp =>
    LiveQps = {} /\ "open" \notin {mr, pd, ctx}

\* What a process crashes of: resources that could not be created, which the
\* constructor does not look at; a queue pair that could not be created; or
\* destroying the socket, if it is a server (it reads queue pairs it never made
\* and its own entry of peers[]) or a client that is not connected to all
\* servers.  No other failure crashes it, nor does the destructor of a client
\* that has made all its connections.
Crashes ==
  fault => \/ failed # {}
           \/ stage \notin {"created", "failed"} /\ (isServer \/ GivenUp)
=============================================================================
