----------------------------- MODULE Connection -----------------------------
(***************************************************************************)
(* How nodes find each other: RdmaSocket::RdmaListen, ServerConnect,       *)
(* RdmaConnect, SocketConnect, the Listener thread (RdmaAccept),           *)
(* ConnectQueuePair and DataSyncwithSocket.                                *)
(*                                                                         *)
(* A client connects to server 1 and then to the other servers, a server   *)
(* to the servers before it.  Over each TCP connection the two ends        *)
(* exchange an ExchangeID and then an ExchangeMeta.  Server 1 names the    *)
(* clients: it sends every connecting node the next NodeID, and a client   *)
(* takes it.  Each server has one Listener thread, which makes one         *)
(* connection at a time; its reads have no timeout, those of the           *)
(* connecting side give up after 3 seconds, at any time in the model.      *)
(***************************************************************************)
EXTENDS Naturals, Sequences, FiniteSets

CONSTANTS
  ServerCount,  \* servers are the NodeIDs 1..ServerCount
  Clients,
  CqNum,        \* completion queues of a server
  MayCrash      \* clients that may die

Servers    == 1..ServerCount
Nodes      == Servers \cup Clients
Links      == Nodes \X Servers    \* connecting node, accepting server
NodeIDs    == 1..(ServerCount + Cardinality(Clients))

ASSUME ConnectionAssumption ==
  /\ ServerCount \in Nat \ {0} /\ CqNum \in Nat /\ CqNum > 1
  /\ IsFiniteSet(Clients) /\ Clients \cap Nat = {}
  /\ MayCrash \subseteq Clients

NoPeer   == [node |-> {}, cq |-> 0]
\* A peers[] entry: the node at the other end (as a set) and its queue.
PeerData == [node : {{n} : n \in Nodes} \cup {{}}, cq : 0..(CqNum - 1)]
Message  == [kind : {"id", "meta"}, id : 0..(ServerCount + Cardinality(Clients) + 1),
             isServer : BOOLEAN]

VARIABLES
  \* the connecting side: the thread that constructs a client or a server
  phase,      \* where node n is
  remaining,  \* servers it has still to connect to
  target,     \* the server it is connecting to
  myNodeID,   \* MyNodeID of a client, 0 before it is given one
  \* the Listener of server s
  listener,   \* where it is
  peer,       \* the connection it is making: the node and its NodeID
  maxNodeID,  \* MaxNodeID of server 1
  cqPtr,
  \* shared by both in a server
  peers,      \* peers[n][i]: what node n knows of NodeID i
  \* TCP
  backlog,    \* connections of s to be accepted
  toServer, toNode  \* bytes on a connection not yet read

connVars   == <<phase, remaining, target, myNodeID>>
listenVars == <<listener, peer, maxNodeID, cqPtr>>
vars == <<connVars, listenVars, peers, backlog, toServer, toNode>>

Init ==
  /\ phase = [n \in Nodes |-> IF n \in Servers THEN "down" ELSE "connect"]
  /\ remaining = [n \in Nodes |-> IF n \in Clients THEN Servers ELSE 1..(n - 1)]
  /\ target = [n \in Nodes |-> 1]
  /\ myNodeID = [c \in Clients |-> 0]
  /\ listener = [s \in Servers |-> "accept"]
  /\ peer = [s \in Servers |-> [node |-> s, id |-> 0, cq |-> 0]]
  /\ maxNodeID = ServerCount + 1
  /\ cqPtr = [s \in Servers |-> 0]
  /\ peers = [n \in Nodes |-> [i \in NodeIDs |-> NoPeer]]
  /\ backlog = [s \in Servers |-> <<>>]
  /\ toServer = [l \in Links |-> <<>>] /\ toNode = [l \in Links |-> <<>>]

IdMessage(i, b) == [kind |-> "id", id |-> i, isServer |-> b]
MetaMessage     == [kind |-> "meta", id |-> 0, isServer |-> FALSE]

Goto(n, p) == phase' = [phase EXCEPT ![n] = p]

-----------------------------------------------------------------------------
(***************************************************************************)
(* The connecting side.                                                    *)
(***************************************************************************)

\* RdmaListen of server s: it listens, then connects to the servers before it.
Start(s) ==
  /\ phase[s] = "down"
  /\ Goto(s, IF remaining[s] = {} THEN "done" ELSE "connect")
  /\ UNCHANGED <<remaining, target, myNodeID, listenVars, peers, backlog,
                 toServer, toNode>>

\* Mutant of Next1: the servers in any order.
AnyServer(n, s) == s \in remaining[n]

\* A client begins with server 1; the rest is in the order of a hash map.
Next1(n, s) == s \in remaining[n] /\ (n \in Clients /\ 1 \in remaining[n] => s = 1)

SocketConnect(n, s) ==
  /\ phase[n] = "connect" /\ Next1(n, s) /\ phase[s] # "down"
  /\ Goto(n, "greet")
  /\ target' = [target EXCEPT ![n] = s]
  /\ backlog' = [backlog EXCEPT ![s] = Append(@, n)]
  /\ UNCHANGED <<remaining, myNodeID, listenVars, peers, toServer, toNode>>

\* The server is not up after four attempts: RdmaConnect or ServerConnect
\* returns.
ConnectFails(n, s) ==
  /\ phase[n] = "connect" /\ Next1(n, s) /\ phase[s] = "down"
  /\ Goto(n, "failed")
  /\ UNCHANGED <<remaining, target, myNodeID, listenVars, peers, backlog,
                 toServer, toNode>>

Link(n) == <<n, target[n]>>

WriteID(n) ==
  /\ phase[n] = "greet"
  /\ LET id == IF n \in Clients THEN myNodeID[n] ELSE n IN
     toServer' = [toServer EXCEPT ![Link(n)] = Append(@, IdMessage(id, n \in Servers))]
  /\ Goto(n, "id")
  /\ UNCHANGED <<remaining, target, myNodeID, listenVars, peers, backlog, toNode>>

\* Mutant of TakeID: whatever the server gave, 0 (none) as well.
TakeAnyID(n, given) == IF n \in Clients THEN [myNodeID EXCEPT ![n] = given] ELSE myNodeID

TakeID(n, given) ==
  IF n \in Clients /\ given # 0 THEN [myNodeID EXCEPT ![n] = given] ELSE myNodeID

\* The server's ExchangeID is here: take the given NodeID, create the queue
\* pairs and write the ExchangeMeta.
ReadID(n) ==
  /\ phase[n] = "id" /\ toNode[Link(n)] # <<>>
  /\ myNodeID' = TakeID(n, Head(toNode[Link(n)]).id)
  /\ toNode'   = [toNode EXCEPT ![Link(n)] = Tail(@)]
  /\ toServer' = [toServer EXCEPT ![Link(n)] = Append(@, MetaMessage)]
  /\ Goto(n, "meta")
  /\ UNCHANGED <<remaining, target, listenVars, peers, backlog>>

\* The server's ExchangeMeta is here: the queue pairs are connected and the
\* server is in peers[].
ReadMeta(n) ==
  /\ phase[n] = "meta" /\ toNode[Link(n)] # <<>>
  /\ toNode' = [toNode EXCEPT ![Link(n)] = Tail(@)]
  /\ peers' = [peers EXCEPT ![n][target[n]] = [node |-> {target[n]}, cq |-> 0]]
  /\ remaining' = [remaining EXCEPT ![n] = @ \ {target[n]}]
  /\ Goto(n, IF remaining'[n] = {} THEN "done" ELSE "connect")
  /\ UNCHANGED <<target, myNodeID, listenVars, backlog, toServer>>

\* Mutant of Timeout: the timeout is set in RdmaConnect, not in ServerConnect.
TimeoutOfClient(n) ==
  /\ n \in Clients
  /\ phase[n] \in {"id", "meta"} /\ toNode[Link(n)] = <<>>
  /\ Goto(n, "failed")
  /\ UNCHANGED <<remaining, target, myNodeID, listenVars, peers, backlog,
                 toServer, toNode>>

\* SO_RCVTIMEO: RdmaConnect or ServerConnect returns, the socket stays open.
Timeout(n) ==
  /\ phase[n] \in {"id", "meta"} /\ toNode[Link(n)] = <<>>
  /\ Goto(n, "failed")
  /\ UNCHANGED <<remaining, target, myNodeID, listenVars, peers, backlog,
                 toServer, toNode>>

\* A client dies; the kernel closes its sockets.
Crash(c) ==
  /\ c \in MayCrash /\ phase[c] # "crashed"
  /\ Goto(c, "crashed")
  /\ UNCHANGED <<remaining, target, myNodeID, listenVars, peers, backlog,
                 toServer, toNode>>

-----------------------------------------------------------------------------
(***************************************************************************)
(* The Listener thread of server s.                                        *)
(***************************************************************************)

\* accept, and the first half of the exchange of ExchangeIDs: only server 1
\* gives a NodeID, to whoever it is that connects.
Accept(s) ==
  /\ phase[s] # "down" /\ listener[s] = "accept" /\ backlog[s] # <<>>
  /\ LET n == Head(backlog[s]) IN
     /\ peer' = [peer EXCEPT ![s].node = n]
     /\ toNode' = [toNode EXCEPT ![<<n, s>>] =
          Append(@, IdMessage(IF s = 1 THEN maxNodeID ELSE 0, TRUE))]
  /\ backlog' = [backlog EXCEPT ![s] = Tail(@)]
  /\ listener' = [listener EXCEPT ![s] = "id"]
  /\ UNCHANGED <<connVars, maxNodeID, cqPtr, peers, toServer>>

Received(s) == toServer[<<peer[s].node, s>>]
Consume(s)  == toServer' = [toServer EXCEPT ![<<peer[s].node, s>>] = Tail(@)]

NextCq(s) == IF cqPtr[s] + 1 >= CqNum THEN 1 ELSE cqPtr[s] + 1

\* Mutants of NameClient: MaxNodeID is not incremented; it is for servers too.
NameClientAgain(s, m) == UNCHANGED maxNodeID
NameAnyone(s, m) == maxNodeID' = IF s = 1 THEN maxNodeID + 1 ELSE maxNodeID

\* NodeIDs are given to clients, in the order they connect to server 1.
NameClient(s, m) ==
  maxNodeID' = IF s = 1 /\ ~m.isServer THEN maxNodeID + 1 ELSE maxNodeID

\* The node's ExchangeID is here.  Server 1 names a client itself; the queue
\* pairs of servers are on queue 0, those of clients on the others in turn.
ListenID(s) ==
  /\ listener[s] = "id" /\ Received(s) # <<>>
  /\ LET m  == Head(Received(s))
         id == IF ~m.isServer /\ s = 1 THEN maxNodeID ELSE m.id
     IN /\ NameClient(s, m)
        /\ cqPtr' = IF id \in Servers THEN cqPtr ELSE [cqPtr EXCEPT ![s] = NextCq(s)]
        /\ peer'  = [peer EXCEPT ![s].id = id,
                                 ![s].cq = IF id \in Servers THEN 0 ELSE cqPtr'[s]]
  /\ Consume(s)
  /\ toNode' = [toNode EXCEPT ![<<peer[s].node, s>>] = Append(@, MetaMessage)]
  /\ listener' = [listener EXCEPT ![s] = "meta"]
  /\ UNCHANGED <<connVars, peers, backlog>>

\* The node's ExchangeMeta is here: the node is in peers[], receives are
\* posted, and the Listener accepts again.
ListenMeta(s) ==
  /\ listener[s] = "meta" /\ Received(s) # <<>>
  /\ Consume(s)
  /\ peers' = [peers EXCEPT ![s][peer[s].id] = [node |-> {peer[s].node}, cq |-> peer[s].cq]]
  /\ listener' = [listener EXCEPT ![s] = "accept"]
  /\ UNCHANGED <<connVars, peer, maxNodeID, cqPtr, backlog, toNode>>

\* The node has died: read returns -1 (reset), and the Listener accepts again
\* ...
ListenReset(s) ==
  /\ listener[s] \in {"id", "meta"} /\ phase[peer[s].node] = "crashed"
  /\ listener' = [listener EXCEPT ![s] = "accept"]
  /\ UNCHANGED <<connVars, peer, maxNodeID, cqPtr, peers, backlog, toServer, toNode>>

\* ... or 0 (end of file), which DataSyncwithSocket takes for nothing read yet:
\* it reads again, for ever.
ListenEOF(s) ==
  /\ listener[s] \in {"id", "meta"} /\ phase[peer[s].node] = "crashed"
  /\ Received(s) = <<>>
  /\ listener' = [listener EXCEPT ![s] = "spin"]
  /\ UNCHANGED <<connVars, peer, maxNodeID, cqPtr, peers, backlog, toServer, toNode>>

-----------------------------------------------------------------------------
NodeStep(n) ==
  \/ \E s \in Servers : SocketConnect(n, s) \/ ConnectFails(n, s)
  \/ WriteID(n) \/ ReadID(n) \/ ReadMeta(n) \/ Timeout(n)

ListenStep(s) == Accept(s) \/ ListenID(s) \/ ListenMeta(s) \/ ListenReset(s) \/ ListenEOF(s)

Next ==
  \/ \E s \in Servers : Start(s) \/ ListenStep(s)
  \/ \E n \in Nodes : NodeStep(n)
  \/ \E c \in Clients : Crash(c)

Spec == Init /\ [][Next]_vars

\* Threads that can take a step take one, and a read that gets nothing times out.
Fairness ==
  /\ \A n \in Nodes : WF_vars(NodeStep(n))
  /\ \A s \in Servers : WF_vars(ListenStep(s))

FairSpec == Spec /\ Fairness

-----------------------------------------------------------------------------
(***************************************************************************)
(* Properties.                                                             *)
(***************************************************************************)

\* Every variable keeps its type.
TypeOK ==
  /\ phase \in [Nodes -> {"down", "connect", "greet", "id", "meta", "done",
                          "failed", "crashed"}]
  /\ remaining \in [Nodes -> SUBSET Servers] /\ target \in [Nodes -> Servers]
  /\ myNodeID \in [Clients -> NodeIDs \cup {0}]
  /\ listener \in [Servers -> {"accept", "id", "meta", "spin"}]
  /\ peer \in [Servers -> [node : Nodes, id : NodeIDs \cup {0}, cq : 0..(CqNum - 1)]]
  /\ maxNodeID \in NodeIDs \cup {ServerCount + Cardinality(Clients) + 1}
  /\ cqPtr \in [Servers -> 0..(CqNum - 1)]
  /\ peers \in [Nodes -> [NodeIDs -> PeerData]]
  /\ backlog \in [Servers -> Seq(Nodes)]
  /\ toServer \in [Links -> Seq(Message)] /\ toNode \in [Links -> Seq(Message)]

Knows(n, i, m) == peers[n][i].node = {m}

\* No two clients alive go by one NodeID, and none goes by a server's.  (Of a
\* client that dies half-way the NodeID may be given again.)
UniqueNodeIDs ==
  /\ \A c, d \in {n \in Clients : phase[n] # "crashed"} :
       myNodeID[c] = myNodeID[d] /\ myNodeID[c] # 0 => c = d
  /\ \A c \in Clients : myNodeID[c] \notin Servers

\* peers[] of every server has each node where the node's own messages say it
\* is: RequestPoller finds a sender by the NodeID in its immediate data.
Ownership ==
  \A s \in Servers, i \in NodeIDs, n \in Nodes :
    Knows(s, i, n) => i = (IF n \in Clients THEN myNodeID[n] ELSE n)

\* Servers talk over queue 0 only, clients never do.
QueueZero ==
  \A s \in Servers, i \in NodeIDs :
    peers[s][i].node # {} => (peers[s][i].cq = 0 <=> i \in Servers)

\* A client that has connected to a server is or will be known to it.
Joined ==
  \A c \in Clients \ MayCrash, s \in Servers :
    Knows(c, s, s) ~> (\E i \in NodeIDs : myNodeID[c] = i /\ Knows(s, i, c))

\* RdmaConnect and ServerConnect return.
ConnectReturns ==
  \A n \in Nodes : phase[n] # "down" ~> phase[n] \in {"done", "failed", "crashed"}

\* The Listener accepts connections again and again, whatever a client does.
ListenerAccepts == \A s \in Servers : []<>(listener[s] = "accept")
=============================================================================
