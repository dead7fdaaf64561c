-------------------------- MODULE ConnectionProofs --------------------------
(***************************************************************************)
(* Proofs about Connection, for every number of servers, clients and       *)
(* completion queues, and for clients that die at any time.                *)
(*                                                                         *)
(* The inductive invariant follows one connection at a time: where it is   *)
(* on either side (OnceAt), what of it the server has not read (BytesAt),  *)
(* and that both sides come to the same NodeID (AgreedAt).  Over all       *)
(* connections no two clients alive claim one NodeID (Unclaimed).          *)
(***************************************************************************)
EXTENDS Connection, TLAPS, FiniteSetTheorems

\* The connection of node n to server s on n's side: not begun; about to write its
\* ExchangeID; waiting for the server's.
Over(n)         == phase[n] \in {"failed", "crashed"}
Engaged(n)      == phase[n] \in {"greet", "id", "meta"}
Untouched(n, s) == s \in remaining[n] /\ ~Over(n) /\ ~(Engaged(n) /\ target[n] = s)
Greeting(n, s)  == phase[n] = "greet" /\ target[n] = s
Asking(n, s)    == phase[n] = "id" /\ target[n] = s

\* On the server's side: not accepted; waiting for the ExchangeID; for the
\* ExchangeMeta.
Queued(n, s)  == \E k \in 1..Len(backlog[s]) : backlog[s][k] = n
Greeted(n, s) == listener[s] = "id" /\ peer[s].node = n
Reading(n, s) == listener[s] = "meta" /\ peer[s].node = n

\* A connection is made once, the Listener has it in one place, and a node that
\* waits has one to wait for.
OnceAt(n, s) ==
  /\ Untouched(n, s) =>
       /\ toServer[<<n, s>>] = <<>> /\ toNode[<<n, s>>] = <<>>
       /\ ~Queued(n, s) /\ ~Greeted(n, s) /\ ~Reading(n, s)
  /\ Queued(n, s) => toNode[<<n, s>>] = <<>> /\ ~Greeted(n, s) /\ ~Reading(n, s)
  /\ Greeting(n, s) => Queued(n, s) \/ Greeted(n, s)
  /\ Asking(n, s) => Queued(n, s) \/ Greeted(n, s) \/ Reading(n, s)
NoTwice == \A s \in Servers, j, k \in Nat :
  j \in 1..Len(backlog[s]) /\ k \in 1..Len(backlog[s]) /\ backlog[s][j] = backlog[s][k]
    => j = k

\* What s has not read of it: the ExchangeID first, and no more than the two
\* messages.
IsId(m, n) == (m.isServer <=> n \in Servers) /\ (n \in Servers => m.id = n)
BytesAt(n, s) ==
  LET q == toServer[<<n, s>>] IN
  /\ Queued(n, s) => Len(q) <= 1
  /\ Queued(n, s) \/ Greeted(n, s) => Len(q) <= 2 /\ (q # <<>> => IsId(q[1], n))
  /\ Reading(n, s) => Len(q) <= 1 /\ (n \in Servers => peer[s].id = n)
  /\ Greeting(n, s) => q = <<>>
  /\ Asking(n, s) => Len(q) = IF Reading(n, s) THEN 0 ELSE 1

\* The NodeID a client and the server have of it: server 1 offers one and will
\* have the same in peers[], the others believe the client.
AgreedAt(c, s) ==
  LET q == toServer[<<c, s>>] a == toNode[<<c, s>>] IN
  IF s = 1
  THEN /\ (Greeting(c, s) \/ Asking(c, s)) /\ Greeted(c, s) => a # <<>> /\ a[1].id = maxNodeID
       /\ Asking(c, s) /\ Reading(c, s) => a # <<>> /\ a[1].id = peer[s].id
       /\ Greeted(c, s) /\ Len(q) = 2 => myNodeID[c] = maxNodeID
       /\ Reading(c, s) /\ Len(q) = 1 => myNodeID[c] = peer[s].id
       /\ Reading(c, s) => peer[s].id # 0
  ELSE /\ \A k \in 1..Len(a) : a[k].id = 0
       /\ (Queued(c, s) \/ Greeted(c, s)) /\ q # <<>> => q[1].id = myNodeID[c]
       /\ Reading(c, s) => peer[s].id = myNodeID[c]

AllLinks ==
  \A n \in Nodes, s \in Servers :
    OnceAt(n, s) /\ BytesAt(n, s) /\ (n \in Clients => AgreedAt(n, s))

\* A client begins with server 1 and finishes with it before another.
Order ==
  /\ \A n \in Nodes : Engaged(n) => target[n] \in remaining[n]
  /\ \A c \in Clients :
       1 \in remaining[c] => remaining[c] = Servers /\ (Engaged(c) => target[c] = 1)

\* The NodeIDs a client has or has been offered are no server's and below the next
\* one, which is claimed at most by the client the Listener of server 1 is talking
\* to; and no two claim the same.
Claims(c, i) ==
  i # 0 /\ (myNodeID[c] = i
            \/ \E k \in 1..Len(toNode[<<c, 1>>]) : toNode[<<c, 1>>][k].id = i)
Alive(c) == phase[c] # "crashed"
Unclaimed ==
  /\ \A c \in Clients, i \in Nat : Claims(c, i) => i \in NodeIDs \ Servers
  /\ \A c \in Clients, i \in Nat :
       Alive(c) /\ Claims(c, i) => i < maxNodeID \/ (i = maxNodeID /\ Greeted(c, 1))
  /\ \A c, d \in Clients, i \in Nat :
       Alive(c) /\ Alive(d) /\ Claims(c, i) /\ Claims(d, i) => c = d

\* There are no more NodeIDs than clients: each named one was named once.
Named ==
  \E N \in SUBSET Clients :
    /\ maxNodeID = ServerCount + 1 + Cardinality(N)
    /\ \A c \in N : ~Queued(c, 1) /\ ~Greeted(c, 1) /\ ~Untouched(c, 1)

\* Whom a server has in peers[] it has where he is, and a client there has got as
\* far as its ExchangeMeta.
Known ==
  \A s \in Servers, i \in NodeIDs, n \in Nodes :
    Knows(s, i, n) =>
      /\ i = IF n \in Clients THEN myNodeID[n] ELSE n
      /\ n \in Clients => ~Untouched(n, s) /\ ~Greeting(n, s) /\ ~Asking(n, s)

\* The queue of the connection the Listener makes.
PeerQueue ==
  \A s \in Servers :
    listener[s] = "meta" => (peer[s].cq = 0 <=> peer[s].id \in Servers)

IInv ==
  /\ TypeOK /\ Order /\ AllLinks /\ NoTwice /\ Unclaimed /\ Named /\ Known
  /\ PeerQueue /\ QueueZero

-----------------------------------------------------------------------------
LEMMA Constants ==
  /\ Cardinality(Clients) \in Nat /\ ServerCount \in Nat \ {0}
  /\ 1 \in Servers /\ Servers \subseteq NodeIDs /\ Servers \cap Clients = {}
  /\ NodeIDs \subseteq Nat \ {0} /\ Servers \subseteq Nat \ {0}
BY ConnectionAssumption, FS_CardinalityType DEF Servers, NodeIDs

LEMMA AppendFacts ==
  ASSUME NEW S, NEW q \in Seq(S), NEW x \in S
  PROVE  /\ Append(q, x) \in Seq(S) /\ Len(q) \in Nat /\ Len(Append(q, x)) = Len(q) + 1
         /\ \A k \in 1..Len(q) : Append(q, x)[k] = q[k]
         /\ Append(q, x)[Len(q) + 1] = x /\ Append(q, x) # <<>>
OBVIOUS

LEMMA TailFacts ==
  ASSUME NEW S, NEW q \in Seq(S), q # <<>>
  PROVE  /\ Tail(q) \in Seq(S) /\ Len(q) \in Nat \ {0} /\ Len(Tail(q)) = Len(q) - 1
         /\ \A k \in 1..(Len(q) - 1) : Tail(q)[k] = q[k + 1]
         /\ Head(q) = q[1] /\ Head(q) \in S
OBVIOUS

LEMMA SeqFacts ==
  ASSUME NEW S, NEW q \in Seq(S)
  PROVE  Len(q) \in Nat /\ (q = <<>> <=> Len(q) = 0) /\ \A k \in 1..Len(q) : q[k] \in S
OBVIOUS

\* The sequences of a connection.
LEMMA Sequences ==
  ASSUME TypeOK, NEW n \in Nodes, NEW s \in Servers
  PROVE  toServer[<<n, s>>] \in Seq(Message) /\ toNode[<<n, s>>] \in Seq(Message)
         /\ backlog[s] \in Seq(Nodes) /\ <<n, s>> \in Links
BY DEF TypeOK, Links

-----------------------------------------------------------------------------
(***************************************************************************)
(* What a step leaves alone.                                               *)
(***************************************************************************)

\* All that the invariant says of a connection stays, or n's side moves to where it
\* says nothing.
NodeKept(n, s) ==
  /\ toServer'[<<n, s>>] = toServer[<<n, s>>]
  /\ toNode'[<<n, s>>] = toNode[<<n, s>>]
  /\ Untouched(n, s)' => Untouched(n, s)
  /\ Greeting(n, s)' => Greeting(n, s)
  /\ Asking(n, s)' => Asking(n, s)
  /\ n \in Clients /\ ~Untouched(n, s) => myNodeID'[n] = myNodeID[n]
ServerKept(n, s) ==
  /\ Queued(n, s)' <=> Queued(n, s)
  /\ Greeted(n, s)' <=> Greeted(n, s)
  /\ Reading(n, s)' <=> Reading(n, s)
  /\ Reading(n, s) => peer'[s].id = peer[s].id
  /\ s = 1 /\ Greeted(n, s) => maxNodeID' = maxNodeID

LEMMA LinkKept ==
  ASSUME NEW n \in Nodes, NEW s \in Servers, OnceAt(n, s), BytesAt(n, s),
         n \in Clients => AgreedAt(n, s), NodeKept(n, s), ServerKept(n, s)
  PROVE  OnceAt(n, s)' /\ BytesAt(n, s)' /\ (n \in Clients => AgreedAt(n, s)')
<1>1. OnceAt(n, s)'
  BY DEF OnceAt, NodeKept, ServerKept
<1>2. BytesAt(n, s)'
  BY DEF BytesAt, NodeKept, ServerKept
<1>3. ASSUME n \in Clients PROVE AgreedAt(n, s)'
  <2>1. CASE Untouched(n, s)
    <3>1. ~Queued(n, s)' /\ ~Greeted(n, s)' /\ ~Reading(n, s)'
      BY <2>1 DEF OnceAt, ServerKept
    <3>2. s # 1 => \A k \in 1..Len(toNode[<<n, s>>]) : toNode[<<n, s>>][k].id = 0
      BY <1>3 DEF AgreedAt
    <3> QED BY <3>1, <3>2 DEF AgreedAt, NodeKept
  <2>2. CASE ~Untouched(n, s)
    BY <1>3, <2>2 DEF AgreedAt, NodeKept, ServerKept
  <2> QED BY <2>1, <2>2
<1> QED BY <1>1, <1>2, <1>3

\* A step that touches one connection.
LEMMA OtherLinks ==
  ASSUME AllLinks, NEW n \in Nodes, NEW s \in Servers,
         \A m \in Nodes, t \in Servers :
           m # n \/ t # s => NodeKept(m, t) /\ ServerKept(m, t),
         OnceAt(n, s)', BytesAt(n, s)', n \in Clients => AgreedAt(n, s)'
  PROVE  AllLinks'
<1> SUFFICES ASSUME NEW m \in Nodes, NEW t \in Servers
    PROVE  OnceAt(m, t)' /\ BytesAt(m, t)' /\ (m \in Clients => AgreedAt(m, t)')
  BY DEF AllLinks
<1>1. CASE m # n \/ t # s
  BY <1>1, LinkKept DEF AllLinks
<1>2. CASE m = n /\ t = s
  BY <1>2
<1> QED BY <1>1, <1>2

LEMMA SameNodeSide ==
  ASSUME UNCHANGED connVars
  PROVE  \A n \in Nodes, s \in Servers :
           /\ Untouched(n, s)' <=> Untouched(n, s)
           /\ Greeting(n, s)' <=> Greeting(n, s)
           /\ Asking(n, s)' <=> Asking(n, s)
BY DEF connVars, Untouched, Over, Engaged, Greeting, Asking

LEMMA SameServerSide ==
  ASSUME UNCHANGED <<listenVars, backlog>>
  PROVE  \A n \in Nodes, s \in Servers : ServerKept(n, s)
BY DEF listenVars, ServerKept, Queued, Greeted, Reading

LEMMA SameClaims ==
  ASSUME NEW c \in Clients, myNodeID'[c] = myNodeID[c], toNode'[<<c, 1>>] = toNode[<<c, 1>>]
  PROVE  \A i \in Nat : Claims(c, i)' <=> Claims(c, i)
BY DEF Claims

LEMMA SamePeers ==
  ASSUME UNCHANGED peers
  PROVE  /\ \A s \in Servers, i \in NodeIDs, n \in Nodes :
              Knows(s, i, n)' <=> Knows(s, i, n)
         /\ QueueZero => QueueZero'
BY DEF Knows, QueueZero

-----------------------------------------------------------------------------
(***************************************************************************)
(* Initially.                                                              *)
(***************************************************************************)

LEMMA IInit == Init => IInv
<1> SUFFICES ASSUME Init PROVE IInv
  OBVIOUS
<1>1. TypeOK
  <2>1. phase \in [Nodes -> {"down", "connect", "greet", "id", "meta", "done",
                          "failed", "crashed"}]
    BY DEF Init
  <2>2. remaining \in [Nodes -> SUBSET Servers]
    <3>1. ASSUME NEW n \in Servers PROVE 1..(n - 1) \subseteq Servers
      BY <3>1, Constants DEF Servers
    <3> QED BY <3>1 DEF Init, Nodes
  <2>3. target \in [Nodes -> Servers] /\ myNodeID \in [Clients -> NodeIDs \cup {0}]
    BY Constants DEF Init
  <2>4. maxNodeID \in NodeIDs \cup {ServerCount + Cardinality(Clients) + 1}
    BY Constants DEF Init, NodeIDs
  <2>5. peer \in [Servers -> [node : Nodes, id : NodeIDs \cup {0}, cq : 0..(CqNum - 1)]]
    BY ConnectionAssumption DEF Init, Nodes
  <2>6. peers \in [Nodes -> [NodeIDs -> PeerData]]
    BY ConnectionAssumption DEF Init, PeerData, NoPeer
  <2>7. /\ listener \in [Servers -> {"accept", "id", "meta", "spin"}]
        /\ cqPtr \in [Servers -> 0..(CqNum - 1)] /\ backlog \in [Servers -> Seq(Nodes)]
        /\ toServer \in [Links -> Seq(Message)] /\ toNode \in [Links -> Seq(Message)]
    BY ConnectionAssumption DEF Init
  <2> QED BY <2>1, <2>2, <2>3, <2>4, <2>5, <2>6, <2>7 DEF TypeOK
<1>2. /\ \A n \in Nodes : phase[n] \in {"down", "connect"}
      /\ \A s \in Servers : listener[s] = "accept" /\ backlog[s] = <<>>
      /\ \A n \in Nodes, s \in Servers :
           toServer[<<n, s>>] = <<>> /\ toNode[<<n, s>>] = <<>>
      /\ \A c \in Clients : myNodeID[c] = 0 /\ remaining[c] = Servers
  BY Constants DEF Init, Links, Nodes
<1>3. Order
  BY <1>2 DEF Order, Engaged, Nodes
<1>4. \A n \in Nodes, s \in Servers :
        /\ ~Queued(n, s) /\ ~Greeted(n, s) /\ ~Reading(n, s)
        /\ ~Greeting(n, s) /\ ~Asking(n, s)
  BY <1>2 DEF Queued, Greeted, Reading, Greeting, Asking
<1>5. AllLinks
  <2> SUFFICES ASSUME NEW n \in Nodes, NEW s \in Servers
      PROVE OnceAt(n, s) /\ BytesAt(n, s) /\ AgreedAt(n, s)
    BY DEF AllLinks
  <2>1. OnceAt(n, s) /\ BytesAt(n, s)
    BY <1>2, <1>4 DEF OnceAt, BytesAt
  <2>2. 1..Len(toNode[<<n, s>>]) = {}
    BY <1>2
  <2>3. AgreedAt(n, s)
    BY <1>4, <2>2 DEF AgreedAt
  <2> QED BY <2>1, <2>3
<1>6. NoTwice
  BY <1>2 DEF NoTwice
<1>7. \A c \in Clients, i \in Nat : ~Claims(c, i)
  <2> SUFFICES ASSUME NEW c \in Clients, NEW i \in Nat PROVE ~Claims(c, i)
    OBVIOUS
  <2>1. toNode[<<c, 1>>] = <<>> /\ myNodeID[c] = 0
    BY <1>2, Constants DEF Nodes
  <2>2. 1..Len(toNode[<<c, 1>>]) = {}
    BY <2>1
  <2> QED BY <2>1, <2>2 DEF Claims
<1>8. Unclaimed
  BY <1>7 DEF Unclaimed
<1>9. Named
  <2>1. maxNodeID = ServerCount + 1 + Cardinality({})
    BY Constants, FS_EmptySet DEF Init
  <2> QED BY <2>1 DEF Named
<1>10. \A s \in Servers, i \in NodeIDs : peers[s][i].node = {}
  BY DEF Init, NoPeer, Nodes
<1>11. Known /\ QueueZero
  BY <1>10 DEF Known, Knows, QueueZero
<1>12. PeerQueue
  BY <1>2 DEF PeerQueue
<1> QED BY <1>1, <1>3, <1>5, <1>6, <1>8, <1>9, <1>11, <1>12 DEF IInv

-----------------------------------------------------------------------------
(***************************************************************************)
(* Steps that only move a node out of the way: Start, ConnectFails,        *)
(* Timeout and Crash.                                                      *)
(***************************************************************************)

Aside(n) ==
  /\ \E p \in {"connect", "done", "failed", "crashed"} : phase' = [phase EXCEPT ![n] = p]
  /\ phase[n] # "crashed" /\ (phase[n] = "down" \/ phase'[n] \in {"failed", "crashed"})
  /\ UNCHANGED <<remaining, target, myNodeID, listenVars, peers, backlog, toServer,
                 toNode>>

LEMMA AsideStep == ASSUME IInv, NEW n \in Nodes, Aside(n) PROVE IInv'
<1> USE DEF IInv
<1>1. /\ \A m \in Nodes \ {n} : phase'[m] = phase[m]
      /\ phase'[n] \in {"connect", "done", "failed", "crashed"}
      /\ phase[n] # "crashed" /\ (phase[n] = "down" \/ phase'[n] \in {"failed", "crashed"})
      /\ UNCHANGED <<remaining, target, myNodeID, listener, peer, maxNodeID, cqPtr,
                     peers, backlog, toServer, toNode>>
  BY DEF Aside, TypeOK, listenVars
<1>2. TypeOK'
  <2>1. phase' \in [Nodes -> {"down", "connect", "greet", "id", "meta", "done",
                          "failed", "crashed"}]
    BY DEF Aside, TypeOK
  <2> QED BY <1>1, <2>1 DEF TypeOK
<1>3. \A m \in Nodes, s \in Servers : NodeKept(m, s)
  BY <1>1 DEF NodeKept, Untouched, Over, Engaged, Greeting, Asking
<1>4. \A m \in Nodes, s \in Servers : ServerKept(m, s)
  BY <1>1, SameServerSide DEF listenVars
<1>5. AllLinks'
  BY <1>3, <1>4, LinkKept DEF AllLinks
<1>6. Order'
  BY <1>1 DEF Order, Engaged, Nodes
<1>7. NoTwice' /\ PeerQueue'
  BY <1>1 DEF NoTwice, PeerQueue
<1>8. QueueZero' /\ Known'
  BY <1>1, <1>3, SamePeers DEF Known, NodeKept
<1>9. Unclaimed'
  <2>1. \A c \in Clients, i \in Nat : Claims(c, i)' <=> Claims(c, i)
    BY <1>1, SameClaims
  <2>2. \A c \in Clients : Alive(c)' => Alive(c)
    BY <1>1 DEF Alive, Nodes
  <2>3. \A c \in Clients : Greeted(c, 1)' <=> Greeted(c, 1)
    BY <1>1 DEF Greeted
  <2> QED BY <1>1, <2>1, <2>2, <2>3 DEF Unclaimed
<1>10. Named'
  BY <1>1, <1>3, <1>4, Constants DEF Named, NodeKept, ServerKept, Nodes
<1> QED BY <1>2, <1>5, <1>6, <1>7, <1>8, <1>9, <1>10

LEMMA AsideActions ==
  /\ \A s \in Servers : Start(s) => Aside(s)
  /\ \A n \in Nodes, s \in Servers : TypeOK /\ ConnectFails(n, s) => Aside(n)
  /\ \A n \in Nodes : TypeOK /\ Timeout(n) => Aside(n)
  /\ \A c \in Clients : TypeOK /\ Crash(c) => Aside(c)
BY DEF Start, ConnectFails, Timeout, Crash, Goto, Aside, TypeOK, Nodes

-----------------------------------------------------------------------------
(***************************************************************************)
(* Steps in which a Listener lets go of a client that has died.            *)
(***************************************************************************)

LetGo(s) ==
  /\ listener[s] \in {"id", "meta"} /\ phase[peer[s].node] = "crashed"
  /\ \E p \in {"accept", "spin"} : listener' = [listener EXCEPT ![s] = p]
  /\ UNCHANGED <<connVars, peer, maxNodeID, cqPtr, peers, backlog, toServer, toNode>>

LEMMA LetGoStep == ASSUME IInv, NEW s \in Servers, LetGo(s) PROVE IInv'
<1> USE DEF IInv
<1> DEFINE n == peer[s].node
<1>1. /\ listener'[s] \in {"accept", "spin"}
      /\ \A t \in Servers \ {s} : listener'[t] = listener[t]
      /\ phase[n] = "crashed" /\ n \in Nodes
      /\ UNCHANGED <<connVars, phase, remaining, target, myNodeID, peer, maxNodeID,
                     cqPtr, peers, backlog, toServer, toNode>>
  BY DEF LetGo, TypeOK, connVars
<1>2. TypeOK'
  <2>1. listener' \in [Servers -> {"accept", "id", "meta", "spin"}]
    BY DEF LetGo, TypeOK
  <2> QED BY <1>1, <2>1 DEF TypeOK
<1>3. \A m \in Nodes, t \in Servers : NodeKept(m, t)
  BY <1>1, SameNodeSide DEF NodeKept
<1>4. \A m \in Nodes, t \in Servers :
        /\ Queued(m, t)' <=> Queued(m, t)
        /\ Greeted(m, t)' <=> Greeted(m, t) /\ <<m, t>> # <<n, s>>
        /\ Reading(m, t)' <=> Reading(m, t) /\ <<m, t>> # <<n, s>>
  BY <1>1 DEF Queued, Greeted, Reading
<1>5. \A t \in Servers : ~Greeting(n, t) /\ ~Asking(n, t) /\ ~Untouched(n, t)
  BY <1>1 DEF Greeting, Asking, Untouched, Over
<1> HIDE DEF n
<1>6. AllLinks'
  <2> SUFFICES ASSUME NEW m \in Nodes, NEW t \in Servers
      PROVE  OnceAt(m, t)' /\ BytesAt(m, t)' /\ (m \in Clients => AgreedAt(m, t)')
    BY DEF AllLinks
  <2>0. OnceAt(m, t) /\ BytesAt(m, t) /\ (m \in Clients => AgreedAt(m, t))
    BY DEF AllLinks
  <2>1. CASE <<m, t>> # <<n, s>>
    BY <1>1, <1>3, <1>4, <2>0, <2>1, LinkKept DEF ServerKept
  <2>2. CASE m = n /\ t = s
    <3>1. ~Greeted(m, t)' /\ ~Reading(m, t)' /\ (Queued(m, t)' <=> Queued(m, t))
          /\ ~Greeting(m, t)' /\ ~Asking(m, t)' /\ ~Untouched(m, t)'
      BY <1>3, <1>4, <1>5, <2>2 DEF NodeKept
    <3> QED BY <1>1, <2>0, <3>1 DEF OnceAt, BytesAt, AgreedAt
  <2> QED BY <2>1, <2>2
<1>7. Order' /\ NoTwice' /\ PeerQueue'
  BY <1>1 DEF Order, Engaged, NoTwice, PeerQueue
<1>8. QueueZero' /\ Known'
  BY <1>1, <1>3, SamePeers DEF Known, NodeKept
<1>9. Unclaimed'
  <2>1. \A c \in Clients, i \in Nat : Claims(c, i)' <=> Claims(c, i)
    BY <1>1, SameClaims
  <2>2. \A c \in Clients : Alive(c)' <=> Alive(c)
    BY <1>1 DEF Alive
  <2>3. \A c \in Clients : Alive(c) /\ Greeted(c, 1) => Greeted(c, 1)'
    BY <1>1, <1>4, Constants DEF Alive, Nodes
  <2> QED BY <1>1, <2>1, <2>2, <2>3 DEF Unclaimed
<1>10. Named'
  BY <1>1, <1>3, <1>4, Constants DEF Named, NodeKept, Nodes
<1> QED BY <1>2, <1>6, <1>7, <1>8, <1>9, <1>10

LEMMA LetGoActions == \A s \in Servers : ListenReset(s) \/ ListenEOF(s) => LetGo(s)
BY DEF ListenReset, ListenEOF, LetGo


-----------------------------------------------------------------------------
(***************************************************************************)
(* The connecting side.                                                    *)
(***************************************************************************)

LEMMA SocketConnectStep ==
  ASSUME IInv, NEW n \in Nodes, NEW s \in Servers, SocketConnect(n, s)  PROVE IInv'
<1> USE DEF IInv
<1>1. /\ phase[n] = "connect" /\ s \in remaining[n] /\ phase'[n] = "greet"
      /\ n \in Clients /\ 1 \in remaining[n] => s = 1
      /\ target'[n] = s /\ backlog'[s] = Append(backlog[s], n)
      /\ \A m \in Nodes : m # n => phase'[m] = phase[m] /\ target'[m] = target[m]
      /\ \A t \in Servers : t # s => backlog'[t] = backlog[t]
      /\ UNCHANGED <<remaining, myNodeID, listener, peer, maxNodeID, cqPtr, peers,
                     toServer, toNode>>
  BY DEF SocketConnect, Next1, Goto, TypeOK, listenVars
<1>2. TypeOK'
  <2>1. phase' \in [Nodes -> {"down", "connect", "greet", "id", "meta", "done",
                          "failed", "crashed"}]
    BY DEF SocketConnect, Goto, TypeOK
  <2>2. target' \in [Nodes -> Servers]
    BY DEF SocketConnect, TypeOK
  <2>3. backlog' \in [Servers -> Seq(Nodes)]
    BY DEF SocketConnect, TypeOK
  <2> QED BY <1>1, <2>1, <2>2, <2>3 DEF TypeOK
<1>3. Untouched(n, s)
  BY <1>1 DEF Untouched, Over, Engaged
<1>4. /\ toServer[<<n, s>>] = <<>> /\ toNode[<<n, s>>] = <<>>
      /\ ~Queued(n, s) /\ ~Greeted(n, s) /\ ~Reading(n, s)
  BY <1>3 DEF AllLinks, OnceAt
<1>5. \A m \in Nodes, t \in Servers : m # n \/ t # s => NodeKept(m, t)
  BY <1>1 DEF NodeKept, Untouched, Over, Engaged, Greeting, Asking
<1>6. /\ \A m \in Nodes, t \in Servers : m # n \/ t # s => (Queued(m, t)' <=> Queued(m, t))
      /\ Queued(n, s)'
  <2>1. backlog[s] \in Seq(Nodes)
    BY DEF TypeOK
  <2>2. \A t \in Servers, m \in Nodes : t # s => (Queued(m, t)' <=> Queued(m, t))
    BY <1>1 DEF Queued
  <2>3. /\ Len(backlog[s]) \in Nat /\ Len(backlog'[s]) = Len(backlog[s]) + 1
        /\ \A k \in 1..Len(backlog[s]) : backlog'[s][k] = backlog[s][k]
        /\ backlog'[s][Len(backlog[s]) + 1] = n
    BY <1>1, <2>1, AppendFacts
  <2>4. \A m \in Nodes : m # n => (Queued(m, s)' <=> Queued(m, s))
    BY <2>3 DEF Queued
  <2>5. Queued(n, s)'
    BY <2>3 DEF Queued
  <2> QED BY <2>2, <2>4, <2>5
<1>7. \A m \in Nodes, t \in Servers :
        (Greeted(m, t)' <=> Greeted(m, t)) /\ (Reading(m, t)' <=> Reading(m, t))
  BY <1>1 DEF Greeted, Reading
<1>8. AllLinks'
  <2>1. ~Untouched(n, s)' /\ Greeting(n, s)' /\ ~Asking(n, s)'
    BY <1>1 DEF Untouched, Engaged, Greeting, Asking
  <2>2. OnceAt(n, s)'
    BY <1>1, <1>4, <1>7, <2>1, <1>6 DEF OnceAt
  <2>3. BytesAt(n, s)'
    BY <1>1, <1>4, <1>7, <2>1 DEF BytesAt
  <2>4. AgreedAt(n, s)'
    <3>1. 1..Len(toNode[<<n, s>>]) = {}
      BY <1>4
    <3> QED BY <1>1, <1>4, <1>7, <2>1, <3>1 DEF AgreedAt
  <2>5. \A m \in Nodes, t \in Servers : m # n \/ t # s => NodeKept(m, t) /\ ServerKept(m, t)
    BY <1>1, <1>5, <1>6, <1>7 DEF ServerKept
  <2> QED BY <2>2, <2>3, <2>4, <2>5, OtherLinks
<1>9. Order'
  <2>1. ASSUME NEW m \in Nodes, Engaged(m)' PROVE target'[m] \in remaining'[m]
    BY <1>1, <2>1 DEF Order, Engaged
  <2>2. ASSUME NEW c \in Clients, 1 \in remaining'[c]
        PROVE  remaining'[c] = Servers /\ (Engaged(c)' => target'[c] = 1)
    BY <1>1, <2>2 DEF Order, Engaged, Nodes
  <2> QED BY <2>1, <2>2 DEF Order
<1>10. NoTwice'
  <2>1. backlog[s] \in Seq(Nodes)
    BY DEF TypeOK
  <2>2. /\ Len(backlog[s]) \in Nat /\ Len(backlog'[s]) = Len(backlog[s]) + 1
        /\ \A k \in 1..Len(backlog[s]) : backlog'[s][k] = backlog[s][k] /\ backlog[s][k] # n
        /\ backlog'[s][Len(backlog[s]) + 1] = n
    BY <1>1, <1>4, <2>1, AppendFacts DEF Queued
  <2>3. ASSUME NEW j \in Nat, NEW k \in Nat, j \in 1..Len(backlog'[s]),
               k \in 1..Len(backlog'[s]), backlog'[s][j] = backlog'[s][k]
        PROVE  j = k
    <3>1. j \in 1..Len(backlog[s]) \/ j = Len(backlog[s]) + 1
      BY <2>2, <2>3
    <3>2. k \in 1..Len(backlog[s]) \/ k = Len(backlog[s]) + 1
      BY <2>2, <2>3
    <3> QED BY <2>2, <2>3, <3>1, <3>2 DEF NoTwice
  <2> QED BY <1>1, <2>3 DEF NoTwice
<1>11. Unclaimed'
  <2>1. \A c \in Clients, i \in Nat : Claims(c, i)' <=> Claims(c, i)
    BY <1>1, SameClaims
  <2>2. \A c \in Clients : Alive(c)' <=> Alive(c)
    BY <1>1 DEF Alive, Nodes
  <2>3. \A c \in Clients : Greeted(c, 1)' <=> Greeted(c, 1)
    BY <1>7, Constants DEF Nodes
  <2> QED BY <1>1, <2>1, <2>2, <2>3 DEF Unclaimed
<1>12. Named'
  <2>1. PICK N \in SUBSET Clients :
          /\ maxNodeID = ServerCount + 1 + Cardinality(N)
          /\ \A c \in N : ~Queued(c, 1) /\ ~Greeted(c, 1) /\ ~Untouched(c, 1)
    BY DEF Named
  <2>2. ASSUME NEW c \in N
        PROVE  ~Queued(c, 1)' /\ ~Greeted(c, 1)' /\ ~Untouched(c, 1)'
    <3>1. c \in Nodes /\ 1 \in Servers /\ (c # n \/ 1 # s)
      BY <1>3, <2>1, Constants DEF Nodes
    <3> QED BY <1>5, <1>6, <1>7, <2>1, <3>1 DEF NodeKept
  <2> QED BY <1>1, <2>1, <2>2 DEF Named
<1>13. Known'
  <2> SUFFICES ASSUME NEW t \in Servers, NEW i \in NodeIDs, NEW m \in Nodes, Knows(t, i, m)'
      PROVE  /\ i = IF m \in Clients THEN myNodeID'[m] ELSE m
             /\ m \in Clients => ~Untouched(m, t)' /\ ~Greeting(m, t)' /\ ~Asking(m, t)'
    BY DEF Known
  <2>1. Knows(t, i, m)
    BY <1>1, SamePeers
  <2> QED BY <1>1, <1>3, <1>5, <2>1 DEF Known, NodeKept
<1>14. PeerQueue' /\ QueueZero'
  BY <1>1, SamePeers DEF PeerQueue
<1> QED BY <1>2, <1>8, <1>9, <1>10, <1>11, <1>12, <1>13, <1>14

\* What a node has got to on the connection it is making.
LEMMA EngagedFacts ==
  ASSUME IInv, NEW n \in Nodes, Engaged(n)
  PROVE  /\ target[n] \in Servers /\ target[n] \in remaining[n] /\ Link(n) \in Links
         /\ Link(n) = <<n, target[n]>> /\ ~Untouched(n, target[n])
         /\ n \in Clients /\ target[n] = 1 =>
              \A t \in Servers : t # 1 => Untouched(n, t)
<1>1. target[n] \in Servers /\ target[n] \in remaining[n] /\ remaining[n] \subseteq Servers
  BY DEF IInv, TypeOK, Order
<1>2. ASSUME n \in Clients, target[n] = 1, NEW t \in Servers, t # 1 PROVE Untouched(n, t)
  <2>1. remaining[n] = Servers
    BY <1>1, <1>2 DEF IInv, Order
  <2> QED BY <1>2, <2>1 DEF Engaged, Over, Untouched
<1> QED BY <1>1, <1>2 DEF Link, Links, Untouched

\* A step of the connecting side after which the invariant says no more of the
\* server, and no claim is new.
LEMMA NodeStepKeeps ==
  ASSUME IInv,
         \A m \in Nodes, t \in Servers :
           /\ Untouched(m, t)' => Untouched(m, t)
           /\ Queued(m, t)' <=> Queued(m, t)
           /\ Greeted(m, t)' <=> Greeted(m, t),
         \A c \in Clients : /\ Alive(c)' <=> Alive(c)
                           /\ \A i \in Nat : Claims(c, i)' => Claims(c, i),
         UNCHANGED <<listener, peer, maxNodeID, backlog>>
  PROVE  NoTwice' /\ Unclaimed' /\ Named' /\ PeerQueue'
<1> USE DEF IInv
<1>1. Unclaimed'
  BY Constants DEF Unclaimed, Nodes
<1>2. Named'
  BY Constants DEF Named, Nodes
<1>3. NoTwice' /\ PeerQueue'
  BY DEF NoTwice, PeerQueue
<1> QED BY <1>1, <1>2, <1>3

LEMMA WriteIDStep == ASSUME IInv, NEW n \in Nodes, WriteID(n) PROVE IInv'
<1> USE DEF IInv
<1>0. PICK s \in Servers : s = target[n]
  BY DEF TypeOK
<1> DEFINE id == IF n \in Clients THEN myNodeID[n] ELSE n
<1>1. /\ phase[n] = "greet" /\ phase'[n] = "id"
      /\ toServer'[<<n, s>>] = Append(toServer[<<n, s>>], IdMessage(id, n \in Servers))
      /\ \A m \in Nodes : m # n => phase'[m] = phase[m]
      /\ \A m \in Nodes, t \in Servers :
           m # n \/ t # s => toServer'[<<m, t>>] = toServer[<<m, t>>]
      /\ UNCHANGED <<remaining, target, myNodeID, listenVars, listener, peer, maxNodeID,
                     cqPtr, peers, backlog, toNode>>
  BY <1>0 DEF WriteID, Goto, TypeOK, listenVars, Link, Links
<1>2. /\ s \in Servers /\ s \in remaining[n] /\ <<n, s>> \in Links /\ Engaged(n)
      /\ ~Untouched(n, s) /\ Greeting(n, s)
  BY <1>0, <1>1, EngagedFacts DEF Engaged, Greeting
<1>3. IdMessage(id, n \in Servers) \in Message
  <2>1. id \in 0..(ServerCount + Cardinality(Clients) + 1)
    <3>1. CASE n \in Clients
      BY <3>1, Constants DEF TypeOK, NodeIDs
    <3>2. CASE n \in Servers /\ n \notin Clients
      BY <3>2, Constants DEF Servers
    <3> QED BY <3>1, <3>2 DEF Nodes
  <2> QED BY <2>1 DEF IdMessage, Message
<1>4. toServer[<<n, s>>] = <<>> /\ (Queued(n, s) \/ Greeted(n, s)) /\ ~Reading(n, s)
  BY <1>2 DEF AllLinks, BytesAt, OnceAt, Greeted, Reading
<1>5. /\ Len(toServer'[<<n, s>>]) = 1 /\ toServer'[<<n, s>>] # <<>>
      /\ toServer'[<<n, s>>][1] = IdMessage(id, n \in Servers)
  BY <1>1, <1>3, <1>4
<1>6. TypeOK'
  <2>1. phase' \in [Nodes -> {"down", "connect", "greet", "id", "meta", "done",
                          "failed", "crashed"}]
    BY DEF WriteID, Goto, TypeOK
  <2>2. toServer' \in [Links -> Seq(Message)]
    BY <1>0, <1>2, <1>3 DEF WriteID, TypeOK, Link
  <2> QED BY <1>1, <2>1, <2>2 DEF TypeOK
<1>7. \A m \in Nodes, t \in Servers : m # n \/ t # s => NodeKept(m, t)
  BY <1>0, <1>1 DEF NodeKept, Untouched, Over, Engaged, Greeting, Asking
<1>8. \A m \in Nodes, t \in Servers : ServerKept(m, t)
  BY <1>1, SameServerSide
<1>9. ~Untouched(n, s)' /\ ~Greeting(n, s)' /\ Asking(n, s)'
  BY <1>0, <1>1 DEF Untouched, Engaged, Greeting, Asking
<1>10. OnceAt(n, s) /\ BytesAt(n, s) /\ (n \in Clients => AgreedAt(n, s))
  BY <1>2 DEF AllLinks
<1>11. AllLinks'
  <2>1. OnceAt(n, s)'
    BY <1>1, <1>2, <1>4, <1>8, <1>9, <1>10 DEF OnceAt, ServerKept
  <2>2. IsId(IdMessage(id, n \in Servers), n)
    BY Constants DEF IsId, IdMessage
  <2>3. BytesAt(n, s)'
    <3> HIDE DEF id
    <3> QED BY <1>2, <1>4, <1>5, <1>8, <1>9, <2>2 DEF BytesAt, ServerKept
  <2>4. ASSUME n \in Clients PROVE AgreedAt(n, s)'
    <3>1. IdMessage(id, n \in Servers).id = myNodeID[n]
      BY <2>4 DEF IdMessage
    <3> HIDE DEF id
    <3> QED BY <1>1, <1>2, <1>4, <1>5, <1>8, <1>9, <1>10, <2>4, <3>1 DEF AgreedAt, ServerKept
  <2> QED BY <1>2, <1>7, <1>8, <2>1, <2>3, <2>4, OtherLinks
<1>12. Order'
  BY <1>0, <1>1, <1>2 DEF Order, Engaged, Nodes
<1>13. \A m \in Nodes, t \in Servers : Untouched(m, t)' => Untouched(m, t)
  BY <1>7, <1>9 DEF NodeKept
<1>14. NoTwice' /\ Unclaimed' /\ Named' /\ PeerQueue'
  <2>1. \A c \in Clients : Alive(c)' <=> Alive(c)
    BY <1>1 DEF Alive, Nodes
  <2>2. \A c \in Clients, i \in Nat : Claims(c, i)' <=> Claims(c, i)
    BY <1>1, SameClaims
  <2> QED BY <1>1, <1>8, <1>13, <2>1, <2>2, NodeStepKeeps DEF ServerKept
<1>15. Known'
  <2> SUFFICES ASSUME NEW t \in Servers, NEW i \in NodeIDs, NEW m \in Nodes, Knows(t, i, m)'
      PROVE  /\ i = IF m \in Clients THEN myNodeID'[m] ELSE m
             /\ m \in Clients => ~Untouched(m, t)' /\ ~Greeting(m, t)' /\ ~Asking(m, t)'
    BY DEF Known
  <2>1. Knows(t, i, m)
    BY <1>1, SamePeers
  <2>2. /\ i = IF m \in Clients THEN myNodeID[m] ELSE m
        /\ m \in Clients => ~Untouched(m, t) /\ ~Greeting(m, t) /\ ~Asking(m, t)
    BY <2>1 DEF Known
  <2>3. CASE m \in Clients
    <3>1. m # n \/ t # s
      BY <1>2, <2>2, <2>3
    <3> QED BY <1>7, <2>2, <2>3, <3>1 DEF NodeKept
  <2>4. CASE m \notin Clients
    BY <2>2, <2>4
  <2> QED BY <2>3, <2>4
<1>16. QueueZero'
  BY <1>1, SamePeers
<1> QED BY <1>6, <1>11, <1>12, <1>14, <1>15, <1>16

LEMMA ReadIDStep == ASSUME IInv, NEW n \in Nodes, ReadID(n) PROVE IInv'
<1> USE DEF IInv
<1>0. PICK s \in Servers : s = target[n]
  BY DEF TypeOK
<1> DEFINE a == toNode[<<n, s>>]
           q == toServer[<<n, s>>]
<1>1. /\ phase[n] = "id" /\ phase'[n] = "meta"
      /\ a # <<>> /\ myNodeID' = TakeID(n, Head(a).id)
      /\ toNode'[<<n, s>>] = Tail(a) /\ toServer'[<<n, s>>] = Append(q, MetaMessage)
      /\ \A m \in Nodes : m # n => phase'[m] = phase[m]
      /\ \A m \in Nodes, t \in Servers :
           m # n \/ t # s => /\ toServer'[<<m, t>>] = toServer[<<m, t>>]
                             /\ toNode'[<<m, t>>] = toNode[<<m, t>>]
      /\ UNCHANGED <<remaining, target, listenVars, listener, peer, maxNodeID,
                     cqPtr, peers, backlog>>
  BY <1>0 DEF ReadID, Goto, TypeOK, listenVars, Link, Links
<1>2. /\ s \in Servers /\ s \in remaining[n] /\ <<n, s>> \in Links /\ Engaged(n)
      /\ ~Untouched(n, s) /\ Asking(n, s)
      /\ n \in Clients /\ s = 1 => \A t \in Servers : t # 1 => Untouched(n, t)
  BY <1>0, <1>1, EngagedFacts DEF Engaged, Asking
<1>3. a \in Seq(Message) /\ q \in Seq(Message)
  BY <1>2, Sequences
<1>4. /\ Len(a) \in Nat \ {0} /\ Head(a) = a[1] /\ a[1] \in Message
      /\ Len(Tail(a)) = Len(a) - 1 /\ Tail(a) \in Seq(Message)
      /\ \A k \in 1..(Len(a) - 1) : Tail(a)[k] = a[k + 1]
  BY <1>1, <1>3, TailFacts
<1>5. MetaMessage \in Message
  BY Constants DEF MetaMessage, Message
<1>6. /\ Len(q) \in Nat /\ Len(Append(q, MetaMessage)) = Len(q) + 1
      /\ \A k \in 1..Len(q) : Append(q, MetaMessage)[k] = q[k]
  BY <1>3, <1>5, AppendFacts
<1>7. OnceAt(n, s) /\ BytesAt(n, s) /\ (n \in Clients => AgreedAt(n, s))
  BY <1>2 DEF AllLinks
<1>8. \A m \in Nodes, t \in Servers : ServerKept(m, t)
  BY <1>1, SameServerSide
<1>9. ~Untouched(n, s)' /\ ~Greeting(n, s)' /\ ~Asking(n, s)'
  BY <1>0, <1>1 DEF Untouched, Engaged, Greeting, Asking
<1>10. /\ ~Queued(n, s) /\ (Greeted(n, s) \/ Reading(n, s))
       /\ Len(q) = IF Reading(n, s) THEN 0 ELSE 1
  BY <1>1, <1>2, <1>7 DEF OnceAt, BytesAt
<1>11. /\ \A c \in Clients : c # n => myNodeID'[c] = myNodeID[c]
       /\ n \in Clients => myNodeID'[n] \in {myNodeID[n], a[1].id}
       /\ n \in Clients /\ a[1].id # 0 => myNodeID'[n] = a[1].id
       /\ n \in Clients /\ a[1].id = 0 => myNodeID' = myNodeID
  BY <1>1, <1>4 DEF TakeID, TypeOK
<1>12. n \in Clients /\ s # 1 => a[1].id = 0
  BY <1>4, <1>7 DEF AgreedAt
<1>13. \A m \in Nodes, t \in Servers : m # n \/ t # s => NodeKept(m, t)
  <2> SUFFICES ASSUME NEW m \in Nodes, NEW t \in Servers, m # n \/ t # s
      PROVE  NodeKept(m, t)
    OBVIOUS
  <2>1. /\ Untouched(m, t)' => Untouched(m, t)
        /\ Greeting(m, t)' => Greeting(m, t)
        /\ Asking(m, t)' => Asking(m, t)
    BY <1>0, <1>1 DEF Untouched, Over, Engaged, Greeting, Asking
  <2>2. m \in Clients /\ ~Untouched(m, t) => myNodeID'[m] = myNodeID[m]
    BY <1>2, <1>11, <1>12
  <2> QED BY <1>1, <2>1, <2>2 DEF NodeKept
<1>14. \A m \in Nodes, t \in Servers : Untouched(m, t)' => Untouched(m, t)
  BY <1>9, <1>13 DEF NodeKept
<1> HIDE DEF a, q
<1>15. AllLinks'
  <2>1. OnceAt(n, s)'
    BY <1>8, <1>9, <1>10 DEF OnceAt, ServerKept
  <2>2. BytesAt(n, s)'
    <3>1. Len(q) = 1 => Append(q, MetaMessage)[1] = q[1] /\ q # <<>>
      BY <1>3, <1>6
    <3>2. /\ Greeted(n, s) => IsId(q[1], n) /\ ~Reading(n, s)
          /\ Reading(n, s) => (n \in Servers => peer[s].id = n) /\ ~Greeted(n, s)
      BY <1>6, <1>7, <1>10, <3>1 DEF BytesAt, q, Greeted, Reading
    <3>3. (Reading(n, s) => peer'[s].id = peer[s].id)
          /\ (Reading(n, s)' <=> Reading(n, s)) /\ (Greeted(n, s)' <=> Greeted(n, s))
          /\ ~Queued(n, s)'
      BY <1>2, <1>8, <1>10 DEF ServerKept
    <3> QED BY <1>1, <1>6, <1>9, <1>10, <3>1, <3>2, <3>3 DEF BytesAt
  <2>3. ASSUME n \in Clients PROVE AgreedAt(n, s)'
    <3>1. CASE s = 1
      <4>1. /\ Greeted(n, s) => a[1].id = maxNodeID
            /\ Reading(n, s) => a[1].id = peer[s].id /\ peer[s].id # 0
        BY <1>2, <1>7, <2>3, <3>1 DEF AgreedAt, a
      <4>2. maxNodeID # 0
        BY Constants DEF TypeOK
      <4>3. /\ Greeted(n, s) => myNodeID'[n] = maxNodeID
            /\ Reading(n, s) => myNodeID'[n] = peer[s].id /\ peer[s].id # 0
        BY <1>11, <2>3, <4>1, <4>2
      <4> QED BY <1>1, <1>8, <1>9, <3>1, <4>3 DEF AgreedAt, ServerKept
    <3>2. CASE s # 1
      <4>1. /\ \A k \in 1..Len(a) : a[k].id = 0
            /\ Greeted(n, s) => (q # <<>> => q[1].id = myNodeID[n])
            /\ Reading(n, s) => peer[s].id = myNodeID[n]
        BY <1>7, <2>3, <3>2 DEF AgreedAt, a, q
      <4>2. \A k \in 1..Len(Tail(a)) : Tail(a)[k].id = 0
        <5> SUFFICES ASSUME NEW k \in 1..Len(Tail(a)) PROVE Tail(a)[k].id = 0
          OBVIOUS
        <5>1. k \in 1..(Len(a) - 1) /\ k + 1 \in 1..Len(a)
          BY <1>4
        <5> QED BY <1>4, <4>1, <5>1
      <4>3. myNodeID' = myNodeID
        BY <1>11, <1>12, <2>3, <3>2
      <4>4. Greeted(n, s) => Append(q, MetaMessage)[1] = q[1] /\ q # <<>>
        BY <1>3, <1>6, <1>10 DEF Greeted, Reading
      <4> QED BY <1>1, <1>8, <1>10, <3>2, <4>1, <4>2, <4>3, <4>4 DEF AgreedAt, ServerKept
    <3> QED BY <3>1, <3>2
  <2> QED BY <1>2, <1>8, <1>13, <2>1, <2>2, <2>3, OtherLinks
<1>16. \A c \in Clients, i \in Nat : Claims(c, i)' => Claims(c, i)
  <2> SUFFICES ASSUME NEW c \in Clients, NEW i \in Nat, Claims(c, i)'  PROVE Claims(c, i)
    OBVIOUS
  <2>1. CASE c # n
    BY <1>1, <1>11, <2>1, SameClaims, Constants DEF Nodes
  <2>2. CASE c = n /\ s # 1
    <3>1. myNodeID' = myNodeID
      BY <1>11, <1>12, <2>2
    <3> QED BY <1>1, <2>2, <3>1, SameClaims, Constants DEF Nodes
  <2>3. CASE c = n /\ s = 1
    <3>1. i # 0
      BY DEF Claims
    <3>2. CASE myNodeID'[c] = i
      <4>1. i = myNodeID[c] \/ (i = a[1].id /\ 1 \in 1..Len(a))
        BY <1>4, <1>11, <2>3, <3>2
      <4> QED BY <2>3, <3>1, <4>1 DEF Claims, a
    <3>3. ASSUME NEW k \in 1..Len(toNode'[<<c, 1>>]), toNode'[<<c, 1>>][k].id = i
          PROVE  Claims(c, i)
      <4>0. toNode'[<<c, 1>>] = Tail(a)
        BY <1>1, <2>3
      <4>1. k \in 1..(Len(a) - 1) /\ k + 1 \in 1..Len(a)
        BY <1>4, <3>3, <4>0
      <4>2. a[k + 1].id = i
        BY <1>4, <3>3, <4>0, <4>1
      <4> QED BY <2>3, <3>1, <4>1, <4>2 DEF Claims, a
    <3> QED BY <3>2, <3>3 DEF Claims
  <2> QED BY <2>1, <2>2, <2>3
<1>17. TypeOK'
  <2>1. phase' \in [Nodes -> {"down", "connect", "greet", "id", "meta", "done",
                          "failed", "crashed"}]
    BY DEF ReadID, Goto, TypeOK
  <2>2. toServer' \in [Links -> Seq(Message)]
    BY <1>0, <1>2, <1>5 DEF ReadID, TypeOK, Link
  <2>3. toNode' \in [Links -> Seq(Message)]
    BY <1>0, <1>1, <1>2, <1>4 DEF ReadID, TypeOK, Link, a
  <2>4. ASSUME n \in Clients, a[1].id # 0 PROVE a[1].id \in NodeIDs
    <3>1. s = 1 /\ 1 \in 1..Len(a) /\ a[1].id \in Nat
      BY <1>4, <1>12, <2>4, Constants DEF Message
    <3>2. Claims(n, a[1].id)
      BY <2>4, <3>1 DEF Claims, a
    <3> QED BY <2>4, <3>1, <3>2 DEF Unclaimed
  <2>5. myNodeID' \in [Clients -> NodeIDs \cup {0}]
    BY <1>1, <1>4, <2>4 DEF TakeID, TypeOK
  <2> QED BY <1>1, <2>1, <2>2, <2>3, <2>5 DEF TypeOK
<1>18. Order'
  BY <1>0, <1>1, <1>2 DEF Order, Engaged, Nodes
<1>19. NoTwice' /\ Unclaimed' /\ Named' /\ PeerQueue'
  <2>1. \A c \in Clients : Alive(c)' <=> Alive(c)
    BY <1>1 DEF Alive, Nodes
  <2> QED BY <1>1, <1>8, <1>14, <1>16, <2>1, NodeStepKeeps DEF ServerKept
<1>20. Known'
  <2> SUFFICES ASSUME NEW t \in Servers, NEW i \in NodeIDs, NEW m \in Nodes, Knows(t, i, m)'
      PROVE  /\ i = IF m \in Clients THEN myNodeID'[m] ELSE m
             /\ m \in Clients => ~Untouched(m, t)' /\ ~Greeting(m, t)' /\ ~Asking(m, t)'
    BY DEF Known
  <2>1. Knows(t, i, m)
    BY <1>1, SamePeers
  <2>2. /\ i = IF m \in Clients THEN myNodeID[m] ELSE m
        /\ m \in Clients => ~Untouched(m, t) /\ ~Greeting(m, t) /\ ~Asking(m, t)
    BY <2>1 DEF Known
  <2>3. CASE m \in Clients
    <3>1. m # n \/ t # s
      BY <1>2, <2>2, <2>3
    <3> QED BY <1>13, <2>2, <2>3, <3>1 DEF NodeKept
  <2>4. CASE m \notin Clients
    BY <2>2, <2>4
  <2> QED BY <2>3, <2>4
<1>21. QueueZero'
  BY <1>1, SamePeers
<1> QED BY <1>15, <1>17, <1>18, <1>19, <1>20, <1>21

LEMMA ReadMetaStep == ASSUME IInv, NEW n \in Nodes, ReadMeta(n) PROVE IInv'
<1> USE DEF IInv
<1>0. PICK s \in Servers : s = target[n]
  BY DEF TypeOK
<1> DEFINE a == toNode[<<n, s>>]
<1>1. /\ phase[n] = "meta" /\ phase'[n] \in {"done", "connect"}
      /\ a # <<>> /\ toNode'[<<n, s>>] = Tail(a)
      /\ remaining'[n] = remaining[n] \ {s}
      /\ \A m \in Nodes : m # n => phase'[m] = phase[m] /\ remaining'[m] = remaining[m]
      /\ \A m \in Nodes, t \in Servers : m # n \/ t # s =>
           toNode'[<<m, t>>] = toNode[<<m, t>>]
      /\ UNCHANGED <<target, myNodeID, listenVars, listener, peer, maxNodeID, cqPtr,
                     backlog, toServer>>
  BY <1>0 DEF ReadMeta, Goto, TypeOK, listenVars, Link, Links
<1>2. /\ s \in remaining[n] /\ <<n, s>> \in Links /\ Engaged(n) /\ ~Untouched(n, s)
  BY <1>0, <1>1, EngagedFacts DEF Engaged
<1>3. /\ Len(a) \in Nat \ {0} /\ Tail(a) \in Seq(Message)
      /\ Len(Tail(a)) = Len(a) - 1
      /\ \A k \in 1..(Len(a) - 1) : Tail(a)[k] = a[k + 1]
  BY <1>1, <1>2, Sequences, TailFacts
<1>4. OnceAt(n, s) /\ BytesAt(n, s) /\ (n \in Clients => AgreedAt(n, s))
  BY <1>2 DEF AllLinks
<1>5. \A m \in Nodes, t \in Servers : ServerKept(m, t)
  BY <1>1, SameServerSide
<1>6. ~Untouched(n, s)' /\ ~Greeting(n, s)' /\ ~Asking(n, s)' /\ ~Queued(n, s)
  BY <1>0, <1>1, <1>4 DEF Untouched, Greeting, Asking, OnceAt
<1>7. \A m \in Nodes, t \in Servers : m # n \/ t # s => NodeKept(m, t)
  BY <1>0, <1>1 DEF NodeKept, Untouched, Over, Engaged, Greeting, Asking
<1>8. \A m \in Nodes, t \in Servers : Untouched(m, t)' => Untouched(m, t)
  BY <1>6, <1>7 DEF NodeKept
<1> HIDE DEF a
<1>9. \A k \in 1..Len(Tail(a)) : k + 1 \in 1..Len(a) /\ Tail(a)[k] = a[k + 1]
  BY <1>3
<1>10. AllLinks'
  <2>1. OnceAt(n, s)' /\ BytesAt(n, s)'
    BY <1>1, <1>4, <1>5, <1>6 DEF OnceAt, BytesAt, ServerKept
  <2>2. ASSUME n \in Clients PROVE AgreedAt(n, s)'
    <3>1. s # 1 => \A k \in 1..Len(Tail(a)) : Tail(a)[k].id = 0
      BY <1>4, <1>9, <2>2 DEF AgreedAt, a
    <3> QED BY <1>1, <1>4, <1>5, <1>6, <2>2, <3>1 DEF AgreedAt, ServerKept
  <2> QED BY <1>5, <1>7, <2>1, <2>2, OtherLinks
<1>11. \A c \in Clients, i \in Nat : Claims(c, i)' => Claims(c, i)
  <2> SUFFICES ASSUME NEW c \in Clients, NEW i \in Nat, Claims(c, i)'  PROVE Claims(c, i)
    OBVIOUS
  <2>1. CASE c # n \/ s # 1
    BY <1>1, <2>1, SameClaims, Constants DEF Nodes
  <2>2. CASE c = n /\ s = 1
    <3>1. i # 0 /\ toNode'[<<c, 1>>] = Tail(a) /\ myNodeID' = myNodeID
      BY <1>1, <2>2 DEF Claims
    <3>2. CASE myNodeID'[c] = i
      BY <3>1, <3>2 DEF Claims
    <3>3. ASSUME NEW k \in 1..Len(toNode'[<<c, 1>>]), toNode'[<<c, 1>>][k].id = i
          PROVE  Claims(c, i)
      <4>1. k + 1 \in 1..Len(a) /\ a[k + 1].id = i
        BY <1>9, <3>1, <3>3
      <4> QED BY <2>2, <3>1, <4>1 DEF Claims, a
    <3> QED BY <3>2, <3>3 DEF Claims
  <2> QED BY <2>1, <2>2
<1>12. peers' = [peers EXCEPT ![n][s] = [node |-> {s}, cq |-> 0]] /\ s \in NodeIDs
  BY <1>0, Constants DEF ReadMeta
<1>13. TypeOK'
  <2>1. phase' \in [Nodes -> {"down", "connect", "greet", "id", "meta", "done",
                          "failed", "crashed"}]
    BY DEF ReadMeta, Goto, TypeOK
  <2>2. remaining' \in [Nodes -> SUBSET Servers]
    BY DEF ReadMeta, TypeOK
  <2>3. toNode' \in [Links -> Seq(Message)]
    BY <1>0, <1>2, <1>3 DEF ReadMeta, TypeOK, Link, a
  <2>4. [node |-> {s}, cq |-> 0] \in PeerData
    BY ConnectionAssumption DEF PeerData, Nodes
  <2>5. peers' \in [Nodes -> [NodeIDs -> PeerData]]
    BY <1>12, <2>4 DEF TypeOK
  <2> QED BY <1>1, <2>1, <2>2, <2>3, <2>5 DEF TypeOK
<1>14. Order'
  <2>1. ASSUME NEW m \in Nodes, Engaged(m)' PROVE target'[m] \in remaining'[m]
    BY <1>1, <2>1 DEF Order, Engaged
  <2>2. ASSUME NEW c \in Clients, 1 \in remaining'[c]
        PROVE  remaining'[c] = Servers /\ (Engaged(c)' => target'[c] = 1)
    <3>1. CASE c # n
      BY <1>1, <2>2, <3>1 DEF Order, Engaged, Nodes
    <3>2. CASE c = n
      BY <1>0, <1>1, <1>2, <2>2, <3>2 DEF Order
    <3> QED BY <3>1, <3>2
  <2> QED BY <2>1, <2>2 DEF Order
<1>15. NoTwice' /\ Unclaimed' /\ Named' /\ PeerQueue'
  <2>1. \A c \in Clients : Alive(c)' <=> Alive(c)
    BY <1>1 DEF Alive, Nodes
  <2> QED BY <1>1, <1>5, <1>8, <1>11, <2>1, NodeStepKeeps DEF ServerKept
<1>16. Known'
  <2> SUFFICES ASSUME NEW t \in Servers, NEW i \in NodeIDs, NEW m \in Nodes, Knows(t, i, m)'
      PROVE  /\ i = IF m \in Clients THEN myNodeID'[m] ELSE m
             /\ m \in Clients => ~Untouched(m, t)' /\ ~Greeting(m, t)' /\ ~Asking(m, t)'
    BY DEF Known
  <2>1. CASE t = n /\ i = s
    <3>1. m = s
      <4>1. peers'[t][i].node = {s}
        BY <1>12, <2>1 DEF TypeOK, Nodes
      <4>2. {m} = {s}
        BY <4>1 DEF Knows
      <4> QED BY <4>2, Zenon
    <3> QED BY <2>1, <3>1, Constants
  <2>2. CASE ~(t = n /\ i = s)
    <3>1. Knows(t, i, m)
      <4>1. peers'[t][i] = peers[t][i]
        BY <1>12, <2>2 DEF TypeOK, Nodes
      <4> QED BY <4>1 DEF Knows
    <3>2. /\ i = IF m \in Clients THEN myNodeID[m] ELSE m
          /\ m \in Clients => ~Untouched(m, t) /\ ~Greeting(m, t) /\ ~Asking(m, t)
      BY <3>1 DEF Known
    <3>3. ~Untouched(m, t) /\ ~Greeting(m, t) /\ ~Asking(m, t) =>
            ~Untouched(m, t)' /\ ~Greeting(m, t)' /\ ~Asking(m, t)'
      BY <1>6, <1>7 DEF NodeKept
    <3> QED BY <1>1, <3>2, <3>3
  <2> QED BY <2>1, <2>2
<1>17. QueueZero'
  <2> SUFFICES ASSUME NEW t \in Servers, NEW i \in NodeIDs, peers'[t][i].node # {}
      PROVE  peers'[t][i].cq = 0 <=> i \in Servers
    BY DEF QueueZero
  <2>1. CASE t = n /\ i = s
    BY <1>12, <2>1 DEF TypeOK, Nodes
  <2>2. CASE ~(t = n /\ i = s)
    BY <1>12, <2>2 DEF TypeOK, Nodes, QueueZero
  <2> QED BY <2>1, <2>2
<1> QED BY <1>10, <1>13, <1>14, <1>15, <1>16, <1>17

-----------------------------------------------------------------------------
(***************************************************************************)
(* The Listener.                                                           *)
(***************************************************************************)

\* A node that has still to be named leaves a NodeID for it.
LEMMA ToBeNamed ==
  ASSUME IInv, NEW c \in Clients, Queued(c, 1) \/ Greeted(c, 1)
  PROVE  maxNodeID \in NodeIDs \ Servers
<1>1. PICK N \in SUBSET Clients :
        /\ maxNodeID = ServerCount + 1 + Cardinality(N)
        /\ \A d \in N : ~Queued(d, 1) /\ ~Greeted(d, 1)
  BY DEF IInv, Named
<1>2. N \cup {c} \subseteq Clients /\ c \notin N
  BY <1>1
<1>3. IsFiniteSet(N) /\ Cardinality(N) \in Nat /\ Cardinality(N \cup {c}) = Cardinality(N) + 1
  BY <1>2, ConnectionAssumption, FS_Subset, FS_AddElement, FS_CardinalityType
<1>4. Cardinality(N \cup {c}) <= Cardinality(Clients)
  BY <1>2, ConnectionAssumption, FS_Subset
<1> QED BY <1>1, <1>3, <1>4, Constants DEF NodeIDs, Servers

\* Known where the Listener has not entered a node in peers[].
LEMMA KnownKept ==
  ASSUME Known, UNCHANGED <<connVars, peers>>  PROVE Known'
BY SamePeers, SameNodeSide DEF Known, connVars

LEMMA AcceptStep == ASSUME IInv, NEW s \in Servers, Accept(s) PROVE IInv'
<1> USE DEF IInv
<1> DEFINE b == backlog[s]
           id == IF s = 1 THEN maxNodeID ELSE 0
<1>1. b # <<>> /\ b \in Seq(Nodes)
  BY DEF Accept, TypeOK
<1>2. PICK n \in Nodes : n = Head(b)
  BY <1>1
<1>3. /\ Len(b) \in Nat \ {0} /\ Tail(b) \in Seq(Nodes) /\ Len(Tail(b)) = Len(b) - 1
      /\ \A k \in 1..(Len(b) - 1) : Tail(b)[k] = b[k + 1]
      /\ b[1] = n
  BY <1>1, <1>2, TailFacts
<1> HIDE DEF b
<1>4. /\ listener[s] = "accept" /\ listener'[s] = "id" /\ peer'[s].node = n
      /\ \A t \in Servers : t # s => /\ listener'[t] = listener[t] /\ peer'[t] = peer[t]
                                     /\ backlog'[t] = backlog[t]
      /\ backlog'[s] = Tail(b)
      /\ toNode'[<<n, s>>] = Append(toNode[<<n, s>>], IdMessage(id, TRUE))
      /\ \A m \in Nodes, t \in Servers : m # n \/ t # s =>
           toNode'[<<m, t>>] = toNode[<<m, t>>]
      /\ UNCHANGED <<connVars, phase, remaining, target, myNodeID, maxNodeID, cqPtr, peers,
                     toServer>>
  BY <1>2 DEF Accept, TypeOK, Links, connVars, b
<1>5. /\ \A m \in Nodes, t \in Servers : m # n \/ t # s => (Queued(m, t)' <=> Queued(m, t))
      /\ Queued(n, s) /\ ~Queued(n, s)'
  <2>1. \A m \in Nodes, t \in Servers : t # s => (Queued(m, t)' <=> Queued(m, t))
    BY <1>4 DEF Queued
  <2>2. Queued(n, s)
    BY <1>3 DEF Queued, b
  <2>3. \A m \in Nodes : Queued(m, s)' => Queued(m, s) /\ m # n
    <3> SUFFICES ASSUME NEW m \in Nodes, NEW k \in 1..Len(Tail(b)), Tail(b)[k] = m
        PROVE  Queued(m, s) /\ m # n
      BY <1>4 DEF Queued
    <3>1. k + 1 \in 1..Len(b) /\ b[k + 1] = m /\ k + 1 # 1 /\ 1 \in 1..Len(b)
          /\ k + 1 \in Nat
      BY <1>3
    <3>2. Queued(m, s)
      BY <3>1 DEF Queued, b
    <3>3. m # n
      BY <1>3, <3>1 DEF NoTwice, b
    <3> QED BY <3>2, <3>3
  <2>4. ASSUME NEW m \in Nodes, m # n, Queued(m, s) PROVE Queued(m, s)'
    <3>1. PICK k \in 1..Len(b) : b[k] = m
      BY <2>4 DEF Queued, b
    <3>2. k # 1 /\ k - 1 \in 1..(Len(b) - 1) /\ (k - 1) + 1 = k
      BY <1>3, <2>4, <3>1
    <3>3. Tail(b)[k - 1] = m /\ k - 1 \in 1..Len(Tail(b))
      BY <1>3, <3>1, <3>2
    <3> QED BY <1>4, <3>3 DEF Queued
  <2> QED BY <2>1, <2>2, <2>3, <2>4
<1>6. /\ \A m \in Nodes, t \in Servers : m # n \/ t # s =>
           (Greeted(m, t)' <=> Greeted(m, t)) /\ (Reading(m, t)' <=> Reading(m, t))
           /\ (Reading(m, t) => t # s)
      /\ Greeted(n, s)' /\ ~Reading(n, s)'
      /\ \A m \in Nodes : ~Greeted(m, s) /\ ~Reading(m, s)
  BY <1>4 DEF Greeted, Reading
<1>7. \A m \in Nodes, t \in Servers : ServerKept(m, t) \/ (m = n /\ t = s)
  BY <1>4, <1>5, <1>6 DEF ServerKept
<1>8. \A m \in Nodes, t \in Servers :
        /\ Untouched(m, t)' <=> Untouched(m, t)
        /\ Greeting(m, t)' <=> Greeting(m, t)
        /\ Asking(m, t)' <=> Asking(m, t)
  BY <1>4, SameNodeSide
<1>9. \A m \in Nodes, t \in Servers : NodeKept(m, t) \/ (m = n /\ t = s)
  BY <1>4, <1>8 DEF NodeKept
<1>10. OnceAt(n, s) /\ BytesAt(n, s) /\ (n \in Clients => AgreedAt(n, s))
  BY DEF AllLinks
<1>11. toNode[<<n, s>>] = <<>> /\ ~Untouched(n, s)
  BY <1>5, <1>10 DEF OnceAt
<1>12. IdMessage(id, TRUE) \in Message
  BY Constants DEF IdMessage, Message, TypeOK, NodeIDs
<1>13. /\ Len(toNode'[<<n, s>>]) = 1 /\ toNode'[<<n, s>>] # <<>>
       /\ toNode'[<<n, s>>][1].id = id
  BY <1>4, <1>11 DEF IdMessage
<1>14. AllLinks'
  <2>1. OnceAt(n, s)'
    BY <1>5, <1>6, <1>8, <1>11 DEF OnceAt
  <2>2. BytesAt(n, s)'
    BY <1>4, <1>5, <1>6, <1>8, <1>10 DEF BytesAt
  <2>3. ASSUME n \in Clients PROVE AgreedAt(n, s)'
    <3>1. Len(toServer[<<n, s>>]) # 2
      BY <1>5, <1>10 DEF BytesAt
    <3>2. \A k \in 1..Len(toNode'[<<n, s>>]) : k = 1
      BY <1>13
    <3> QED BY <1>4, <1>5, <1>6, <1>8, <1>10, <1>13, <2>3, <3>1, <3>2 DEF AgreedAt
  <2> QED BY <1>7, <1>9, <2>1, <2>2, <2>3, OtherLinks
<1>15. TypeOK'
  <2>1. listener' \in [Servers -> {"accept", "id", "meta", "spin"}]
    BY DEF Accept, TypeOK
  <2>2. peer' \in [Servers -> [node : Nodes, id : NodeIDs \cup {0}, cq : 0..(CqNum - 1)]]
    BY <1>2 DEF Accept, TypeOK, b
  <2>3. backlog' \in [Servers -> Seq(Nodes)]
    BY <1>3 DEF Accept, TypeOK, b
  <2>4. toNode' \in [Links -> Seq(Message)]
    <3>1. toNode' = [toNode EXCEPT ![<<n, s>>] = Append(@, IdMessage(id, TRUE))]
      BY <1>2 DEF Accept, b
    <3>2. Append(toNode[<<n, s>>], IdMessage(id, TRUE)) \in Seq(Message)
      BY <1>12, Sequences, AppendFacts
    <3> HIDE DEF id
    <3> QED BY <3>1, <3>2 DEF TypeOK
  <2> QED BY <1>4, <2>1, <2>2, <2>3, <2>4 DEF TypeOK
<1>16. Order' /\ PeerQueue' /\ QueueZero' /\ Known'
  <2>1. PeerQueue'
    BY <1>4 DEF PeerQueue
  <2>2. Order'
    BY <1>4 DEF Order, Engaged
  <2> QED BY <1>4, <2>1, <2>2, SamePeers, KnownKept
<1>17. NoTwice'
  <2>1. ASSUME NEW j \in Nat, NEW k \in Nat, j \in 1..Len(Tail(b)), k \in 1..Len(Tail(b)),
               Tail(b)[j] = Tail(b)[k]
        PROVE  j = k
    <3>1. /\ j + 1 \in 1..Len(b) /\ k + 1 \in 1..Len(b) /\ b[j + 1] = b[k + 1]
          /\ j + 1 \in Nat /\ k + 1 \in Nat
      BY <1>3, <2>1
    <3>2. j + 1 = k + 1
      BY <3>1 DEF NoTwice, b
    <3> QED BY <3>2
  <2>2. ASSUME NEW t \in Servers, t # s, NEW j \in Nat, NEW k \in Nat,
               j \in 1..Len(backlog'[t]), k \in 1..Len(backlog'[t]),
               backlog'[t][j] = backlog'[t][k]
        PROVE  j = k
    BY <1>4, <2>2 DEF NoTwice
  <2>3. backlog'[s] = Tail(b)
    BY <1>4
  <2> SUFFICES ASSUME NEW t \in Servers, NEW j \in Nat, NEW k \in Nat,
                      j \in 1..Len(backlog'[t]), k \in 1..Len(backlog'[t]),
                      backlog'[t][j] = backlog'[t][k]
      PROVE  j = k
    BY DEF NoTwice
  <2> QED BY <2>1, <2>2, <2>3
<1>18. Unclaimed'
  <2>1. \A c \in Clients, i \in Nat : c # n \/ s # 1 => (Claims(c, i)' <=> Claims(c, i))
    BY <1>4, SameClaims, Constants DEF Nodes
  <2>2. s = 1 => \A i \in Nat : n \in Clients /\ Claims(n, i)' => Claims(n, i) \/ i = maxNodeID
    <3>1. \A k \in 1..Len(toNode'[<<n, s>>]) : toNode'[<<n, s>>][k].id = id
      BY <1>13
    <3>2. myNodeID' = myNodeID
      BY <1>4
    <3> QED BY <3>1, <3>2 DEF Claims
  <2>3. \A c \in Clients : Alive(c)' <=> Alive(c)
    BY <1>4 DEF Alive
  <2>4. s = 1 => \A c \in Clients, i \in Nat : Alive(c) /\ Claims(c, i) => i < maxNodeID
    BY <1>6 DEF Unclaimed, Nodes
  <2>5. s # 1 => \A c \in Clients : Greeted(c, 1)' <=> Greeted(c, 1)
    BY <1>6, Constants DEF Nodes
  <2>6. maxNodeID \in Nat
    BY Constants DEF TypeOK
  <2>7. s = 1 /\ n \in Clients => maxNodeID \in NodeIDs \ Servers
    BY <1>5, ToBeNamed
  <2>8. CASE s # 1
    BY <1>4, <2>1, <2>3, <2>5, <2>8 DEF Unclaimed
  <2>9. CASE s = 1
    <3>1. \A c \in Clients, i \in Nat : Claims(c, i)' => i \in NodeIDs \ Servers
      BY <2>1, <2>2, <2>7, <2>9 DEF Unclaimed
    <3>2. \A c \in Clients, i \in Nat : Alive(c)' /\ Claims(c, i)' =>
            i < maxNodeID \/ (i = maxNodeID /\ c = n)
      BY <2>1, <2>2, <2>3, <2>4, <2>9
    <3>3. \A c, d \in Clients, i \in Nat :
            Alive(c)' /\ Alive(d)' /\ Claims(c, i)' /\ Claims(d, i)' => c = d
      <4> SUFFICES ASSUME NEW c \in Clients, NEW d \in Clients, NEW i \in Nat,
                          Alive(c)', Alive(d)', Claims(c, i)', Claims(d, i)'
          PROVE  c = d
        OBVIOUS
      <4>1. CASE i = maxNodeID
        BY <2>6, <3>2, <4>1
      <4>2. CASE i # maxNodeID
        <5>1. Claims(c, i) /\ Claims(d, i)
          BY <2>1, <2>2, <2>9, <4>2
        <5> QED BY <2>3, <5>1 DEF Unclaimed
      <4> QED BY <4>1, <4>2
    <3> QED BY <1>4, <1>6, <2>9, <3>1, <3>2, <3>3 DEF Unclaimed
  <2> QED BY <2>8, <2>9
<1>19. Named'
  <2>1. PICK N \in SUBSET Clients :
          /\ maxNodeID = ServerCount + 1 + Cardinality(N)
          /\ \A c \in N : ~Queued(c, 1) /\ ~Greeted(c, 1) /\ ~Untouched(c, 1)
    BY DEF Named
  <2>2. ASSUME NEW c \in N
        PROVE  ~Queued(c, 1)' /\ ~Greeted(c, 1)' /\ ~Untouched(c, 1)'
    <3>1. c \in Nodes /\ 1 \in Servers /\ (c # n \/ 1 # s)
      BY <1>5, <2>1, Constants DEF Nodes
    <3> QED BY <1>5, <1>6, <1>8, <2>1, <3>1
  <2> QED BY <1>4, <2>1, <2>2 DEF Named
<1> QED BY <1>14, <1>15, <1>16, <1>17, <1>18, <1>19

LEMMA ListenIDStep == ASSUME IInv, NEW s \in Servers, ListenID(s) PROVE IInv'
<1> USE DEF IInv
<1>0. PICK n \in Nodes : n = peer[s].node
  BY DEF TypeOK
<1> DEFINE q == toServer[<<n, s>>]
           a == toNode[<<n, s>>]
           m0 == Head(Received(s))
           named == ~m0.isServer /\ s = 1
           id == IF named THEN maxNodeID ELSE m0.id
           cq == IF id \in Servers THEN 0 ELSE cqPtr'[s]
<1>1. q # <<>> /\ q \in Seq(Message) /\ a \in Seq(Message) /\ <<n, s>> \in Links
  BY <1>0, Sequences DEF ListenID, Received
<1>2. /\ Len(q) \in Nat \ {0} /\ Tail(q) \in Seq(Message) /\ Len(Tail(q)) = Len(q) - 1
      /\ Head(q) = q[1] /\ q[1] \in Message
  BY <1>1, TailFacts
<1>3. MetaMessage \in Message /\ MetaMessage.id = 0
  BY Constants DEF MetaMessage, Message
<1>4. /\ Append(a, MetaMessage) \in Seq(Message) /\ Append(a, MetaMessage) # <<>>
      /\ Len(a) \in Nat /\ Len(Append(a, MetaMessage)) = Len(a) + 1
      /\ \A k \in 1..Len(a) : Append(a, MetaMessage)[k] = a[k]
      /\ Append(a, MetaMessage)[Len(a) + 1] = MetaMessage
  <2> HIDE DEF a
  <2> QED BY <1>1, <1>3, AppendFacts
<1>41. m0 = q[1] /\ m0 \in Message
  BY <1>0, <1>2 DEF Received
<1>5. /\ maxNodeID' = IF named THEN maxNodeID + 1 ELSE maxNodeID
      /\ cqPtr' = IF id \in Servers THEN cqPtr ELSE [cqPtr EXCEPT ![s] = NextCq(s)]
      /\ peer' = [peer EXCEPT ![s].id = id, ![s].cq = cq]
      /\ toServer' = [toServer EXCEPT ![<<n, s>>] = Tail(q)]
      /\ toNode' = [toNode EXCEPT ![<<n, s>>] = Append(a, MetaMessage)]
  <2>1. toServer' = [toServer EXCEPT ![<<n, s>>] = Tail(q)]
    BY <1>0 DEF ListenID, Consume
  <2>2. toNode' = [toNode EXCEPT ![<<n, s>>] = Append(a, MetaMessage)]
    BY <1>0 DEF ListenID
  <2>3. /\ NameClient(s, m0)
        /\ cqPtr' = IF id \in Servers THEN cqPtr ELSE [cqPtr EXCEPT ![s] = NextCq(s)]
        /\ peer'  = [peer EXCEPT ![s].id = id, ![s].cq = cq]
    BY Zenon DEF ListenID
  <2>4. maxNodeID' = IF named THEN maxNodeID + 1 ELSE maxNodeID
    <3> HIDE DEF m0
    <3> QED BY <2>3 DEF NameClient
  <2> QED BY <2>1, <2>2, <2>3, <2>4
<1>6. /\ listener[s] = "id" /\ listener' = [listener EXCEPT ![s] = "meta"]
      /\ UNCHANGED <<connVars, phase, remaining, target, myNodeID, peers, backlog>>
  BY DEF ListenID, connVars
<1> HIDE DEF q, a, m0, named, id, cq
<1>7. /\ peer'[s].node = n /\ peer'[s].id = id /\ peer'[s].cq = cq
      /\ toServer'[<<n, s>>] = Tail(q) /\ toNode'[<<n, s>>] = Append(a, MetaMessage)
      /\ listener'[s] = "meta"
      /\ \A t \in Servers : t # s => listener'[t] = listener[t] /\ peer'[t] = peer[t]
      /\ \A m \in Nodes, t \in Servers : m # n \/ t # s =>
           /\ toServer'[<<m, t>>] = toServer[<<m, t>>]
           /\ toNode'[<<m, t>>] = toNode[<<m, t>>]
  <2>1. /\ peer'[s].node = n /\ peer'[s].id = id /\ peer'[s].cq = cq
        /\ \A t \in Servers : t # s => peer'[t] = peer[t]
    BY <1>0, <1>5 DEF TypeOK
  <2>2. /\ toServer'[<<n, s>>] = Tail(q) /\ toNode'[<<n, s>>] = Append(a, MetaMessage)
    BY <1>1, <1>5 DEF TypeOK
  <2>4. \A m \in Nodes, t \in Servers : m # n \/ t # s =>
          toServer'[<<m, t>>] = toServer[<<m, t>>]
    BY <1>5 DEF TypeOK, Links
  <2>5. \A m \in Nodes, t \in Servers : m # n \/ t # s =>
          toNode'[<<m, t>>] = toNode[<<m, t>>]
    BY <1>5 DEF TypeOK, Links
  <2>3. listener'[s] = "meta" /\ \A t \in Servers : t # s => listener'[t] = listener[t]
    BY <1>6 DEF TypeOK
  <2> QED BY <2>1, <2>2, <2>3, <2>4, <2>5
<1>8. /\ Greeted(n, s) /\ ~Greeted(n, s)' /\ Reading(n, s)' /\ ~Reading(n, s)
      /\ \A m \in Nodes, t \in Servers :
           /\ Queued(m, t)' <=> Queued(m, t)
           /\ m # n \/ t # s => (Greeted(m, t)' <=> Greeted(m, t))
                                /\ (Reading(m, t)' <=> Reading(m, t))
           /\ Greeted(m, s) => m = n
           /\ Reading(m, t) => t # s
  BY <1>0, <1>6, <1>7 DEF Queued, Greeted, Reading
<1>9. OnceAt(n, s) /\ BytesAt(n, s) /\ (n \in Clients => AgreedAt(n, s))
  BY DEF AllLinks
<1>10. /\ ~Queued(n, s) /\ ~Untouched(n, s) /\ ~Greeting(n, s)
       /\ Len(q) <= 2 /\ IsId(m0, n) /\ (Asking(n, s) => Len(q) = 1)
  BY <1>1, <1>8, <1>9, <1>41 DEF OnceAt, BytesAt, q
<1>11. \A m \in Nodes, t \in Servers :
        /\ Untouched(m, t)' <=> Untouched(m, t)
        /\ Greeting(m, t)' <=> Greeting(m, t)
        /\ Asking(m, t)' <=> Asking(m, t)
  BY <1>6, SameNodeSide
<1>12. /\ named <=> s = 1 /\ n \in Clients
       /\ n \in Servers => id = n
       /\ n \in Clients /\ s # 1 => id = myNodeID[n]
       /\ n \in Clients /\ s = 1 => id = maxNodeID
  <2>1. m0.isServer <=> n \notin Clients
    BY <1>10, Constants DEF IsId, Nodes
  <2>2. n \in Clients /\ s # 1 => m0.id = myNodeID[n]
    BY <1>1, <1>8, <1>9, <1>41 DEF AgreedAt, q
  <2>3. n \in Servers => m0.id = n /\ n \notin Clients
    BY <1>10, Constants DEF IsId
  <2> QED BY <2>1, <2>2, <2>3 DEF named, id
<1>13. named => maxNodeID \in NodeIDs \ Servers
  BY <1>8, <1>12, ToBeNamed
<1>14. id \in NodeIDs \cup {0}
  BY <1>12, <1>13, Constants DEF TypeOK, Nodes
<1>15. \A m \in Nodes, t \in Servers : m # n \/ t # s => NodeKept(m, t) /\ ServerKept(m, t)
  <2> SUFFICES ASSUME NEW m \in Nodes, NEW t \in Servers, m # n \/ t # s
      PROVE  NodeKept(m, t) /\ ServerKept(m, t)
    OBVIOUS
  <2>1. NodeKept(m, t)
    BY <1>6, <1>7, <1>11 DEF NodeKept
  <2>2. t = 1 /\ Greeted(m, t) => maxNodeID' = maxNodeID
    BY <1>5, <1>8, <1>12
  <2>3. Reading(m, t) => peer'[t].id = peer[t].id
    BY <1>7, <1>8
  <2>4. ServerKept(m, t)
    BY <1>8, <2>2, <2>3 DEF ServerKept
  <2> QED BY <2>1, <2>4
<1>16. AllLinks'
  <2>1. OnceAt(n, s)'
    BY <1>8, <1>10, <1>11 DEF OnceAt
  <2>2. BytesAt(n, s)'
    <3>1. Len(Tail(q)) = Len(q) - 1 /\ Len(q) <= 2 /\ Len(q) \in Nat
          /\ (Asking(n, s) => Len(Tail(q)) = 0)
      BY <1>2, <1>10
    <3> QED BY <1>7, <1>8, <1>10, <1>11, <1>12, <3>1 DEF BytesAt
  <2>3. ASSUME n \in Clients PROVE AgreedAt(n, s)'
    <3>1. CASE s = 1
      <4>1. /\ Asking(n, s) => a # <<>> /\ a[1].id = maxNodeID
            /\ Len(q) = 2 => myNodeID[n] = maxNodeID
        BY <1>8, <1>9, <2>3, <3>1 DEF AgreedAt, a, q
      <4>2. a # <<>> => Append(a, MetaMessage)[1] = a[1]
        BY <1>1, <1>4
      <4>3. Len(Tail(q)) = 1 => Len(q) = 2
        <5>1. Len(q) \in Nat /\ Len(Tail(q)) = Len(q) - 1
          BY <1>2
        <5>2. \A x, y \in Nat : x = y - 1 /\ x = 1 => y = 2
          OBVIOUS
        <5> QED BY <5>1, <5>2
      <4>4. id = maxNodeID /\ id # 0
        BY <1>12, <1>13, <2>3, <3>1, Constants
      <4> QED
        BY <1>4, <1>6, <1>7, <1>8, <1>11, <3>1, <4>1, <4>2, <4>3, <4>4 DEF AgreedAt
    <3>2. CASE s # 1
      <4>1. \A k \in 1..Len(a) : a[k].id = 0
        BY <1>9, <2>3, <3>2 DEF AgreedAt, a
      <4>2. \A k \in 1..Len(Append(a, MetaMessage)) : Append(a, MetaMessage)[k].id = 0
        BY <1>3, <1>4, <4>1
      <4> QED BY <1>6, <1>7, <1>8, <1>10, <1>12, <2>3, <3>2, <4>2 DEF AgreedAt
    <3> QED BY <3>1, <3>2
  <2> QED BY <1>15, <2>1, <2>2, <2>3, OtherLinks
<1>17. cqPtr'[s] \in 0..(CqNum - 1) /\ (id \notin Servers => cqPtr'[s] # 0)
  <2>1. cqPtr[s] \in 0..(CqNum - 1)
    BY DEF TypeOK
  <2>2. NextCq(s) \in 1..(CqNum - 1)
    BY <2>1, ConnectionAssumption DEF NextCq
  <2>3. cqPtr'[s] = IF id \in Servers THEN cqPtr[s] ELSE NextCq(s)
    BY <1>5 DEF TypeOK
  <2>4. NextCq(s) \in 0..(CqNum - 1) /\ NextCq(s) # 0
    BY <2>2, ConnectionAssumption
  <2> QED BY <2>1, <2>3, <2>4
<1>18. TypeOK'
  <2>1. listener' \in [Servers -> {"accept", "id", "meta", "spin"}]
    BY <1>6 DEF TypeOK
  <2>2. cq \in 0..(CqNum - 1)
    BY <1>17, ConnectionAssumption DEF cq
  <2>3. peer' \in [Servers -> [node : Nodes, id : NodeIDs \cup {0}, cq : 0..(CqNum - 1)]]
    BY <1>5, <1>14, <2>2 DEF TypeOK
  <2>4. maxNodeID' \in NodeIDs \cup {ServerCount + Cardinality(Clients) + 1}
    <3>1. CASE named
      BY <1>5, <1>13, <3>1, Constants DEF NodeIDs
    <3>2. CASE ~named
      BY <1>5, <3>2 DEF TypeOK
    <3> QED BY <3>1, <3>2
  <2>5. cqPtr' \in [Servers -> 0..(CqNum - 1)]
    <3>1. NextCq(s) \in 0..(CqNum - 1)
      <4>1. cqPtr[s] \in 0..(CqNum - 1)
        BY DEF TypeOK
      <4> QED BY <4>1, ConnectionAssumption DEF NextCq
    <3> QED BY <1>5, <3>1 DEF TypeOK
  <2>6. toServer' \in [Links -> Seq(Message)] /\ toNode' \in [Links -> Seq(Message)]
    BY <1>2, <1>4, <1>5 DEF TypeOK
  <2> QED BY <1>6, <2>1, <2>3, <2>4, <2>5, <2>6 DEF TypeOK
<1>19. PeerQueue'
  <2>1. cq = 0 <=> id \in Servers
    BY <1>17 DEF cq
  <2> QED BY <1>7, <2>1 DEF PeerQueue
<1>20. Order' /\ NoTwice' /\ QueueZero' /\ Known'
  <2>1. Order' /\ NoTwice'
    BY <1>6 DEF Order, Engaged, NoTwice
  <2> QED BY <1>6, <2>1, SamePeers, KnownKept
<1>21. Unclaimed'
  <2>1. \A c \in Clients, i \in Nat : Claims(c, i)' => Claims(c, i)
    <3> SUFFICES ASSUME NEW c \in Clients, NEW i \in Nat, Claims(c, i)'  PROVE Claims(c, i)
      OBVIOUS
    <3>1. CASE c # n \/ s # 1
      BY <1>6, <1>7, <3>1, SameClaims, Constants DEF Nodes
    <3>2. CASE c = n /\ s = 1
      <4>1. i # 0 /\ toNode'[<<c, 1>>] = Append(a, MetaMessage) /\ myNodeID' = myNodeID
        BY <1>6, <1>7, <3>2 DEF Claims
      <4>2. CASE myNodeID'[c] = i
        BY <4>1, <4>2 DEF Claims
      <4>3. ASSUME NEW k \in 1..Len(toNode'[<<c, 1>>]), toNode'[<<c, 1>>][k].id = i
            PROVE  Claims(c, i)
        <5>1. k \in 1..Len(a) /\ a[k].id = i
          BY <1>3, <1>4, <4>1, <4>3
        <5> QED BY <3>2, <4>1, <5>1 DEF Claims, a
      <4> QED BY <4>2, <4>3 DEF Claims
    <3> QED BY <3>1, <3>2
  <2>2. \A c \in Clients : Alive(c)' <=> Alive(c)
    BY <1>6 DEF Alive
  <2>3. maxNodeID \in Nat /\ (named => maxNodeID' = maxNodeID + 1)
        /\ (~named => maxNodeID' = maxNodeID)
    <3>1. maxNodeID \in Nat
      BY Constants DEF TypeOK
    <3> QED BY <1>5, <3>1
  <2>4. ~named => \A c \in Clients : Greeted(c, 1)' <=> Greeted(c, 1)
    BY <1>8, <1>12, Constants DEF Nodes
  <2>5. \A c \in Clients, i \in Nat : Alive(c)' /\ Claims(c, i)' =>
          i < maxNodeID' \/ (i = maxNodeID' /\ Greeted(c, 1)')
    <3> SUFFICES ASSUME NEW c \in Clients, NEW i \in Nat, Alive(c)', Claims(c, i)'
        PROVE  i < maxNodeID' \/ (i = maxNodeID' /\ Greeted(c, 1)')
      OBVIOUS
    <3>1. i < maxNodeID \/ (i = maxNodeID /\ Greeted(c, 1))
      BY <2>1, <2>2 DEF Unclaimed
    <3>2. CASE named
      BY <2>3, <3>1, <3>2
    <3>3. CASE ~named
      BY <2>3, <2>4, <3>1, <3>3
    <3> QED BY <3>2, <3>3
  <2> QED BY <2>1, <2>2, <2>5 DEF Unclaimed
<1>22. Named'
  <2>1. PICK N \in SUBSET Clients :
          /\ maxNodeID = ServerCount + 1 + Cardinality(N)
          /\ \A c \in N : ~Queued(c, 1) /\ ~Greeted(c, 1) /\ ~Untouched(c, 1)
    BY DEF Named
  <2>2. \A c \in N : c # n \/ s # 1
    BY <1>8, <2>1
  <2>3. ASSUME NEW c \in Clients, c \in N \/ (named /\ c = n)
        PROVE  ~Queued(c, 1)' /\ ~Greeted(c, 1)' /\ ~Untouched(c, 1)'
    <3>1. c \in Nodes /\ 1 \in Servers
      BY Constants DEF Nodes
    <3>2. CASE c \in N
      BY <1>8, <1>11, <2>1, <2>2, <3>1, <3>2
    <3>3. CASE named /\ c = n
      BY <1>8, <1>10, <1>11, <1>12, <3>1, <3>3
    <3> QED BY <2>3, <3>2, <3>3
  <2>4. CASE ~named
    BY <1>5, <2>1, <2>3, <2>4 DEF Named
  <2>5. CASE named
    <3>1. n \in Clients /\ n \notin N /\ N \cup {n} \in SUBSET Clients
      BY <1>12, <2>2, <2>5
    <3>2. /\ Cardinality(N) \in Nat /\ Cardinality(N \cup {n}) = Cardinality(N) + 1
      BY <3>1, ConnectionAssumption, FS_Subset, FS_AddElement, FS_CardinalityType
    <3>3. maxNodeID' = ServerCount + 1 + Cardinality(N \cup {n})
      BY <1>5, <2>1, <2>5, <3>2, Constants
    <3>4. \A c \in N \cup {n} : ~Queued(c, 1)' /\ ~Greeted(c, 1)' /\ ~Untouched(c, 1)'
      BY <2>3, <2>5, <3>1
    <3> QED BY <3>1, <3>3, <3>4 DEF Named
  <2> QED BY <2>4, <2>5
<1> QED BY <1>16, <1>18, <1>19, <1>20, <1>21, <1>22

LEMMA ListenMetaStep == ASSUME IInv, NEW s \in Servers, ListenMeta(s) PROVE IInv'
<1> USE DEF IInv
<1>0. PICK n \in Nodes : n = peer[s].node
  BY DEF TypeOK
<1> DEFINE q == toServer[<<n, s>>]
           id == peer[s].id
           entry == [node |-> {n}, cq |-> peer[s].cq]
<1>1. q # <<>> /\ q \in Seq(Message) /\ <<n, s>> \in Links
  BY <1>0, Sequences DEF ListenMeta, Received
<1>2. Len(q) \in Nat \ {0} /\ Tail(q) \in Seq(Message) /\ Len(Tail(q)) = Len(q) - 1
  BY <1>1, TailFacts
<1>3. /\ listener[s] = "meta" /\ listener' = [listener EXCEPT ![s] = "accept"]
      /\ toServer' = [toServer EXCEPT ![<<n, s>>] = Tail(q)]
      /\ peers' = [peers EXCEPT ![s][id] = entry]
      /\ UNCHANGED <<connVars, phase, remaining, target, myNodeID, peer, maxNodeID, cqPtr,
                     backlog, toNode>>
  BY <1>0 DEF ListenMeta, Consume, connVars
<1> HIDE DEF q, id, entry
<1>4. /\ listener'[s] = "accept"
      /\ \A t \in Servers : t # s => listener'[t] = listener[t]
      /\ \A m \in Nodes, t \in Servers : m # n \/ t # s =>
           toServer'[<<m, t>>] = toServer[<<m, t>>]
  BY <1>1, <1>3 DEF TypeOK
<1>5. /\ Reading(n, s) /\ ~Greeted(n, s)' /\ ~Reading(n, s)' /\ ~Greeted(n, s)
      /\ \A m \in Nodes, t \in Servers :
           /\ Queued(m, t)' <=> Queued(m, t)
           /\ m # n \/ t # s => (Greeted(m, t)' <=> Greeted(m, t))
                                /\ (Reading(m, t)' <=> Reading(m, t))
  BY <1>0, <1>3, <1>4 DEF Queued, Greeted, Reading
<1>6. OnceAt(n, s) /\ BytesAt(n, s) /\ (n \in Clients => AgreedAt(n, s))
  BY DEF AllLinks
<1>7. ~Queued(n, s) /\ ~Untouched(n, s) /\ ~Greeting(n, s)
  BY <1>5, <1>6 DEF OnceAt
<1>8. ~Asking(n, s) /\ Len(q) = 1 /\ (n \in Servers => id = n)
  <2>1. /\ Len(q) <= 1 /\ (Asking(n, s) => Len(q) = 0) /\ (n \in Servers => id = n)
    BY <1>5, <1>6 DEF BytesAt, q, id
  <2>2. Len(q) = 1
    BY <1>2, <2>1
  <2> QED BY <2>1, <2>2
<1>9. n \in Clients => id = myNodeID[n]
  BY <1>5, <1>6, <1>8 DEF AgreedAt, q, id
<1>10. \A m \in Nodes, t \in Servers :
        /\ Untouched(m, t)' <=> Untouched(m, t)
        /\ Greeting(m, t)' <=> Greeting(m, t)
        /\ Asking(m, t)' <=> Asking(m, t)
  BY <1>3, SameNodeSide
<1>11. \A m \in Nodes, t \in Servers : m # n \/ t # s => NodeKept(m, t) /\ ServerKept(m, t)
  BY <1>3, <1>4, <1>5, <1>10 DEF NodeKept, ServerKept
<1>12. AllLinks'
  <2>1. OnceAt(n, s)' /\ BytesAt(n, s)'
    BY <1>5, <1>7, <1>8, <1>10 DEF OnceAt, BytesAt
  <2>2. ASSUME n \in Clients PROVE AgreedAt(n, s)'
    BY <1>3, <1>5, <1>6, <1>7, <1>8, <1>10, <2>2 DEF AgreedAt
  <2> QED BY <1>11, <2>1, <2>2, OtherLinks
<1>13. TypeOK'
  <2>1. listener' \in [Servers -> {"accept", "id", "meta", "spin"}]
    BY <1>3 DEF TypeOK
  <2>2. toServer' \in [Links -> Seq(Message)]
    BY <1>2, <1>3 DEF TypeOK
  <2>3. entry \in PeerData
    BY DEF entry, PeerData, TypeOK
  <2>4. peers' \in [Nodes -> [NodeIDs -> PeerData]]
    BY <1>3, <2>3 DEF TypeOK
  <2> QED BY <1>3, <2>1, <2>2, <2>4 DEF TypeOK
<1>14. Order' /\ NoTwice' /\ PeerQueue'
  BY <1>3, <1>4 DEF Order, Engaged, NoTwice, PeerQueue
<1>15. /\ \A t \in Servers, i \in NodeIDs : ~(t = s /\ i = id) => peers'[t][i] = peers[t][i]
       /\ \A i \in NodeIDs : i = id => peers'[s][i] = entry
  BY <1>3 DEF TypeOK, Nodes
<1>16. Known'
  <2> SUFFICES ASSUME NEW t \in Servers, NEW i \in NodeIDs, NEW m \in Nodes, Knows(t, i, m)'
      PROVE  /\ i = IF m \in Clients THEN myNodeID'[m] ELSE m
             /\ m \in Clients => ~Untouched(m, t)' /\ ~Greeting(m, t)' /\ ~Asking(m, t)'
    BY DEF Known
  <2>1. CASE t = s /\ i = id
    <3>1. m = n
      <4>1. peers'[t][i].node = {n}
        BY <1>15, <2>1 DEF entry
      <4>2. {m} = {n}
        BY <4>1 DEF Knows
      <4> QED BY <4>2, Zenon
    <3> QED BY <1>3, <1>7, <1>8, <1>9, <1>10, <2>1, <3>1, Constants DEF Nodes
  <2>2. CASE ~(t = s /\ i = id)
    <3>1. Knows(t, i, m)
      BY <1>15, <2>2 DEF Knows
    <3>2. /\ i = IF m \in Clients THEN myNodeID[m] ELSE m
          /\ m \in Clients => ~Untouched(m, t) /\ ~Greeting(m, t) /\ ~Asking(m, t)
      BY <3>1 DEF Known
    <3> QED BY <1>3, <1>10, <3>2
  <2> QED BY <2>1, <2>2
<1>17. QueueZero'
  <2> SUFFICES ASSUME NEW t \in Servers, NEW i \in NodeIDs, peers'[t][i].node # {}
      PROVE  peers'[t][i].cq = 0 <=> i \in Servers
    BY DEF QueueZero
  <2>1. CASE t = s /\ i = id
    <3>1. peers'[t][i].cq = peer[s].cq
      BY <1>15, <2>1 DEF entry
    <3> QED BY <1>3, <2>1, <3>1 DEF PeerQueue, id
  <2>2. CASE ~(t = s /\ i = id)
    BY <1>15, <2>2 DEF QueueZero
  <2> QED BY <2>1, <2>2
<1>18. Unclaimed'
  <2>1. \A c \in Clients, i \in Nat : Claims(c, i)' <=> Claims(c, i)
    BY <1>3, SameClaims
  <2>2. \A c \in Clients : Alive(c)' <=> Alive(c)
    BY <1>3 DEF Alive
  <2>3. \A c \in Clients : Greeted(c, 1)' <=> Greeted(c, 1)
    BY <1>5, Constants DEF Nodes
  <2> QED BY <1>3, <2>1, <2>2, <2>3 DEF Unclaimed
<1>19. Named'
  <2>1. \A c \in Clients : /\ Queued(c, 1)' <=> Queued(c, 1)
                           /\ Greeted(c, 1)' <=> Greeted(c, 1)
                           /\ Untouched(c, 1)' <=> Untouched(c, 1)
    BY <1>5, <1>10, Constants DEF Nodes
  <2> QED BY <1>3, <2>1 DEF Named
<1> QED BY <1>12, <1>13, <1>14, <1>16, <1>17, <1>18, <1>19

-----------------------------------------------------------------------------
LEMMA IStep == IInv /\ [Next]_vars => IInv'
<1> SUFFICES ASSUME IInv, [Next]_vars PROVE IInv'
  OBVIOUS
<1>1. ASSUME NEW s \in Servers, Start(s) \/ ListenStep(s) PROVE IInv'
  BY <1>1, AsideActions, AsideStep, AcceptStep, ListenIDStep, ListenMetaStep,
     LetGoActions, LetGoStep DEF ListenStep, Nodes
<1>2. ASSUME NEW n \in Nodes, NodeStep(n) PROVE IInv'
  BY <1>2, AsideActions, AsideStep, SocketConnectStep, WriteIDStep, ReadIDStep,
     ReadMetaStep DEF NodeStep, IInv
<1>3. ASSUME NEW c \in Clients, Crash(c) PROVE IInv'
  BY <1>3, AsideActions, AsideStep DEF IInv, Nodes
<1>4. CASE UNCHANGED vars
  <2>1. UNCHANGED <<phase, remaining, target, myNodeID, listener, peer, maxNodeID,
                    cqPtr, peers, backlog, toServer, toNode>>
    BY <1>4 DEF vars, connVars, listenVars
  <2>2. \A n \in Nodes, s \in Servers : ServerKept(n, s)
    BY <2>1, SameServerSide DEF listenVars
  <2>3. \A n \in Nodes, s \in Servers : NodeKept(n, s)
    BY <2>1, SameNodeSide DEF connVars, NodeKept
  <2>4. AllLinks'
    BY <2>2, <2>3, LinkKept DEF IInv, AllLinks
  <2>5. TypeOK' /\ Order'
    BY <2>1 DEF IInv, TypeOK, Order, Engaged
  <2>6. \A c \in Clients : /\ Alive(c)' <=> Alive(c)
                           /\ \A i \in Nat : Claims(c, i)' <=> Claims(c, i)
    BY <2>1, SameClaims DEF Alive
  <2>7. NoTwice' /\ Unclaimed' /\ Named' /\ PeerQueue'
    BY <2>1, <2>2, <2>3, <2>6, NodeStepKeeps DEF ServerKept, NodeKept
  <2>8. Known' /\ QueueZero'
    BY <2>1, KnownKept, SamePeers DEF IInv, connVars
  <2> QED BY <2>4, <2>5, <2>7, <2>8 DEF IInv
<1> QED BY <1>1, <1>2, <1>3, <1>4 DEF Next

\* The inductive invariant.
THEOREM Invariance == Spec => []IInv
<1>1. Init => IInv
  BY IInit
<1>2. IInv /\ [Next]_vars => IInv'
  BY IStep
<1> QED BY <1>1, <1>2, PTL DEF Spec

\* RdmaListen, RdmaConnect, ServerConnect and RdmaAccept: every variable keeps its
\* type; above all, MaxNodeID is never more than one past the clients there are.
THEOREM TypeCorrect == Spec => []TypeOK
<1>1. IInv => TypeOK
  BY DEF IInv
<1> QED BY <1>1, Invariance, PTL

\* NodeIDs as server 1's RdmaAccept gives them: no two clients alive have one, and
\* none has a server's.
THEOREM NodeIDsUnique == Spec => []UniqueNodeIDs
<1>1. IInv => UniqueNodeIDs
  <2> SUFFICES ASSUME IInv PROVE UniqueNodeIDs
    OBVIOUS
  <2>1. \A c \in Clients : myNodeID[c] \in Nat
    <3>1. myNodeID \in [Clients -> NodeIDs \cup {0}]
      BY DEF IInv, TypeOK
    <3>2. NodeIDs \cup {0} \subseteq Nat
      BY Constants
    <3> QED BY <3>1, <3>2
  <2>2. \A c \in Clients : myNodeID[c] # 0 => Claims(c, myNodeID[c])
    BY DEF Claims
  <2>3. ASSUME NEW c \in Clients PROVE myNodeID[c] \notin Servers
    BY <2>1, <2>2, Constants DEF IInv, Unclaimed
  <2>4. ASSUME NEW c \in Clients, NEW d \in Clients, Alive(c), Alive(d),
               myNodeID[c] = myNodeID[d], myNodeID[c] # 0
        PROVE  c = d
    BY <2>1, <2>2, <2>4 DEF IInv, Unclaimed
  <2> QED BY <2>3, <2>4 DEF UniqueNodeIDs, Alive
<1> QED BY <1>1, Invariance, PTL

\* peers[] as RdmaAccept and DataSyncwithSocket fill it: a server has every node
\* where the node's own messages say it is.
THEOREM PeersOwned == Spec => []Ownership
<1>1. IInv => Ownership
  BY DEF IInv, Known, Ownership
<1> QED BY <1>1, Invariance, PTL

\* The completion queues RdmaAccept assigns: queue 0 for servers and for no client.
THEOREM QueuesApart == Spec => []QueueZero
<1>1. IInv => QueueZero
  BY DEF IInv
<1> QED BY <1>1, Invariance, PTL
=============================================================================
