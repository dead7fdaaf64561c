--------------------------- MODULE AdapterProofs ---------------------------
(***************************************************************************)
(* Proofs about Adapter, for any peers and any numbers of completion       *)
(* queues and queue pairs.                                                 *)
(***************************************************************************)
EXTENDS Adapter, TLAPS

Creating == {"device", "open", "port", "cq", "pd", "mr"}
Ending   == {"mr?", "pd?", "ctx?", "gone"}
AllCqs   == \A i \in Cqs : cq[i] = "open"

\* The completion queues, the domain, the region and the device, by where the
\* process is.
Resources ==
  /\ stage \in Creating => mr # "open" /\ (fault \/ failed = {})
  /\ stage \in {"pd", "mr"} => AllCqs
  /\ stage \in {"port", "cq", "pd", "mr"} => ctx = "open" /\ ~list
  /\ stage = "mr" => pd = "open"
  /\ stage \notin Creating => "create" \in failed \/ AllCqs
  /\ stage = "failed" =>
       /\ "create" \in failed /\ ~list
       /\ ctx = "null" /\ pd = "null" /\ mr # "open" /\ \A i \in Cqs : cq[i] # "open"
  /\ "create" \in failed => pd # "open"

\* After that, what is open as long as nothing has failed, and what is not open
\* any more once it has been released.
Released ==
  /\ failed = {} =>
       /\ stage \in {"created", "mr?"} => mr = "open"
       /\ stage \in {"created", "mr?", "pd?"} => pd = "open"
       /\ stage \in {"created", "mr?", "pd?", "ctx?"} => ctx = "open"
  /\ stage \in {"pd?", "ctx?", "gone"} => mr # "open"
  /\ stage = "gone" => ctx # "open"

\* A queue pair belongs to a domain, and is in a state that fits the step of its
\* connection.
Pairs ==
  \A p \in Peers :
    /\ stage \in Creating => step[p] = "none"
    /\ step[p] = "none" => \A k \in Qps : qp[p][k] \in {"null", "wild"}
    /\ \A k \in Qps : qp[p][k] \notin {"null", "wild"} => pd = "open"
    /\ step[p] \in {"meta", "modify"} =>
         \A k \in 0..(Width(p) - 1) : qp[p][k] \in {"RESET", "INIT", "RTR", "RTS"}
    /\ step[p] = "known" => \A k \in 0..(Width(p) - 1) : qp[p][k] = "RTS"

\* The connecting thread makes one connection at a time, none after one has
\* failed, and none when the socket is destroyed; a client makes none to
\* another client.
Thread ==
  /\ \A p \in Peers : ~isServer /\ p \notin ServerPeers => step[p] = "none"
  /\ \A p \in Peers : step[p] \in InProgress /\ ~Listens(p) =>
       /\ ~GivenUp /\ stage \notin Ending
       /\ \A q \in Peers : step[q] \in InProgress /\ ~Listens(q) => q = p

\* What a client that has made all its connections has left.
Left ==
  ~isServer /\ ~GivenUp =>
    /\ stage \in Ending => LiveQps = {}
    /\ stage \in {"ctx?", "gone"} => pd # "open"

IInv == TypeOK /\ Resources /\ Released /\ Pairs /\ Thread /\ Left

LEMMA WidthInRange == \A p \in Peers : Width(p) \in 2..QpNumber
BY AdapterAssumption DEF Width

LEMMA IInit == Init => IInv
<1> SUFFICES ASSUME Init PROVE IInv
  OBVIOUS
<1>1. TypeOK
  BY AdapterAssumption DEF Init, TypeOK, Pointer, QpState, InProgress
<1>2. Resources /\ Released
  BY DEF Init, Resources, Released, Creating
<1>3. Pairs
  BY DEF Init, Pairs
<1>4. Thread /\ Left
  BY DEF Init, Thread, Left, InProgress, Ending
<1> QED BY <1>1, <1>2, <1>3, <1>4 DEF IInv

-----------------------------------------------------------------------------
(***************************************************************************)
(* CreateResources.                                                        *)
(***************************************************************************)

LEMMA CleanupType ==
  ASSUME TypeOK, NEW c \in Pointer, NEW d \in Pointer, Cleanup(c, d, cq)
  PROVE  /\ cq' \in [Cqs -> Pointer] /\ fault' \in BOOLEAN
         /\ pd' \in Pointer /\ ctx' \in Pointer /\ list' \in BOOLEAN
         /\ stage' \in {stage, "failed"} /\ failed' \subseteq {"create", "qp"}
BY DEF TypeOK, Cleanup, CloseAndFree, Release, Pointer

\* The cleanup either comes to its end, or crashes with a wild domain or device.
LEMMA CleanupEffect ==
  ASSUME TypeOK, NEW c \in Pointer, NEW d \in Pointer, Cleanup(c, d, cq)
  PROVE  /\ "create" \in failed' /\ pd' # "open" /\ \A i \in Cqs : cq'[i] # "open"
         /\ \/ stage' = "failed" /\ pd' = "null" /\ ctx' = "null" /\ ~list'
            \/ "wild" \in {c, d} /\ fault' /\ ctx' = c /\ UNCHANGED <<list, stage>>
BY DEF TypeOK, Cleanup, CloseAndFree, Release, Pointer

LEMMA CreateFrame ==
  ASSUME Create PROVE stage \in Creating /\ UNCHANGED <<isServer, fresh, peerVars>>
BY DEF Create, GetDevice, OpenDevice, QueryPort, CreateCq, AllocPd, RegMr, Creating

LEMMA CreateType == ASSUME TypeOK, Create PROVE TypeOK'
<1>1. CASE GetDevice
  BY <1>1, CleanupType DEF TypeOK, GetDevice, peerVars, Pointer
<1>2. CASE OpenDevice
  BY <1>2, CleanupType DEF TypeOK, OpenDevice, peerVars, Pointer
<1>3. CASE QueryPort
  BY <1>3, CleanupType DEF TypeOK, QueryPort, peerVars, Pointer
<1>4. CASE CreateCq
  BY <1>4, CleanupType DEF TypeOK, CreateCq, peerVars, Pointer
<1>5. CASE AllocPd
  BY <1>5, CleanupType DEF TypeOK, AllocPd, peerVars, Pointer
<1>6. CASE RegMr
  BY <1>6, CleanupType DEF TypeOK, RegMr, peerVars, Pointer
<1> QED BY <1>1, <1>2, <1>3, <1>4, <1>5, <1>6 DEF Create

\* A step of CreateResources that fails, at whatever call.  Once the device is
\* open only a domain that was never set can crash the cleanup.
LEMMA CreateFails ==
  ASSUME TypeOK, Resources, stage \in Creating, mr' \in {mr, "null"},
         NEW c \in Pointer, NEW d \in Pointer, Cleanup(c, d, cq),
         stage \in {"port", "cq", "pd", "mr"} => c = "open",
         stage \in {"pd", "mr"} => d # "wild"
  PROVE  Resources' /\ Released'
<1>1. mr' # "open"
  BY DEF Resources
<1> QED BY <1>1, CleanupEffect DEF Resources, Released, Creating

LEMMA CreateResource ==
  ASSUME TypeOK, Resources, Released, ~fault, Create PROVE Resources' /\ Released'
<1> USE DEF Creating, AllCqs
<1>0. ctx \in Pointer /\ pd \in Pointer /\ "null" \in Pointer
  BY DEF TypeOK, Pointer
<1>1. CASE GetDevice
  <2>1. CASE Cleanup(ctx, pd, cq)
    BY <1>0, <1>1, <2>1, CreateFails DEF GetDevice, Resources
  <2> QED BY <1>1, <2>1 DEF GetDevice, Resources, Released
<1>2. CASE OpenDevice
  <2>1. CASE Cleanup("null", pd, cq)
    BY <1>0, <1>2, <2>1, CreateFails DEF OpenDevice, Resources
  <2> QED BY <1>2, <2>1 DEF OpenDevice, Resources, Released
<1>3. CASE QueryPort
  <2>1. CASE Cleanup(ctx, pd, cq)
    BY <1>0, <1>3, <2>1, CreateFails DEF QueryPort, Resources
  <2> QED BY <1>3, <2>1 DEF QueryPort, Resources, Released
<1>4. CASE CreateCq
  <2>1. CASE Cleanup(ctx, pd, cq)
    BY <1>0, <1>4, <2>1, CreateFails DEF CreateCq, Resources
  <2>2. ASSUME NEW i \in Cqs, \A j \in Cqs : j < i => cq[j] = "open",
               cq' = [cq EXCEPT ![i] = "open"], i + 1 = CqNum
        PROVE  AllCqs'
    BY <2>2, AdapterAssumption DEF TypeOK, Cqs
  <2> QED BY <1>4, <2>1, <2>2 DEF CreateCq, Resources, Released
<1>5. CASE AllocPd
  <2>1. CASE Cleanup(ctx, "null", cq)
    BY <1>0, <1>5, <2>1, CreateFails DEF AllocPd, Resources
  <2> QED BY <1>5, <2>1 DEF AllocPd, Resources, Released
<1>6. CASE RegMr
  <2>1. CASE mr' = "null" /\ Cleanup(ctx, pd, cq)
    BY <1>0, <1>6, <2>1, CreateFails DEF RegMr, Resources
  <2> QED BY <1>6, <2>1 DEF RegMr, Resources, Released
<1> QED BY <1>1, <1>2, <1>3, <1>4, <1>5, <1>6 DEF Create

LEMMA CreatePairs == ASSUME TypeOK, Pairs, Thread, Left, Create
                     PROVE Pairs' /\ Thread' /\ Left'
<1>1. stage \in Creating /\ UNCHANGED <<isServer, step, qp>>
  BY CreateFrame DEF peerVars
<1>2. \A p \in Peers : step[p] = "none"
  BY <1>1 DEF Pairs
<1>3. \A p \in Peers, k \in Qps : qp[p][k] \in {"null", "wild"}
  BY <1>2 DEF Pairs
<1>4. Pairs'
  BY <1>1, <1>2, <1>3 DEF Pairs
<1>5. Thread'
  BY <1>1, <1>2 DEF Thread, InProgress
<1>6. stage' \notin Ending
  BY <1>1, Zenon DEF Create, GetDevice, OpenDevice, QueryPort, CreateCq, AllocPd, RegMr,
     Cleanup, CloseAndFree, Creating, Ending
<1> QED BY <1>4, <1>5, <1>6 DEF Left, Ending

LEMMA CreateStep == ASSUME IInv, ~fault, Create PROVE IInv'
BY CreateType, CreateResource, CreatePairs DEF IInv

-----------------------------------------------------------------------------
(***************************************************************************)
(* ConnectQueuePair.                                                       *)
(***************************************************************************)

LEMMA ConnectType ==
  ASSUME TypeOK, Pairs, NEW p \in Peers, Connect(p) PROVE TypeOK'
<1>1. CASE ExchangeID(p)
  BY <1>1 DEF TypeOK, ExchangeID, resVars, Advance, InProgress
<1>2. CASE CreateQueuePair(p)
  <2>1. UNCHANGED <<isServer, fresh, stage, resVars>>
    BY <1>2 DEF CreateQueuePair
  <2>2. CASE Die /\ failed' = IF pd = "open" THEN failed \cup {"qp"} ELSE failed
    BY <2>1, <2>2 DEF TypeOK, resVars, peerVars, Die
  <2>3. ASSUME NEW k \in Qps, qp' = [qp EXCEPT ![p][k] = "RESET"],
               Advance(p, IF k + 1 = Width(p) THEN "meta" ELSE "create"),
               UNCHANGED <<fault, failed>>
        PROVE  TypeOK'
    <3>1. qp' \in [Peers -> [Qps -> QpState]]
      BY <2>3 DEF TypeOK, QpState
    <3>2. step' \in [Peers -> InProgress \cup {"none", "known", "lost", "freed"}]
      BY <2>3 DEF TypeOK, Advance, InProgress
    <3> QED BY <2>1, <2>3, <3>1, <3>2 DEF TypeOK, resVars
  <2> QED BY <1>2, <2>2, <2>3 DEF CreateQueuePair
<1>3. CASE ExchangeMeta(p)
  BY <1>3 DEF TypeOK, ExchangeMeta, resVars, peerVars, Die, Advance, InProgress
<1>4. CASE ModifyQP(p)
  <2>1. PICK k \in 0..(Width(p) - 1) :
          /\ NextOf(p, k, "RTS")
          /\ \/ qp' = [qp EXCEPT ![p][k] = NextState[@]] /\ UNCHANGED step
             \/ Advance(p, "lost") /\ UNCHANGED qp
    BY <1>4 DEF ModifyQP
  <2>2. k \in Qps
    BY WidthInRange, AdapterAssumption DEF Qps
  <2>3. qp[p][k] \in {"RESET", "INIT", "RTR"}
    BY <1>4, <2>1 DEF Pairs, NextOf, ModifyQP
  <2>4. NextState[qp[p][k]] \in QpState
    BY <2>3 DEF NextState, QpState
  <2>5. qp' \in [Peers -> [Qps -> QpState]]
    BY <2>1, <2>2, <2>4 DEF TypeOK
  <2>6. step' \in [Peers -> InProgress \cup {"none", "known", "lost", "freed"}]
    BY <2>1 DEF TypeOK, Advance
  <2> QED BY <1>4, <2>5, <2>6 DEF TypeOK, ModifyQP, resVars
<1>5. CASE Record(p)
  BY <1>5 DEF TypeOK, Record, resVars, Advance, InProgress
<1> QED BY <1>1, <1>2, <1>3, <1>4, <1>5 DEF Connect

\* A step of a connection: what it does to its own queue pairs and step, and
\* that it leaves the rest alone.
LEMMA ConnectFrame ==
  ASSUME TypeOK, Pairs, NEW p \in Peers, Connect(p)
  PROVE  /\ UNCHANGED <<isServer, fresh, stage, resVars>>
         /\ failed \subseteq failed' /\ failed' \subseteq failed \cup {"qp"}
         /\ \A q \in Peers \ {p} : step'[q] = step[q] /\ qp'[q] = qp[q]
         /\ step[p] \in {"none"} \cup InProgress
         /\ stage \notin Creating
<1>1. CASE ExchangeID(p)
  BY <1>1 DEF TypeOK, ExchangeID, Advance, Constructed, Creating
<1>2. CASE CreateQueuePair(p)
  BY <1>2 DEF TypeOK, CreateQueuePair, peerVars, Die, Advance, InProgress, Pairs, Creating
<1>3. CASE ExchangeMeta(p)
  BY <1>3 DEF TypeOK, ExchangeMeta, peerVars, Die, Advance, InProgress, Pairs
<1>4. CASE ModifyQP(p)
  BY <1>4 DEF TypeOK, ModifyQP, Advance, InProgress, Pairs
<1>5. CASE Record(p)
  BY <1>5 DEF TypeOK, Record, Advance, InProgress, Pairs
<1> QED BY <1>1, <1>2, <1>3, <1>4, <1>5 DEF Connect

\* How the step of the connection changes.
LEMMA ConnectAdvance ==
  ASSUME TypeOK, NEW p \in Peers, Connect(p)
  PROVE  /\ step'[p] \in InProgress \cup {"lost", "known"}
         /\ \/ step[p] \in InProgress
            \/ /\ step[p] = "none" /\ ~Busy(p) /\ (isServer \/ p \in ServerPeers)
               /\ Listens(p) \/ (stage \in {"created", "failed"} /\ ~GivenUp)
<1>1. CASE ExchangeID(p)
  BY <1>1 DEF TypeOK, ExchangeID, Advance, InProgress
<1>2. CASE CreateQueuePair(p)
  BY <1>2 DEF TypeOK, CreateQueuePair, peerVars, Die, Advance, InProgress
<1>3. CASE ExchangeMeta(p)
  BY <1>3 DEF TypeOK, ExchangeMeta, peerVars, Die, Advance, InProgress
<1>4. CASE ModifyQP(p)
  BY <1>4 DEF TypeOK, ModifyQP, Advance, InProgress
<1>5. CASE Record(p)
  BY <1>5 DEF TypeOK, Record, Advance, InProgress
<1> QED BY <1>1, <1>2, <1>3, <1>4, <1>5 DEF Connect

LEMMA ConnectResource ==
  ASSUME TypeOK, Resources, Released, Pairs, NEW p \in Peers, Connect(p)
  PROVE  Resources' /\ Released'
<1>1. /\ UNCHANGED <<stage, list, ctx, pd, mr, cq>> /\ stage \notin Creating
      /\ failed \subseteq failed' /\ failed' \subseteq failed \cup {"qp"}
  BY ConnectFrame DEF resVars
<1>2. "create" \in failed' <=> "create" \in failed
  BY <1>1
<1>3. failed' = {} => failed = {}
  BY <1>1
<1>4. Resources'
  BY <1>1, <1>2 DEF Resources, AllCqs, Creating
<1>5. Released'
  BY <1>1, <1>3 DEF Released
<1> QED BY <1>4, <1>5

\* The clauses of Pairs for p itself.
LEMMA ConnectOwnPairs ==
  ASSUME TypeOK, Pairs, NEW p \in Peers, Connect(p)
  PROVE  /\ \A k \in Qps : qp'[p][k] \notin {"null", "wild"} => pd = "open"
         /\ step'[p] \in {"meta", "modify"} =>
              \A k \in 0..(Width(p) - 1) : qp'[p][k] \in {"RESET", "INIT", "RTR", "RTS"}
         /\ step'[p] = "known" => \A k \in 0..(Width(p) - 1) : qp'[p][k] = "RTS"
<1>0. /\ \A k \in Qps : qp[p][k] \notin {"null", "wild"} => pd = "open"
      /\ step[p] \in {"meta", "modify"} =>
           \A k \in 0..(Width(p) - 1) : qp[p][k] \in {"RESET", "INIT", "RTR", "RTS"}
      /\ step[p] = "known" => \A k \in 0..(Width(p) - 1) : qp[p][k] = "RTS"
  BY DEF Pairs
<1>w. 0..(Width(p) - 1) \subseteq Qps
  BY WidthInRange, AdapterAssumption DEF Qps
<1>1. CASE ExchangeID(p)
  BY <1>0, <1>1 DEF TypeOK, ExchangeID, Advance
<1>2. CASE CreateQueuePair(p)
  <2>1. CASE Die
    BY <1>0, <1>2, <2>1 DEF Die, peerVars
  <2>2. ASSUME pd = "open", NEW k \in Qps, NextOf(p, k, "RESET"),
               qp' = [qp EXCEPT ![p][k] = "RESET"],
               Advance(p, IF k + 1 = Width(p) THEN "meta" ELSE "create")
        PROVE  /\ step'[p] \in {"meta", "create"}
               /\ step'[p] = "meta" =>
                    \A j \in 0..(Width(p) - 1) : qp'[p][j] = "RESET"
    <3>1. step'[p] = IF k + 1 = Width(p) THEN "meta" ELSE "create"
      BY <2>2 DEF TypeOK, Advance
    <3>2. ASSUME k + 1 = Width(p), NEW j \in 0..(Width(p) - 1)
          PROVE  qp'[p][j] = "RESET"
      <4>1. j \in Qps /\ (j = k \/ j < k)
        BY <1>w, <3>2 DEF Qps
      <4> QED BY <2>2, <4>1 DEF TypeOK, NextOf
    <3> QED BY <3>1, <3>2
  <2> QED BY <1>0, <1>2, <2>1, <2>2 DEF CreateQueuePair
<1>3. CASE ExchangeMeta(p)
  BY <1>0, <1>3 DEF TypeOK, ExchangeMeta, Advance, Die, peerVars
<1>4. CASE ModifyQP(p)
  <2>1. PICK k \in 0..(Width(p) - 1) :
          /\ NextOf(p, k, "RTS")
          /\ \/ qp' = [qp EXCEPT ![p][k] = NextState[@]] /\ UNCHANGED step
             \/ Advance(p, "lost") /\ UNCHANGED qp
    BY <1>4 DEF ModifyQP
  <2>2. step[p] = "modify"
    BY <1>4 DEF ModifyQP
  <2>3. CASE Advance(p, "lost") /\ UNCHANGED qp
    BY <1>0, <2>3 DEF TypeOK, Advance
  <2>4. CASE qp' = [qp EXCEPT ![p][k] = NextState[@]] /\ UNCHANGED step
    <3>1. k \in Qps /\ qp[p][k] \in {"RESET", "INIT", "RTR"}
      BY <1>0, <1>w, <2>1, <2>2 DEF NextOf
    <3>2. NextState[qp[p][k]] \in {"INIT", "RTR", "RTS"}
      BY <3>1 DEF NextState
    <3>3. \A j \in Qps : qp'[p][j] = IF j = k THEN NextState[qp[p][k]] ELSE qp[p][j]
      BY <2>4, <3>1 DEF TypeOK
    <3> QED BY <1>0, <1>w, <2>2, <2>4, <3>1, <3>2, <3>3
  <2> QED BY <2>1, <2>3, <2>4
<1>5. CASE Record(p)
  BY <1>0, <1>5 DEF TypeOK, Record, Advance
<1> QED BY <1>1, <1>2, <1>3, <1>4, <1>5 DEF Connect

LEMMA ConnectPairs ==
  ASSUME TypeOK, Pairs, NEW p \in Peers, Connect(p) PROVE Pairs'
<1>1. /\ UNCHANGED <<isServer, stage, pd>> /\ stage \notin Creating
      /\ \A q \in Peers \ {p} : step'[q] = step[q] /\ qp'[q] = qp[q]
  BY ConnectFrame DEF resVars
<1>2. \A q \in Peers : Width(q)' = Width(q)
  BY <1>1 DEF Width
<1>3. step'[p] # "none"
  BY ConnectAdvance DEF InProgress
<1> SUFFICES ASSUME NEW q \in Peers
    PROVE /\ step'[q] = "none" => \A k \in Qps : qp'[q][k] \in {"null", "wild"}
          /\ \A k \in Qps : qp'[q][k] \notin {"null", "wild"} => pd = "open"
          /\ step'[q] \in {"meta", "modify"} =>
               \A k \in 0..(Width(q) - 1) : qp'[q][k] \in {"RESET", "INIT", "RTR", "RTS"}
          /\ step'[q] = "known" => \A k \in 0..(Width(q) - 1) : qp'[q][k] = "RTS"
  BY <1>1, <1>2 DEF Pairs
<1>4. CASE q = p
  BY <1>3, <1>4, ConnectOwnPairs
<1>5. CASE q # p
  BY <1>1, <1>5 DEF Pairs
<1> QED BY <1>4, <1>5

LEMMA ConnectThread ==
  ASSUME TypeOK, Pairs, Thread, Left, NEW p \in Peers, Connect(p)
  PROVE  Thread' /\ Left'
<1>1. /\ UNCHANGED <<isServer, stage>>
      /\ \A q \in Peers \ {p} : step'[q] = step[q]
  BY ConnectFrame
<1>2. \A q \in Peers : Listens(q)' = Listens(q)
  BY <1>1 DEF Listens
<1>3. ~Listens(p) => stage \notin Ending /\ ~GivenUp
  BY ConnectAdvance DEF Thread, Ending
<1>4. ASSUME NEW q \in Peers \ {p}, ~Listens(p) PROVE step[q] \notin InProgress \/ Listens(q)
  BY <1>4, ConnectAdvance DEF Thread, Busy, Listens
<1>5. isServer \/ p \in ServerPeers
  BY ConnectAdvance DEF Thread, InProgress
<1>6. CASE Listens(p)
  <2>1. GivenUp' <=> GivenUp
    BY <1>1, <1>2, <1>6 DEF GivenUp
  <2>2. isServer
    BY <1>6 DEF Listens
  <2>3. ASSUME NEW q \in Peers, step'[q] \in InProgress, ~Listens(q)
        PROVE  q # p /\ step[q] \in InProgress
    BY <1>1, <1>6, <2>3
  <2>4. Thread'
    BY <1>1, <1>2, <2>1, <2>2, <2>3 DEF Thread
  <2> QED BY <1>1, <2>2, <2>4 DEF Left
<1>7. CASE ~Listens(p)
  <2>1. stage \notin Ending
    BY <1>3, <1>7
  <2>2. ASSUME step'[p] \in InProgress PROVE ~GivenUp'
    BY <1>1, <1>2, <1>3, <1>7, <2>2 DEF GivenUp, InProgress
  <2>3. \A q \in Peers : step'[q] \in InProgress /\ ~Listens(q) => q = p
    BY <1>1, <1>4, <1>7
  <2>4. \A q \in Peers : ~isServer /\ q \notin ServerPeers => step'[q] = "none"
    BY <1>1, <1>5 DEF Thread
  <2>5. Thread'
    BY <1>1, <1>2, <2>1, <2>2, <2>3, <2>4 DEF Thread
  <2> QED BY <1>1, <2>1, <2>5 DEF Left, Ending
<1> QED BY <1>6, <1>7

LEMMA ConnectStep == ASSUME IInv, NEW p \in Peers, Connect(p) PROVE IInv'
BY ConnectType, ConnectResource, ConnectPairs, ConnectThread DEF IInv

-----------------------------------------------------------------------------
(***************************************************************************)
(* ResourcesDestroy.                                                       *)
(***************************************************************************)

LEMMA DestroyPeersStep == ASSUME IInv, DestroyPeers PROVE IInv'
<1> USE DEF IInv
<1> DEFINE gone == {p \in ServerPeers : step[p] = "known"}
<1>1. /\ stage \in {"created", "failed"} /\ stage' = "mr?" /\ ConnectEnded
      /\ qp' = [p \in Peers |-> IF p \in gone THEN [k \in Qps |-> "null"] ELSE qp[p]]
      /\ step' = [p \in Peers |-> IF p \in gone THEN "freed" ELSE step[p]]
      /\ fault' \in BOOLEAN
      /\ UNCHANGED <<isServer, fresh, list, ctx, pd, mr, cq, failed>>
  BY DEF DestroyPeers, resVars
<1> HIDE DEF gone
<1>2. TypeOK'
  <2>1. qp' \in [Peers -> [Qps -> QpState]]
    BY <1>1 DEF TypeOK, QpState
  <2>2. step' \in [Peers -> InProgress \cup {"none", "known", "lost", "freed"}]
    BY <1>1 DEF TypeOK
  <2> QED BY <1>1, <2>1, <2>2 DEF TypeOK
<1>3. Resources'
  BY <1>1 DEF Resources, AllCqs, Creating
<1>4. Released'
  BY <1>1 DEF Released, Resources
<1>5. Pairs'
  <2>1. \A q \in Peers : Width(q)' = Width(q)
    BY <1>1 DEF Width
  <2>2. ASSUME NEW q \in Peers, q \in gone
        PROVE  step'[q] = "freed" /\ \A k \in Qps : qp'[q][k] = "null"
    BY <1>1, <2>2
  <2>3. ASSUME NEW q \in Peers, q \notin gone
        PROVE  step'[q] = step[q] /\ qp'[q] = qp[q]
    BY <1>1, <2>3
  <2> QED BY <1>1, <2>1, <2>2, <2>3 DEF Pairs, Creating
<1>6. \A p \in Peers : Listens(p)' = Listens(p)
  BY <1>1 DEF Listens
<1>7. GivenUp' <=> GivenUp
  BY <1>1, <1>6 DEF GivenUp, gone
<1>8. ASSUME NEW p \in Peers, ~Listens(p), ~GivenUp
      PROVE  step[p] = "known" \/ (~isServer /\ p \notin ServerPeers /\ step[p] = "none")
  BY <1>1, <1>8 DEF ConnectEnded, Thread
<1>9. Thread'
  <2>1. \A p \in Peers : ~isServer /\ p \notin ServerPeers => step'[p] = "none"
    BY <1>1 DEF Thread, gone
  <2>2. \A p \in Peers : step'[p] \in InProgress => step[p] \in InProgress
    BY <1>1 DEF InProgress
  <2>3. \A p \in Peers : ~(step'[p] \in InProgress /\ ~Listens(p))
    BY <1>8, <2>2 DEF Thread, InProgress
  <2> QED BY <1>1, <1>6, <2>1, <2>3 DEF Thread
<1>10. Left'
  <2> SUFFICES ASSUME ~isServer, ~GivenUp PROVE LiveQps' = {}
    BY <1>1, <1>7 DEF Left
  <2>1. ASSUME NEW p \in Peers, NEW k \in Qps PROVE qp'[p][k] \in {"null", "wild"}
    <3>1. ~Listens(p)
      BY DEF Listens
    <3>2. CASE step[p] = "known"
      <4>1. p \in gone
        BY <3>2 DEF Thread, gone
      <4> QED BY <1>1, <4>1
    <3>3. CASE step[p] = "none"
      <4>1. p \notin gone
        BY <3>3 DEF gone
      <4> QED BY <1>1, <3>3, <4>1 DEF Pairs
    <3> QED BY <1>8, <3>1, <3>2, <3>3
  <2> QED BY <2>1 DEF LiveQps
<1> QED BY <1>2, <1>3, <1>4, <1>5, <1>9, <1>10

\* The steps after DestroyPeers leave the connections alone.
LEMMA ReleaseFrame ==
  ASSUME IInv, DeregMr \/ DeallocPd \/ CloseDevice
  PROVE  /\ UNCHANGED <<isServer, fresh, list, cq, step, qp, failed>>
         /\ stage \in Ending /\ stage' \in Ending
         /\ TypeOK' /\ Thread' /\ Resources'
<1>1. /\ UNCHANGED <<isServer, fresh, list, cq, step, qp, failed>>
      /\ stage \in Ending /\ stage' \in Ending /\ fault' \in BOOLEAN
      /\ pd' \in {pd, Release(pd)} /\ ctx' \in {ctx, Release(ctx)}
      /\ mr' \in {mr, Release(mr)}
  BY DEF DeregMr, DeallocPd, CloseDevice, Ending, peerVars
<1>2. TypeOK'
  BY <1>1 DEF IInv, TypeOK, Release, Pointer, Ending
<1>3. Thread'
  BY <1>1 DEF IInv, Thread, Listens, GivenUp
<1>4. Resources'
  BY <1>1 DEF IInv, Resources, Release, Creating, Ending, AllCqs
<1> QED BY <1>1, <1>2, <1>3, <1>4

LEMMA ReleaseStep ==
  ASSUME IInv, DeregMr \/ DeallocPd \/ CloseDevice PROVE IInv'
<1>1. /\ UNCHANGED <<isServer, step, qp, failed>>
      /\ stage \in Ending /\ stage' \in Ending
      /\ TypeOK' /\ Thread' /\ Resources'
  BY ReleaseFrame
<1>2. Released'
  BY <1>1 DEF IInv, Released, DeregMr, DeallocPd, CloseDevice, Release
<1>3. LiveQps' = LiveQps /\ (GivenUp' <=> GivenUp)
  BY <1>1 DEF LiveQps, GivenUp, Listens
<1>4. Left'
  BY <1>1, <1>3 DEF IInv, Left, DeregMr, DeallocPd, CloseDevice, Release, Ending
<1>5. LiveQps # {} => pd' = pd
  BY DEF DeregMr, DeallocPd, CloseDevice
<1>6. \A p \in Peers, k \in Qps : qp[p][k] \notin {"null", "wild"} => pd' = "open"
  <2> SUFFICES ASSUME NEW p \in Peers, NEW k \in Qps, qp[p][k] \notin {"null", "wild"}
      PROVE pd' = "open"
    OBVIOUS
  <2>1. pd = "open"
    BY DEF IInv, Pairs
  <2>2. <<p, k>> \in LiveQps
    BY DEF LiveQps
  <2> QED BY <1>5, <2>1, <2>2
<1>7. Pairs'
  BY <1>1, <1>6 DEF IInv, Pairs, Width, Creating, Ending
<1> QED BY <1>1, <1>2, <1>4, <1>7 DEF IInv

-----------------------------------------------------------------------------
LEMMA IStep == ASSUME IInv, [Next]_vars PROVE IInv'
<1>1. CASE UNCHANGED vars
  BY <1>1 DEF vars, resVars, peerVars, IInv, TypeOK, Resources, AllCqs, Released, Pairs,
     Width, Thread, Listens, GivenUp, Left, LiveQps
<1>2. CASE Next
  BY <1>2, CreateStep, ConnectStep, DestroyPeersStep, ReleaseStep DEF Next, Destroy
<1> QED BY <1>1, <1>2

\* IInv holds of every reachable state, for all numbers of peers, completion
\* queues and queue pairs.
THEOREM Invariance == Spec => []IInv
<1>1. Init => IInv
  BY IInit
<1>2. IInv /\ [Next]_vars => IInv'
  BY IStep
<1> QED BY <1>1, <1>2, PTL DEF Spec

\* TypeOK is one of the conjuncts of IInv.
THEOREM TypeCorrect == Spec => []TypeOK
<1>1. IInv => TypeOK
  BY DEF IInv
<1> QED BY <1>1, Invariance, PTL

\* A peer in peers[] is ready to use, whatever failed before (ConnectQueuePair,
\* CreateResources): a queue pair in use keeps the domain open, and the domain is
\* only open if the completion queues are.
THEOREM PeersReady == Spec => []ReadyPeers
<1>1. ASSUME IInv PROVE ReadyPeers
  <2> SUFFICES ASSUME NEW p \in Peers, step[p] = "known"
      PROVE /\ \A k \in 0..(Width(p) - 1) : qp[p][k] = "RTS"
            /\ pd = "open" /\ \A i \in DOMAIN cq : cq[i] = "open"
    BY DEF ReadyPeers
  <2>1. stage \notin Creating /\ \A k \in 0..(Width(p) - 1) : qp[p][k] = "RTS"
    BY <1>1 DEF IInv, Pairs
  <2>2. 0 \in 0..(Width(p) - 1) /\ 0 \in Qps
    BY WidthInRange, AdapterAssumption DEF Qps
  <2>3. pd = "open"
    BY <1>1, <2>1, <2>2 DEF IInv, Pairs
  <2>4. AllCqs
    BY <1>1, <2>1, <2>3 DEF IInv, Resources
  <2> QED BY <1>1, <2>1, <2>3, <2>4 DEF AllCqs, IInv, TypeOK
<1> QED BY <1>1, Invariance, PTL

\* CreateResources that returns false has released what it had opened, whichever
\* call failed.
THEOREM NothingLeft == Spec => []FailureLeavesNothing
<1>1. IInv => FailureLeavesNothing
  BY DEF IInv, Resources, FailureLeavesNothing, TypeOK
<1> QED BY <1>1, Invariance, PTL

\* The destructor of a client that has made all its connections gives everything
\* back but the completion queues.
THEOREM GivesBack == Spec => []ClientGivesBack
<1>1. IInv => ClientGivesBack
  BY DEF IInv, Released, Left, ClientGivesBack, Ending
<1> QED BY <1>1, Invariance, PTL

LEMMA CreateCrashes == ASSUME IInv, ~fault, Create PROVE Crashes'
<1>1. fault' = fault \/ "create" \in failed'
  BY Zenon DEF Create, GetDevice, OpenDevice, QueryPort, CreateCq, AllocPd, RegMr,
     Cleanup, CloseAndFree
<1> QED BY <1>1 DEF Crashes

LEMMA ConnectCrashes ==
  ASSUME IInv, ~fault, NEW p \in Peers, Connect(p) PROVE Crashes'
<1> USE DEF IInv
<1>1. UNCHANGED <<isServer, stage>> /\ stage \notin Creating /\ failed \subseteq failed'
  BY ConnectFrame
<1> SUFFICES ASSUME fault', failed' = {}
    PROVE stage \notin {"created", "failed"} /\ isServer
  BY <1>1 DEF Crashes
<1>2. step[p] \in InProgress /\ (pd # "open" \/ ctx # "open" \/ mr # "open")
  BY DEF Connect, ExchangeID, CreateQueuePair, ExchangeMeta, ModifyQP, Record, InProgress
<1>3. stage \notin {"created", "failed"}
  <2>1. failed = {}
    BY <1>1
  <2> QED BY <1>2, <2>1 DEF Released, Resources
<1>4. stage \in Ending
  BY <1>1, <1>3 DEF TypeOK, Creating, Ending
<1>5. Listens(p)
  BY <1>2, <1>4 DEF Thread
<1> QED BY <1>3, <1>5 DEF Listens

LEMMA DestroyCrashes == ASSUME IInv, ~fault, Destroy PROVE Crashes'
<1> USE DEF IInv
<1>0. UNCHANGED <<isServer, failed>>
  BY DEF Destroy, DestroyPeers, DeregMr, DeallocPd, CloseDevice
<1> SUFFICES ASSUME fault', failed = {}
    PROVE  stage' = "mr?" /\ (isServer \/ GivenUp')
  BY <1>0 DEF Crashes
<1>1. DestroyPeers /\ stage' = "mr?"
  BY DEF Destroy, DestroyPeers, DeregMr, DeallocPd, CloseDevice, Released
<1>2. CASE ~isServer /\ ~GivenUp
  <2>1. \A p \in ServerPeers : step[p] = "known"
    BY <1>1, <1>2, AdapterAssumption DEF DestroyPeers, ConnectEnded, Listens
  <2>2. \A p \in Peers : Width(p) = QpNumber
    BY <1>2 DEF Width
  <2>3. \A p \in ServerPeers, k \in Qps : qp[p][k] = "RTS"
    BY <2>1, <2>2, AdapterAssumption DEF Pairs, Qps
  <2> QED BY <1>1, <1>2, <2>1, <2>3 DEF DestroyPeers, UnsetPeer
<1>3. CASE GivenUp
  <2>1. PICK q \in Peers : ~Listens(q) /\ step[q] = "lost"
    BY <1>3 DEF GivenUp
  <2>2. step'[q] = "lost" /\ ~Listens(q)'
    BY <1>1, <2>1 DEF DestroyPeers, Listens
  <2> QED BY <1>1, <2>2 DEF GivenUp
<1> QED BY <1>1, <1>2, <1>3

\* A process crashes of nothing but what Crashes names: no failed exchange of IDs
\* or of ExchangeMeta, and no failed ModifyQPto..., is one, in any thread.
THEOREM CrashCauses == Spec => []Crashes
<1>1. Init => Crashes
  BY DEF Init, Crashes
<1>2. ASSUME IInv, Crashes, [Next]_vars PROVE Crashes'
  <2>1. CASE UNCHANGED vars
    BY <1>2, <2>1 DEF Crashes, vars, GivenUp, Listens, peerVars
  <2>2. CASE Next
    BY <1>2, <2>2, CreateCrashes, ConnectCrashes, DestroyCrashes DEF Next
  <2> QED BY <1>2, <2>1, <2>2
<1> QED BY <1>1, <1>2, Invariance, PTL DEF Spec
=============================================================================
