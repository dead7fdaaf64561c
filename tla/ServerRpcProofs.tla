--------------------------- MODULE ServerRpcProofs ---------------------------
(***************************************************************************)
(* Proofs about MemoryLayout and ServerRpc.                                *)
(*                                                                         *)
(* First where the pools, the mailboxes and the data area lie, for every   *)
(* number of servers and clients and every size: what the address          *)
(* operations promise, and where they do not keep apart what they should.  *)
(* Then, for any servers, threads, clients and data, what that is worth to *)
(* a call between servers, and last that it is a call of CallService.      *)
(***************************************************************************)
EXTENDS ServerRpc, FiniteLemmas

-----------------------------------------------------------------------------
(***************************************************************************)
(* The layout of the memory.                                               *)
(***************************************************************************)

LEMMA MulMonotone ==
  ASSUME NEW a \in Int, NEW b \in Int, NEW c \in Nat, a <= b PROVE a * c <= b * c
BY SMT

LEMMA MulClosed == \A a, b \in Nat : a * b \in Nat
BY SMT

\* Bytes of one server's row of a pool.
RowSize == MessageSize * ServerMessageNum

LEMMA RowSizeType == RowSize \in Nat /\ MessageSize <= RowSize
<1>1. MessageSize \in Nat /\ ServerMessageNum \in Nat /\ 1 <= ServerMessageNum
  BY LayoutAssumption
<1>2. 1 * MessageSize <= ServerMessageNum * MessageSize
  BY <1>1, MulMonotone
<1>3. ServerMessageNum * MessageSize = MessageSize * ServerMessageNum
  BY <1>1
<1> QED BY <1>1, <1>2, <1>3, MulClosed DEF RowSize

LEMMA PoolSizeIs == PoolSize = ServerCount * RowSize /\ PoolSize \in Nat
<1>1. ServerCount \in Nat /\ RowSize \in Nat
  BY LayoutAssumption, RowSizeType
<1> QED BY <1>1, MulClosed DEF PoolSize, RowSize

LEMMA OffsetInRow ==
  ASSUME NEW o \in Offsets
  PROVE  o * MessageSize \in Nat /\ o * MessageSize + MessageSize <= RowSize
<1>1. MessageSize \in Nat /\ ServerMessageNum \in Nat /\ o \in Nat
      /\ o + 1 <= ServerMessageNum
  BY LayoutAssumption DEF Offsets
<1>2. (o + 1) * MessageSize <= ServerMessageNum * MessageSize
  BY <1>1, MulMonotone
<1>3. (o + 1) * MessageSize = o * MessageSize + MessageSize
  BY <1>1
<1>4. ServerMessageNum * MessageSize = RowSize
  BY <1>1 DEF RowSize
<1> QED BY <1>1, <1>2, <1>3, <1>4, MulClosed

LEMMA SlotOffsetIs ==
  ASSUME NEW n \in Servers, NEW o \in Offsets
  PROVE  /\ (n - 1) * RowSize \in Nat
         /\ SlotOffset(n, o) = (n - 1) * RowSize + o * MessageSize
<1>1. n - 1 \in Nat /\ MessageSize \in Nat /\ ServerMessageNum \in Nat
  BY LayoutAssumption DEF Servers
<1>2. (n - 1) * MessageSize * ServerMessageNum = (n - 1) * RowSize
  BY <1>1 DEF RowSize
<1> QED BY <1>1, <1>2, RowSizeType, MulClosed DEF SlotOffset

\* A slot lies within its pool.
LEMMA SlotInPool ==
  ASSUME NEW n \in Servers, NEW o \in Offsets
  PROVE  SlotOffset(n, o) \in Nat /\ SlotOffset(n, o) + MessageSize <= PoolSize
<1> DEFINE row == (n - 1) * RowSize
<1>1. n \in Nat /\ n - 1 \in Nat /\ n <= ServerCount /\ ServerCount \in Nat
  BY LayoutAssumption DEF Servers
<1>2. n * RowSize <= ServerCount * RowSize
  BY <1>1, RowSizeType, MulMonotone
<1>3. n * RowSize = row + RowSize
  BY <1>1, RowSizeType
<1>4. row \in Nat /\ SlotOffset(n, o) = row + o * MessageSize
  BY SlotOffsetIs
<1>5. o * MessageSize \in Nat /\ o * MessageSize + MessageSize <= RowSize
  BY OffsetInRow
<1>6. MessageSize \in Nat /\ RowSize \in Nat /\ PoolSize \in Nat
      /\ n * RowSize <= PoolSize
  BY <1>2, LayoutAssumption, RowSizeType, PoolSizeIs
<1> HIDE DEF row
<1>7. SlotOffset(n, o) \in Nat
  BY <1>4, <1>5
<1>8. SlotOffset(n, o) + MessageSize <= row + RowSize
  BY <1>4, <1>5, <1>6
<1>9. row + RowSize <= PoolSize
  BY <1>3, <1>6
<1> QED BY <1>4, <1>6, <1>7, <1>8, <1>9

\* A slot of an earlier row ends before a later row begins.
LEMMA RowsApart ==
  ASSUME NEW m \in Servers, NEW n \in Servers, m < n,
         NEW o \in Offsets, NEW u \in Offsets
  PROVE  SlotOffset(m, o) + MessageSize <= SlotOffset(n, u)
<1> DEFINE low == (m - 1) * RowSize
           high == (n - 1) * RowSize
<1>1. m \in Nat /\ m <= n - 1 /\ m - 1 \in Nat /\ n - 1 \in Nat
  BY DEF Servers
<1>2. m * RowSize <= high
  BY <1>1, RowSizeType, MulMonotone
<1>3. m * RowSize = low + RowSize
  BY <1>1, RowSizeType
<1>4. low \in Nat /\ SlotOffset(m, o) = low + o * MessageSize
  BY SlotOffsetIs
<1>5. high \in Nat /\ SlotOffset(n, u) = high + u * MessageSize
  BY SlotOffsetIs
<1>6. o * MessageSize \in Nat /\ o * MessageSize + MessageSize <= RowSize
  BY OffsetInRow
<1>7. u * MessageSize \in Nat
  BY OffsetInRow
<1>8. MessageSize \in Nat /\ RowSize \in Nat
  BY LayoutAssumption, RowSizeType
<1> HIDE DEF low, high
<1>9. low + RowSize <= high
  BY <1>2, <1>3
<1>10. SlotOffset(m, o) + MessageSize <= low + RowSize
  BY <1>4, <1>6, <1>8
<1>11. high <= SlotOffset(n, u)
  BY <1>5, <1>7
<1>12. SlotOffset(m, o) \in Nat /\ SlotOffset(n, u) \in Nat
  BY <1>4, <1>5, <1>6, <1>7
<1> QED BY <1>4, <1>5, <1>8, <1>9, <1>10, <1>11, <1>12

\* So do the slots of one row.
LEMMA ThreadsApart ==
  ASSUME NEW n \in Servers, NEW o \in Offsets, NEW u \in Offsets, o < u
  PROVE  SlotOffset(n, o) + MessageSize <= SlotOffset(n, u)
<1> DEFINE row == (n - 1) * RowSize
<1>1. o \in Nat /\ u \in Nat /\ o + 1 <= u /\ MessageSize \in Nat
  BY LayoutAssumption DEF Offsets
<1>2. (o + 1) * MessageSize <= u * MessageSize
  BY <1>1, MulMonotone
<1>3. (o + 1) * MessageSize = o * MessageSize + MessageSize
  BY <1>1
<1>4. row \in Nat /\ SlotOffset(n, o) = row + o * MessageSize
                  /\ SlotOffset(n, u) = row + u * MessageSize
  BY SlotOffsetIs
<1>5. o * MessageSize \in Nat /\ u * MessageSize \in Nat
  BY OffsetInRow
<1> HIDE DEF row
<1> QED BY <1>1, <1>2, <1>3, <1>4, <1>5

\* The receive slots of two calling threads never overlap, nor do the send slots
\* of one thread for two servers (getServerRecvAddress, getServerSendAddress): two
\* calls at once do not write over each other, as long as the threads' offsets are
\* below SERVER_MASSAGE_NUM and those of one server's threads differ.
THEOREM SlotsDisjoint ==
  \A m, n \in Servers, o, u \in Offsets :
    <<m, o>> # <<n, u>> =>
      \/ ServerRecvAddress(m, o) + MessageSize <= ServerRecvAddress(n, u)
      \/ ServerRecvAddress(n, u) + MessageSize <= ServerRecvAddress(m, o)
<1> SUFFICES ASSUME NEW m \in Servers, NEW n \in Servers, NEW o \in Offsets,
                    NEW u \in Offsets, <<m, o>> # <<n, u>>
    PROVE  \/ ServerRecvAddress(m, o) + MessageSize <= ServerRecvAddress(n, u)
           \/ ServerRecvAddress(n, u) + MessageSize <= ServerRecvAddress(m, o)
  OBVIOUS
<1>1. m \in Nat /\ n \in Nat /\ o \in Nat /\ u \in Nat
  BY DEF Servers, Offsets
<1>2. m < n \/ n < m \/ (m = n /\ (o < u \/ u < o))
  BY <1>1
<1>3. \/ SlotOffset(m, o) + MessageSize <= SlotOffset(n, u)
      \/ SlotOffset(n, u) + MessageSize <= SlotOffset(m, o)
  BY <1>2, RowsApart, ThreadsApart
<1>4. SlotOffset(m, o) \in Nat /\ SlotOffset(n, u) \in Nat /\ MessageSize \in Nat
  BY SlotInPool, LayoutAssumption
<1>5. ServerRecvBaseAddress \in Nat
  BY LayoutAssumption, PoolSizeIs, MulClosed
     DEF ServerRecvBaseAddress, ServerSendBaseAddress
<1> QED BY <1>3, <1>4, <1>5 DEF ServerRecvAddress

\* The pools lie behind one another: a request that is prepared in the send pool
\* is never a slot in which an answer arrives, and no mailbox of the first
\* MAX_CLIENT_NUMBER clients is in either.
THEOREM PoolsApart ==
  ASSUME NEW n \in Servers, NEW o \in Offsets
  PROVE  /\ ServerSendBaseAddress <= ServerSendAddress(n, o)
         /\ ServerSendAddress(n, o) + MessageSize <= ServerRecvBaseAddress
         /\ ServerRecvBaseAddress <= ServerRecvAddress(n, o)
         /\ ServerRecvAddress(n, o) + MessageSize <= MetadataBaseAddress
<1>1. SlotOffset(n, o) \in Nat /\ SlotOffset(n, o) + MessageSize <= PoolSize
  BY SlotInPool
<1>2. MessageSize \in Nat /\ PoolSize \in Nat /\ ServerSendBaseAddress \in Nat
  BY LayoutAssumption, PoolSizeIs, MulClosed DEF ServerSendBaseAddress
<1> HIDE DEF ServerSendBaseAddress
<1> QED BY <1>1, <1>2 DEF ServerSendAddress, ServerRecvAddress,
     ServerRecvBaseAddress, MetadataBaseAddress

\* The mailboxes of the first MAX_CLIENT_NUMBER clients lie before the send pool
\* and apart from each other (getClientMessageAddress), and those of all further
\* clients begin inside it or behind it: NodeIDs are not bounded, the mailboxes are.
THEOREM Mailboxes ==
  ASSUME NEW n \in Nat, n > ServerCount
  PROVE  /\ n <= ServerCount + MaxClientNumber =>
              /\ ClientMessageAddress(n) \in Nat
              /\ ClientMessageAddress(n) + MessageSize <= ServerSendBaseAddress
         /\ n > ServerCount + MaxClientNumber =>
              ClientMessageAddress(n) >= ServerSendBaseAddress
         /\ ClientMessageAddress(n + 1) = ClientMessageAddress(n) + MessageSize
<1> DEFINE k == n - ServerCount - 1
<1>1. k \in Nat /\ MessageSize \in Nat /\ MaxClientNumber \in Nat /\ ServerCount \in Nat
  BY LayoutAssumption
<1>2. k * MessageSize \in Nat /\ (k + 1) * MessageSize = k * MessageSize + MessageSize
  BY <1>1, MulClosed
<1>3. /\ ClientMessageAddress(n) = k * MessageSize
      /\ ClientMessageAddress(n + 1) = (k + 1) * MessageSize
      /\ ServerSendBaseAddress = MaxClientNumber * MessageSize
  BY <1>1 DEF ClientMessageAddress, ServerSendBaseAddress
<1>4. ASSUME n <= ServerCount + MaxClientNumber
      PROVE  (k + 1) * MessageSize <= MaxClientNumber * MessageSize
  <2>1. k + 1 <= MaxClientNumber
    BY <1>1, <1>4
  <2> QED BY <1>1, <2>1, MulMonotone
<1>5. ASSUME n > ServerCount + MaxClientNumber
      PROVE  MaxClientNumber * MessageSize <= k * MessageSize
  <2>1. MaxClientNumber <= k
    BY <1>1, <1>5
  <2> QED BY <1>1, <2>1, MulMonotone
<1> HIDE DEF k
<1> QED BY <1>2, <1>3, <1>4, <1>5

\* The data area ends where the allocated memory ends, and begins where a client
\* takes it to begin: MemoryManager and Client compute the same address, although
\* MemoryManager counts one pool less than it lays out.
THEOREM DataArea ==
  /\ DataBaseAddress + DataSize = DMFSTotalSize
  /\ DmfsDataOffset = DataBaseAddress
<1>1. /\ PoolSize \in Nat /\ MessageSize * MaxClientNumber \in Nat
      /\ MetadataSize \in Nat /\ DataSize \in Nat
  BY PoolSizeIs, LayoutAssumption, MulClosed
<1> HIDE DEF PoolSize
<1> QED BY <1>1 DEF DataBaseAddress, DMFSTotalSize, DmfsDataOffset,
     ServerRecvBaseAddress, ServerSendBaseAddress

\* The data area lies over the receive pool: a slot is before it only if it is in
\* the first MetadataSize bytes of the pool.  With METADATA_SIZE = MESSAGE_SIZE
\* that is the slot of offset 0 of server 1 alone, and writing the first block of
\* data writes over the answers the other threads wait for.
THEOREM DataOverSlots ==
  ASSUME NEW n \in Servers, NEW o \in Offsets
  PROVE  /\ ServerRecvAddress(n, o) + MessageSize <= DataBaseAddress
              <=> SlotOffset(n, o) + MessageSize <= MetadataSize
         /\ MetadataSize = MessageSize =>
              (ServerRecvAddress(n, o) < DataBaseAddress <=> n = 1 /\ o = 0)
<1>1. SlotOffset(n, o) \in Nat
  BY SlotInPool
<1>2. MessageSize \in Nat \ {0} /\ MetadataSize \in Nat /\ ServerRecvBaseAddress \in Nat
  BY LayoutAssumption, PoolSizeIs, MulClosed
     DEF ServerRecvBaseAddress, ServerSendBaseAddress
<1> HIDE DEF ServerRecvBaseAddress
<1>3. SlotOffset(1, 0) = 0 /\ 1 \in Servers /\ 0 \in Offsets
  BY LayoutAssumption DEF SlotOffset, Servers, Offsets
<1>4. ASSUME ~(n = 1 /\ o = 0) PROVE MessageSize <= SlotOffset(n, o)
  <2>1. n > 1 \/ (n = 1 /\ o > 0)
    BY <1>4 DEF Servers, Offsets
  <2>2. SlotOffset(1, 0) + MessageSize <= SlotOffset(n, o)
    BY <1>3, <2>1, RowsApart, ThreadsApart
  <2> QED BY <1>2, <1>3, <2>2
<1>5. n = 1 /\ o = 0 => SlotOffset(n, o) = 0
  BY <1>3
<1> QED BY <1>1, <1>2, <1>4, <1>5 DEF ServerRecvAddress, DataBaseAddress

-----------------------------------------------------------------------------
(***************************************************************************)
(* The inductive invariant.                                                *)
(***************************************************************************)

\* What carries a call of t to d and its answer: the immediate data, the writes
\* and what the adapters make of them.
Row(t) == <<Home[t], Slot[t]>>
RequestWrite(t, d) ==
  [from |-> ServerSendAddress(d, Slot[t]), to |-> MySlot(t), imm |-> Row(t)]
ReplyWrite(t) == [from |-> MySlot(t), to |-> MySlot(t), imm |-> NoImm]
RequestPackets(t) == [what : Content, to : {MySlot(t)}, imm : {Row(t)}]
ReplyPackets(t)   == [what : Content, to : {MySlot(t)}, imm : {NoImm}]

\* A queue pair carries requests of its server's threads and replies to those of
\* the other server; a completion queue, requests of the other servers' threads.
ThreadsOf(s) == {t \in Threads : Home[t] = s}
Writes(p) == {RequestWrite(t, p[2]) : t \in ThreadsOf(p[1])}
               \cup {ReplyWrite(t) : t \in ThreadsOf(p[2])}
Packets(p) ==
  {x \in [what : Content, to : Cells, imm : (Servers \X Offsets) \cup {NoImm}] :
     \/ \E t \in ThreadsOf(p[1]) : x \in RequestPackets(t)
     \/ \E t \in ThreadsOf(p[2]) : x \in ReplyPackets(t)}
Callers(d) == {Row(t) : t \in {u \in Threads : Home[u] # d}}

Typed ==
  /\ mem \in [Servers -> [Cells -> Content]]
  /\ pc \in [Threads -> {"idle", "post", "spin", "copy"}]
  /\ dest \in [Threads -> Servers] /\ task \in [Threads -> Nat]
  /\ answer \in [Threads -> Content] /\ taskID \in [Servers -> Nat]
  /\ DOMAIN sendq = Pairs /\ DOMAIN wire = Pairs
  /\ \A p \in Pairs : sendq[p] \in Seq(Writes(p)) /\ wire[p] \in Seq(Packets(p))
  /\ receives \in [Pairs -> Nat]
  /\ cq \in [Servers -> Seq(Servers \X Offsets)]
  /\ \A d \in Servers : cq[d] \in Seq(Callers(d))
  /\ wpc \in [Servers -> {"poll", "build", "classify", "reply", "repost"}]
  /\ serving \in [Servers -> Servers \X Offsets]
  /\ \A d \in Servers : wpc[d] # "poll" => serving[d] \in Callers(d)
  /\ replyTask \in [Servers -> Nat]
  /\ asked \in [Servers \X ClientIDs -> Nat] /\ writes \in [Servers -> Nat]
  /\ foreign \in BOOLEAN /\ overwritten \in SUBSET Threads
  /\ executed \in [Servers \X Offsets -> [last : Nat, count : Nat]]

\* Where a call of t to d, or its answer, is under way, and how often.
Asked(t, d)    == Mentions(sendq[<<Home[t], d>>], RequestWrite(t, d))
Asking(t, d)   == Matches(wire[<<Home[t], d>>], RequestPackets(t))
Arrived(t, d)  == Mentions(cq[d], Row(t))
Busy(t, d)     ==
  IF wpc[d] \in {"build", "classify", "reply"} /\ serving[d] = Row(t)
    THEN 1 ELSE 0
Replying(t, d) == Mentions(sendq[<<d, Home[t]>>], ReplyWrite(t))
Replied(t, d)  == Matches(wire[<<d, Home[t]>>], ReplyPackets(t))

Load(t, d) == Asked(t, d) + Asking(t, d) + Arrived(t, d) + Busy(t, d)
                + Replying(t, d) + Replied(t, d)

\* The call is to be posted, or it or its answer is under way.
Waiting(t) ==
  \/ pc[t] = "post"
  \/ pc[t] = "spin" /\ \E d \in Servers \ {Home[t]} : Load(t, d) > 0

\* The cells of a call: where it awaits the answer, the same address in the
\* memory of the called server, and where its request is prepared.
Here(t)        == mem[Home[t]][MySlot(t)]
There(t, d)    == mem[d][MySlot(t)]
Prepared(t, d) == mem[Home[t]][ServerSendAddress(d, Slot[t])]

\* The packets of M on a wire hold c.
Carry(w, M, c) == \A x \in Range(w) : x \in M => x.what = c

\* A worker has answered the latest call of t.
Answered(t) == executed[Row(t)].last = task[t]

\* Wherever the call is, it is what t sent, and then the answer to it: no worker
\* has answered it before, and one has then.
Carried(t, d) ==
  /\ (pc[t] = "post" \/ Asked(t, d) > 0 \/ Asking(t, d) > 0
        \/ Arrived(t, d) > 0 \/ Busy(t, d) > 0) => ~ Answered(t)
  /\ Replying(t, d) > 0 \/ Replied(t, d) > 0 => Answered(t)
  /\ pc[t] = "post" \/ Asked(t, d) > 0 => Prepared(t, d) = Request(task[t])
  /\ Asking(t, d) > 0 =>
       Carry(wire[<<Home[t], d>>], RequestPackets(t), Request(task[t]))
  /\ Arrived(t, d) > 0 \/ (Busy(t, d) > 0 /\ wpc[d] # "reply")
       => There(t, d) = Request(task[t])
  /\ Busy(t, d) > 0 /\ wpc[d] # "build" => replyTask[d] = task[t]
  /\ Replying(t, d) > 0 => There(t, d) = Response(task[t])
  /\ Replied(t, d) > 0 =>
       Carry(wire[<<d, Home[t]>>], ReplyPackets(t), Response(task[t]))

\* A thread over whose calls no client has written gets its own answer.
Own(t) ==
  /\ pc[t] = "idle" => answer[t] = Response(task[t])
  /\ Waiting(t) => /\ Here(t).msg = "INVALID"
                   /\ \A d \in Servers \ {Home[t]} : d = dest[t] => Carried(t, d)
  /\ pc[t] \in {"spin", "copy"} /\ ~ Waiting(t) => Here(t) = Response(task[t])
  /\ ~ Waiting(t) => Answered(t)

\* A thread has at most one message under way, none unless it spins, and sees no
\* answer while it has.
Local(t) ==
  /\ pc[t] # "idle" => dest[t] # Home[t]
  /\ \A d \in Servers \ {Home[t]} :
       Load(t, d) <= IF pc[t] = "spin" /\ dest[t] = d THEN 1 ELSE 0
  /\ Waiting(t) => Here(t).msg # "RESPONSE"
  /\ Undisturbed(t) => Own(t)

\* The receives of p that are posted, or whose request is with the worker.
Held(p) ==
  receives[p] + Matches(cq[p[2]], {p[1]} \X Offsets)
    + (IF wpc[p[2]] # "poll" /\ serving[p[2]][1] = p[1] THEN 1 ELSE 0)

\* The request of t, or its answer, was overwritten on its way: t spins for ever.
Lost(t) == pc[t] = "spin" /\ ~ Waiting(t) /\ Here(t).msg # "RESPONSE"
Gone(p) == {t \in ThreadsOf(p[1]) : dest[t] = p[2] /\ Lost(t)}

\* Every receive that is missing is missing with a thread that is lost.
Account(p) ==
  Held(p) <= RecvDepth /\ RecvDepth <= Held(p) + Cardinality(Gone(p))

\* The tasks of a server's threads are numbered upwards.
Numbered(t) == task[t] < taskID[Home[t]]

IInv ==
  /\ Typed
  /\ \A t \in Threads : Numbered(t)
  /\ \A t \in Threads : Local(t)
  /\ \A p \in Pairs : Account(p)

-----------------------------------------------------------------------------
(***************************************************************************)
(* The cells and the messages of different threads are different.          *)
(***************************************************************************)

\* Where the slots of a thread lie.
LEMMA Addresses ==
  ASSUME NEW t \in Threads, NEW d \in Servers
  PROVE  /\ Home[t] \in Servers /\ Slot[t] \in Offsets
         /\ MySlot(t) \in Cells /\ ServerSendAddress(d, Slot[t]) \in Cells
         /\ ServerSendBaseAddress <= ServerSendAddress(d, Slot[t])
         /\ ServerSendAddress(d, Slot[t]) < ServerRecvBaseAddress
         /\ ServerRecvBaseAddress <= MySlot(t)
         /\ ServerSendBaseAddress \in Nat /\ ServerRecvBaseAddress \in Nat
<1>1. Home[t] \in Servers /\ Slot[t] \in Offsets /\ MessageSize = 1
  BY RpcAssumption DEF RpcAssumption
<1>2. /\ ServerSendBaseAddress <= ServerSendAddress(d, Slot[t])
      /\ ServerSendAddress(d, Slot[t]) + 1 <= ServerRecvBaseAddress
      /\ ServerRecvBaseAddress <= MySlot(t)
      /\ MySlot(t) + 1 <= MetadataBaseAddress
  BY <1>1, PoolsApart DEF MySlot
<1>3. SlotOffset(d, Slot[t]) \in Nat /\ SlotOffset(Home[t], Slot[t]) \in Nat
  BY <1>1, SlotInPool
<1>4. /\ PoolSize \in Nat /\ ServerSendBaseAddress \in Nat
      /\ MetadataSize \in Nat /\ DataSize \in Nat
      /\ PoolSize <= MetadataSize + DataSize
  BY PoolSizeIs, LayoutAssumption, MulClosed, RpcAssumption
     DEF ServerSendBaseAddress, RpcAssumption
<1>5. DMFSTotalSize = DataSize + MetadataSize + ServerSendBaseAddress + PoolSize
  BY DEF DMFSTotalSize, ServerSendBaseAddress
<1> HIDE DEF ServerSendBaseAddress, PoolSize, DMFSTotalSize
<1>6. /\ ServerRecvBaseAddress = ServerSendBaseAddress + PoolSize
      /\ MetadataBaseAddress = ServerRecvBaseAddress + PoolSize
      /\ MySlot(t) = ServerRecvBaseAddress + SlotOffset(Home[t], Slot[t])
      /\ ServerSendAddress(d, Slot[t])
           = ServerSendBaseAddress + SlotOffset(d, Slot[t])
  BY DEF ServerRecvBaseAddress, MetadataBaseAddress, MySlot,
         ServerRecvAddress, ServerSendAddress
<1> HIDE DEF ServerRecvBaseAddress, MetadataBaseAddress
<1>7. ServerRecvBaseAddress \in Nat /\ MetadataBaseAddress \in Nat
      /\ MySlot(t) \in Nat /\ ServerSendAddress(d, Slot[t]) \in Nat
      /\ DMFSTotalSize \in Nat
  BY <1>3, <1>4, <1>5, <1>6
<1>8. MetadataBaseAddress <= DMFSTotalSize
  BY <1>4, <1>5, <1>6
<1>9. MySlot(t) <= DMFSTotalSize - 1
  BY <1>2, <1>7, <1>8
<1>10. ServerSendAddress(d, Slot[t]) <= DMFSTotalSize - 1
  BY <1>2, <1>7, <1>9
<1> QED
  BY <1>1, <1>2, <1>4, <1>7, <1>9, <1>10 DEF Cells

\* No slot of the receive pool is one of the send pool.
LEMMA Pools ==
  ASSUME NEW t \in Threads, NEW u \in Threads, NEW d \in Servers
  PROVE  MySlot(t) # ServerSendAddress(d, Slot[u])
<1>1. /\ ServerSendAddress(d, Slot[u]) < ServerRecvBaseAddress
      /\ ServerRecvBaseAddress <= MySlot(t) /\ ServerRecvBaseAddress \in Nat
      /\ MySlot(t) \in Nat /\ ServerSendAddress(d, Slot[u]) \in Nat
  BY Addresses DEF Cells
<1> HIDE DEF ServerRecvBaseAddress
<1> QED BY <1>1

\* Offsets of different slots differ.
LEMMA SlotsDiffer ==
  ASSUME NEW m \in Servers, NEW n \in Servers, NEW o \in Offsets,
         NEW q \in Offsets, SlotOffset(m, o) = SlotOffset(n, q)
  PROVE  m = n /\ o = q
<1>1. m \in Nat /\ n \in Nat /\ o \in Nat /\ q \in Nat
  BY DEF Servers, Offsets
<1>2. SlotOffset(m, o) \in Nat /\ MessageSize \in Nat \ {0}
  BY SlotInPool, LayoutAssumption
<1>3. ~ (m < n) /\ ~ (n < m)
  BY <1>2, RowsApart
<1>4. m = n
  BY <1>1, <1>3
<1>5. ~ (o < q) /\ ~ (q < o)
  BY <1>2, <1>4, ThreadsApart
<1> QED BY <1>1, <1>4, <1>5

\* Different threads have different rows and slots, and those of one server
\* prepare their requests in different cells.
LEMMA Apart ==
  ASSUME NEW t \in Threads, NEW u \in Threads, t # u
  PROVE  /\ Row(t) # Row(u) /\ MySlot(t) # MySlot(u)
         /\ Home[t] = Home[u] =>
              \A d, e \in Servers :
                ServerSendAddress(d, Slot[t]) # ServerSendAddress(e, Slot[u])
<1>1. /\ Home[t] \in Servers /\ Slot[t] \in Offsets
      /\ Home[u] \in Servers /\ Slot[u] \in Offsets
      /\ ~ (Home[t] = Home[u] /\ Slot[t] = Slot[u])
  BY RpcAssumption DEF RpcAssumption
<1>2. Row(t) # Row(u)
  BY <1>1 DEF Row
<1>3. SlotOffset(Home[t], Slot[t]) # SlotOffset(Home[u], Slot[u])
  BY <1>1, SlotsDiffer
<1>4. /\ SlotOffset(Home[t], Slot[t]) \in Nat /\ SlotOffset(Home[u], Slot[u]) \in Nat
      /\ ServerRecvBaseAddress \in Nat /\ ServerSendBaseAddress \in Nat
  BY <1>1, SlotInPool, Addresses
<1>5. MySlot(t) # MySlot(u)
  <2> HIDE DEF ServerRecvBaseAddress, SlotOffset
  <2> QED BY <1>3, <1>4 DEF MySlot, ServerRecvAddress
<1>6. ASSUME Home[t] = Home[u], NEW d \in Servers, NEW e \in Servers
      PROVE  ServerSendAddress(d, Slot[t]) # ServerSendAddress(e, Slot[u])
  <2>1. SlotOffset(d, Slot[t]) # SlotOffset(e, Slot[u])
    BY <1>1, <1>6, SlotsDiffer
  <2>2. SlotOffset(d, Slot[t]) \in Nat /\ SlotOffset(e, Slot[u]) \in Nat
    BY <1>1, SlotInPool
  <2> HIDE DEF ServerSendBaseAddress, SlotOffset
  <2> QED BY <1>4, <2>1, <2>2 DEF ServerSendAddress
<1> QED BY <1>2, <1>5, <1>6

\* A row is no missing immediate.
LEMMA RowIsImm ==
  ASSUME NEW t \in Threads
  PROVE  Row(t) # NoImm /\ Row(t) \in Servers \X Offsets
<1>1. Home[t] \in Servers /\ Slot[t] \in Offsets
  BY RpcAssumption DEF RpcAssumption
<1>2. Len(Row(t)) = 2 /\ Len(NoImm) = 0
  BY DEF Row, NoImm
<1> QED BY <1>1, <1>2 DEF Row

\* A write, and a packet, is of one thread and one direction.
LEMMA WriteOf ==
  ASSUME NEW t \in Threads, NEW u \in Threads, NEW d \in Servers, NEW e \in Servers
  PROVE  /\ RequestWrite(t, d) = RequestWrite(u, e) => t = u
         /\ RequestWrite(t, d) # ReplyWrite(u)
         /\ ReplyWrite(t) = ReplyWrite(u) => t = u
<1>1. RequestWrite(t, d).imm = Row(t) /\ RequestWrite(u, e).imm = Row(u)
  BY DEF RequestWrite
<1>2. /\ ReplyWrite(t).to = MySlot(t) /\ ReplyWrite(u).to = MySlot(u)
      /\ ReplyWrite(u).imm = NoImm
  BY DEF ReplyWrite
<1> QED BY <1>1, <1>2, Apart, RowIsImm

LEMMA PacketOf ==
  ASSUME NEW t \in Threads, NEW u \in Threads, NEW x
  PROVE  /\ x \in RequestPackets(t) /\ x \in RequestPackets(u) => t = u
         /\ ~ (x \in RequestPackets(t) /\ x \in ReplyPackets(u))
         /\ x \in ReplyPackets(t) /\ x \in ReplyPackets(u) => t = u
<1>1. \A v \in Threads :
        /\ x \in RequestPackets(v) => x.imm = Row(v) /\ x.to = MySlot(v)
        /\ x \in ReplyPackets(v) => x.imm = NoImm /\ x.to = MySlot(v)
  BY DEF RequestPackets, ReplyPackets
<1> QED BY <1>1, Apart, RowIsImm

-----------------------------------------------------------------------------
(***************************************************************************)
(* Counting what is under way.                                             *)
(***************************************************************************)

LEMMA PairOf ==
  ASSUME NEW t \in Threads, NEW d \in Servers \ {Home[t]}
  PROVE  <<Home[t], d>> \in Pairs /\ <<d, Home[t]>> \in Pairs
<1>1. Home[t] \in Servers
  BY RpcAssumption DEF RpcAssumption
<1> QED BY <1>1 DEF Pairs

\* The counts are natural numbers, and 0 where there is nothing.
LEMMA Counts ==
  ASSUME Typed, NEW t \in Threads, NEW d \in Servers \ {Home[t]}
  PROVE  /\ Asked(t, d) \in Nat /\ Asking(t, d) \in Nat /\ Arrived(t, d) \in Nat
         /\ Busy(t, d) \in Nat /\ Replying(t, d) \in Nat /\ Replied(t, d) \in Nat
         /\ Load(t, d) \in Nat
<1>1. /\ sendq[<<Home[t], d>>] \in Seq(Writes(<<Home[t], d>>))
      /\ wire[<<Home[t], d>>] \in Seq(Packets(<<Home[t], d>>))
      /\ sendq[<<d, Home[t]>>] \in Seq(Writes(<<d, Home[t]>>))
      /\ wire[<<d, Home[t]>>] \in Seq(Packets(<<d, Home[t]>>))
      /\ cq[d] \in Seq(Callers(d))
  BY PairOf DEF Typed
<1>2. Asked(t, d) \in Nat /\ Replying(t, d) \in Nat /\ Arrived(t, d) \in Nat
  BY <1>1, MentionsType DEF Asked, Replying, Arrived
<1>3. Asking(t, d) \in Nat /\ Replied(t, d) \in Nat
  BY <1>1, MatchesType DEF Asking, Replied
<1>4. Busy(t, d) \in Nat
  BY DEF Busy
<1> QED BY <1>2, <1>3, <1>4 DEF Load

\* A write that is posted.
Posts(p, x) == sendq' = [sendq EXCEPT ![p] = Append(@, x)]
LEMMA SendAppend ==
  ASSUME Typed, NEW p \in Pairs, NEW x \in Writes(p), Posts(p, x),
         NEW u \in Threads, NEW e \in Servers \ {Home[u]}
  PROVE  /\ Asked(u, e)' = Asked(u, e)
              + (IF p = <<Home[u], e>> /\ x = RequestWrite(u, e) THEN 1 ELSE 0)
         /\ Replying(u, e)' = Replying(u, e)
              + (IF p = <<e, Home[u]>> /\ x = ReplyWrite(u) THEN 1 ELSE 0)
<1>1. /\ DOMAIN sendq = Pairs /\ sendq[p] \in Seq(Writes(p))
      /\ <<Home[u], e>> \in Pairs /\ <<e, Home[u]>> \in Pairs
  BY PairOf DEF Typed
<1>2. \A q \in Pairs :
        sendq'[q] = IF q = p THEN Append(sendq[p], x) ELSE sendq[q]
  BY <1>1 DEF Posts
<1>3. \A y : Mentions(Append(sendq[p], x), y)
               = Mentions(sendq[p], y) + (IF x = y THEN 1 ELSE 0)
  BY <1>1, MentionsAppend DEF Posts
<1>4. Asked(u, e) \in Nat /\ Replying(u, e) \in Nat
  BY Counts
<1>5. Asked(u, e)' = Asked(u, e)
        + (IF p = <<Home[u], e>> /\ x = RequestWrite(u, e) THEN 1 ELSE 0)
  <2>1. CASE p = <<Home[u], e>>
    BY <1>1, <1>2, <1>3, <2>1 DEF Asked
  <2>2. CASE p # <<Home[u], e>>
    <3>1. sendq'[<<Home[u], e>>] = sendq[<<Home[u], e>>]
      BY <1>1, <1>2, <2>2
    <3>2. Asked(u, e)' = Asked(u, e)
      BY <3>1 DEF Asked
    <3> QED BY <1>4, <2>2, <3>2
  <2> QED BY <2>1, <2>2
<1>6. Replying(u, e)' = Replying(u, e)
        + (IF p = <<e, Home[u]>> /\ x = ReplyWrite(u) THEN 1 ELSE 0)
  <2>1. CASE p = <<e, Home[u]>>
    BY <1>1, <1>2, <1>3, <2>1 DEF Replying
  <2>2. CASE p # <<e, Home[u]>>
    <3>1. sendq'[<<e, Home[u]>>] = sendq[<<e, Home[u]>>]
      BY <1>1, <1>2, <2>2
    <3>2. Replying(u, e)' = Replying(u, e)
      BY <3>1 DEF Replying
    <3> QED BY <1>4, <2>2, <3>2
  <2> QED BY <2>1, <2>2
<1> QED BY <1>5, <1>6

\* A write that is read by the adapter.
Reads(p, x) ==
  sendq[p] # <<>> /\ x = Head(sendq[p]) /\ sendq' = [sendq EXCEPT ![p] = Tail(@)]
LEMMA SendTail ==
  ASSUME Typed, NEW p \in Pairs, NEW x, Reads(p, x),
         NEW u \in Threads, NEW e \in Servers \ {Home[u]}
  PROVE  /\ Asked(u, e) = Asked(u, e)'
              + (IF p = <<Home[u], e>> /\ x = RequestWrite(u, e)
                   THEN 1 ELSE 0)
         /\ Replying(u, e) = Replying(u, e)'
              + (IF p = <<e, Home[u]>> /\ x = ReplyWrite(u)
                   THEN 1 ELSE 0)
         /\ Asked(u, e)' \in Nat /\ Replying(u, e)' \in Nat
<1>1. /\ DOMAIN sendq = Pairs /\ sendq[p] \in Seq(Writes(p))
      /\ <<Home[u], e>> \in Pairs /\ <<e, Home[u]>> \in Pairs
  BY PairOf DEF Typed
<1>2. \A q \in Pairs : sendq'[q] = IF q = p THEN Tail(sendq[p]) ELSE sendq[q]
  BY <1>1 DEF Reads
<1>3. \A y : Mentions(sendq[p], y)
               = Mentions(Tail(sendq[p]), y) + (IF x = y THEN 1 ELSE 0)
  BY <1>1, MentionsTail DEF Reads
<1>4. Asked(u, e) \in Nat /\ Replying(u, e) \in Nat
  BY Counts
<1>5. Asked(u, e) = Asked(u, e)'
        + (IF p = <<Home[u], e>> /\ x = RequestWrite(u, e)
             THEN 1 ELSE 0)
  <2>1. CASE p = <<Home[u], e>>
    BY <1>1, <1>2, <1>3, <2>1 DEF Asked
  <2>2. CASE p # <<Home[u], e>>
    <3>1. sendq'[<<Home[u], e>>] = sendq[<<Home[u], e>>]
      BY <1>1, <1>2, <2>2
    <3>2. Asked(u, e)' = Asked(u, e)
      BY <3>1 DEF Asked
    <3> QED BY <1>4, <2>2, <3>2
  <2> QED BY <2>1, <2>2
<1>6. Replying(u, e) = Replying(u, e)'
        + (IF p = <<e, Home[u]>> /\ x = ReplyWrite(u) THEN 1 ELSE 0)
  <2>1. CASE p = <<e, Home[u]>>
    BY <1>1, <1>2, <1>3, <2>1 DEF Replying
  <2>2. CASE p # <<e, Home[u]>>
    <3>1. sendq'[<<e, Home[u]>>] = sendq[<<e, Home[u]>>]
      BY <1>1, <1>2, <2>2
    <3>2. Replying(u, e)' = Replying(u, e)
      BY <3>1 DEF Replying
    <3> QED BY <1>4, <2>2, <3>2
  <2> QED BY <2>1, <2>2
<1>7. Asked(u, e)' \in Nat /\ Replying(u, e)' \in Nat
  <2>1. Tail(sendq[p]) \in Seq(Writes(p))
    BY <1>1 DEF Reads
  <2>2. \A q \in Pairs : sendq'[q] \in Seq(Writes(q))
    <3>1. \A q \in Pairs : sendq[q] \in Seq(Writes(q))
      BY DEF Typed
    <3> QED BY <1>2, <2>1, <3>1
  <2> QED BY <1>1, <2>2, MentionsType DEF Asked, Replying
<1> QED BY <1>5, <1>6, <1>7

\* A packet that leaves the adapter.
Sends(p, x) == wire' = [wire EXCEPT ![p] = Append(@, x)]
LEMMA WireAppend ==
  ASSUME Typed, NEW p \in Pairs, NEW x \in Packets(p), Sends(p, x),
         NEW u \in Threads, NEW e \in Servers \ {Home[u]}
  PROVE  /\ Asking(u, e)' = Asking(u, e)
              + (IF p = <<Home[u], e>> /\ x \in RequestPackets(u) THEN 1 ELSE 0)
         /\ Replied(u, e)' = Replied(u, e)
              + (IF p = <<e, Home[u]>> /\ x \in ReplyPackets(u) THEN 1 ELSE 0)
<1>1. /\ DOMAIN wire = Pairs /\ wire[p] \in Seq(Packets(p))
      /\ <<Home[u], e>> \in Pairs /\ <<e, Home[u]>> \in Pairs
  BY PairOf DEF Typed
<1>2. \A q \in Pairs :
        wire'[q] = IF q = p THEN Append(wire[p], x) ELSE wire[q]
  BY <1>1 DEF Sends
<1>3. \A M : Matches(Append(wire[p], x), M)
               = Matches(wire[p], M) + (IF x \in M THEN 1 ELSE 0)
  BY <1>1, MatchesAppend DEF Sends
<1>4. Asking(u, e) \in Nat /\ Replied(u, e) \in Nat
  BY Counts
<1>5. Asking(u, e)' = Asking(u, e)
        + (IF p = <<Home[u], e>> /\ x \in RequestPackets(u) THEN 1 ELSE 0)
  <2>1. CASE p = <<Home[u], e>>
    BY <1>1, <1>2, <1>3, <2>1 DEF Asking
  <2>2. CASE p # <<Home[u], e>>
    <3>1. wire'[<<Home[u], e>>] = wire[<<Home[u], e>>]
      BY <1>1, <1>2, <2>2
    <3>2. Asking(u, e)' = Asking(u, e)
      BY <3>1 DEF Asking
    <3> QED BY <1>4, <2>2, <3>2
  <2> QED BY <2>1, <2>2
<1>6. Replied(u, e)' = Replied(u, e)
        + (IF p = <<e, Home[u]>> /\ x \in ReplyPackets(u) THEN 1 ELSE 0)
  <2>1. CASE p = <<e, Home[u]>>
    BY <1>1, <1>2, <1>3, <2>1 DEF Replied
  <2>2. CASE p # <<e, Home[u]>>
    <3>1. wire'[<<e, Home[u]>>] = wire[<<e, Home[u]>>]
      BY <1>1, <1>2, <2>2
    <3>2. Replied(u, e)' = Replied(u, e)
      BY <3>1 DEF Replied
    <3> QED BY <1>4, <2>2, <3>2
  <2> QED BY <2>1, <2>2
<1> QED BY <1>5, <1>6

\* A packet that is placed in memory.
Delivers(p, x) ==
  wire[p] # <<>> /\ x = Head(wire[p]) /\ wire' = [wire EXCEPT ![p] = Tail(@)]
LEMMA WireTail ==
  ASSUME Typed, NEW p \in Pairs, NEW x, Delivers(p, x),
         NEW u \in Threads, NEW e \in Servers \ {Home[u]}
  PROVE  /\ Asking(u, e) = Asking(u, e)'
              + (IF p = <<Home[u], e>> /\ x \in RequestPackets(u)
                   THEN 1 ELSE 0)
         /\ Replied(u, e) = Replied(u, e)'
              + (IF p = <<e, Home[u]>> /\ x \in ReplyPackets(u)
                   THEN 1 ELSE 0)
         /\ Asking(u, e)' \in Nat /\ Replied(u, e)' \in Nat
<1>1. /\ DOMAIN wire = Pairs /\ wire[p] \in Seq(Packets(p))
      /\ <<Home[u], e>> \in Pairs /\ <<e, Home[u]>> \in Pairs
  BY PairOf DEF Typed
<1>2. \A q \in Pairs : wire'[q] = IF q = p THEN Tail(wire[p]) ELSE wire[q]
  BY <1>1 DEF Delivers
<1>3. \A M : Matches(wire[p], M)
               = Matches(Tail(wire[p]), M) + (IF x \in M THEN 1 ELSE 0)
  BY <1>1, MatchesTail DEF Delivers
<1>4. Asking(u, e) \in Nat /\ Replied(u, e) \in Nat
  BY Counts
<1>5. Asking(u, e) = Asking(u, e)'
        + (IF p = <<Home[u], e>> /\ x \in RequestPackets(u)
             THEN 1 ELSE 0)
  <2>1. CASE p = <<Home[u], e>>
    BY <1>1, <1>2, <1>3, <2>1 DEF Asking
  <2>2. CASE p # <<Home[u], e>>
    <3>1. wire'[<<Home[u], e>>] = wire[<<Home[u], e>>]
      BY <1>1, <1>2, <2>2
    <3>2. Asking(u, e)' = Asking(u, e)
      BY <3>1 DEF Asking
    <3> QED BY <1>4, <2>2, <3>2
  <2> QED BY <2>1, <2>2
<1>6. Replied(u, e) = Replied(u, e)'
        + (IF p = <<e, Home[u]>> /\ x \in ReplyPackets(u)
             THEN 1 ELSE 0)
  <2>1. CASE p = <<e, Home[u]>>
    BY <1>1, <1>2, <1>3, <2>1 DEF Replied
  <2>2. CASE p # <<e, Home[u]>>
    <3>1. wire'[<<e, Home[u]>>] = wire[<<e, Home[u]>>]
      BY <1>1, <1>2, <2>2
    <3>2. Replied(u, e)' = Replied(u, e)
      BY <3>1 DEF Replied
    <3> QED BY <1>4, <2>2, <3>2
  <2> QED BY <2>1, <2>2
<1>7. Asking(u, e)' \in Nat /\ Replied(u, e)' \in Nat
  <2>1. Tail(wire[p]) \in Seq(Packets(p))
    BY <1>1 DEF Delivers
  <2>2. \A q \in Pairs : wire'[q] \in Seq(Packets(q))
    <3>1. \A q \in Pairs : wire[q] \in Seq(Packets(q))
      BY DEF Typed
    <3> QED BY <1>2, <2>1, <3>1
  <2>3. /\ wire'[<<Home[u], e>>] \in Seq(Packets(<<Home[u], e>>))
        /\ wire'[<<e, Home[u]>>] \in Seq(Packets(<<e, Home[u]>>))
    BY <1>1, <2>2
  <2>4. /\ Matches(wire'[<<Home[u], e>>], RequestPackets(u)) \in Nat
        /\ Matches(wire'[<<e, Home[u]>>], ReplyPackets(u)) \in Nat
    BY <2>3, MatchesType
  <2> QED BY <2>4 DEF Asking, Replied
<1> QED BY <1>5, <1>6, <1>7

\* A request that is reported to the worker, and one that the worker takes.
Reports(d, r) == cq' = [cq EXCEPT ![d] = Append(@, r)]
LEMMA CqAppend ==
  ASSUME Typed, NEW t \in Threads, NEW d \in Servers \ {Home[t]},
         Reports(d, Row(t)),
         NEW u \in Threads, NEW e \in Servers \ {Home[u]}
  PROVE  Arrived(u, e)' = Arrived(u, e) + (IF u = t /\ e = d THEN 1 ELSE 0)
<1>1. DOMAIN cq = Servers /\ cq[d] \in Seq(Callers(d)) /\ Row(t) \in Callers(d)
  BY DEF Typed, Callers
<1>2. \A v \in Servers : cq'[v] = IF v = d THEN Append(cq[d], Row(t)) ELSE cq[v]
  BY <1>1 DEF Reports
<1>3. Mentions(Append(cq[d], Row(t)), Row(u))
        = Mentions(cq[d], Row(u)) + (IF Row(t) = Row(u) THEN 1 ELSE 0)
  BY <1>1, MentionsAppend DEF Reports
<1>4. Arrived(u, e) \in Nat
  BY Counts
<1>5. Row(t) = Row(u) <=> u = t
  BY Apart
<1> QED BY <1>2, <1>3, <1>4, <1>5 DEF Arrived

Fetches(d, r) ==
  cq[d] # <<>> /\ r = Head(cq[d]) /\ cq' = [cq EXCEPT ![d] = Tail(@)]
LEMMA CqTail ==
  ASSUME Typed, NEW t \in Threads, NEW d \in Servers \ {Home[t]},
         Fetches(d, Row(t)),
         NEW u \in Threads, NEW e \in Servers \ {Home[u]}
  PROVE  /\ Arrived(u, e) = Arrived(u, e)' + (IF u = t /\ e = d THEN 1 ELSE 0)
         /\ Arrived(u, e)' \in Nat
<1>1. DOMAIN cq = Servers /\ cq[d] \in Seq(Callers(d))
  BY DEF Typed
<1>2. \A v \in Servers : cq'[v] = IF v = d THEN Tail(cq[d]) ELSE cq[v]
  BY <1>1 DEF Fetches
<1>3. Mentions(cq[d], Row(u))
        = Mentions(Tail(cq[d]), Row(u)) + (IF Row(t) = Row(u) THEN 1 ELSE 0)
  BY <1>1, MentionsTail DEF Fetches
<1>4. Arrived(u, e) \in Nat
  BY Counts
<1>5. Row(t) = Row(u) <=> u = t
  BY Apart
<1>6. Arrived(u, e)' \in Nat
  <2>1. Tail(cq[d]) \in Seq(Callers(d)) /\ cq[e] \in Seq(Callers(e))
    BY <1>1 DEF Typed, Fetches
  <2> QED BY <1>2, <2>1, MentionsType DEF Arrived
<1> QED BY <1>2, <1>3, <1>4, <1>5, <1>6 DEF Arrived

-----------------------------------------------------------------------------
(***************************************************************************)
(* What a step leaves alone.                                               *)
(***************************************************************************)

\* The packets on a wire that grows at its end or loses its beginning.
LEMMA CarryFacts ==
  ASSUME NEW S, NEW w \in Seq(S), NEW M, NEW c
  PROVE  /\ Matches(w, M) = 0 => Carry(w, M, c)
         /\ \A x \in S : Carry(w, M, c) /\ (x \in M => x.what = c)
                           => Carry(Append(w, x), M, c)
         /\ w # <<>> /\ Carry(w, M, c) =>
              Carry(Tail(w), M, c) /\ (Head(w) \in M => Head(w).what = c)
<1>1. Matches(w, M) = 0 => Carry(w, M, c)
  BY MatchesType DEF Carry, Range
<1>2. ASSUME NEW x \in S, Carry(w, M, c), x \in M => x.what = c
      PROVE  Carry(Append(w, x), M, c)
  <2>1. /\ DOMAIN Append(w, x) = 1..(Len(w) + 1) /\ DOMAIN w = 1..Len(w)
        /\ Len(w) \in Nat /\ Append(w, x)[Len(w) + 1] = x
        /\ \A i \in 1..Len(w) : Append(w, x)[i] = w[i]
    OBVIOUS
  <2>2. \A i \in DOMAIN Append(w, x) : i \in DOMAIN w \/ i = Len(w) + 1
    BY <2>1
  <2> QED BY <1>2, <2>1, <2>2 DEF Carry, Range
<1>3. ASSUME w # <<>>, Carry(w, M, c)
      PROVE  Carry(Tail(w), M, c) /\ (Head(w) \in M => Head(w).what = c)
  <2>1. /\ DOMAIN Tail(w) = 1..(Len(w) - 1) /\ DOMAIN w = 1..Len(w)
        /\ Len(w) \in Nat \ {0} /\ Head(w) = w[1]
        /\ \A i \in 1..(Len(w) - 1) : Tail(w)[i] = w[i + 1]
    BY <1>3
  <2>2. 1 \in DOMAIN w /\ \A i \in DOMAIN Tail(w) : i + 1 \in DOMAIN w
    BY <2>1
  <2> QED BY <1>3, <2>1, <2>2 DEF Carry, Range
<1> QED BY <1>1, <1>2, <1>3

LEMMA CarryFirst ==
  ASSUME NEW S, NEW w \in Seq(S), NEW x \in S, NEW M, NEW c, Matches(w, M) = 0,
         x.what = c
  PROVE  Carry(Append(w, x), M, c)
<1>1. Carry(w, M, c)
  BY CarryFacts
<1> QED BY <1>1, CarryFacts

\* Of what is between u and e the step leaves as it is: what is posted, what is
\* on a wire, what has arrived, what the worker has.
StillPosted(u, e) == Asked(u, e)' = Asked(u, e) /\ Replying(u, e)' = Replying(u, e)
StillOnWire(u, e) ==
  /\ Asking(u, e)' = Asking(u, e) /\ Replied(u, e)' = Replied(u, e)
  /\ \A c : /\ Carry(wire[<<Home[u], e>>], RequestPackets(u), c)
                 => Carry(wire'[<<Home[u], e>>], RequestPackets(u), c)
            /\ Carry(wire[<<e, Home[u]>>], ReplyPackets(u), c)
                 => Carry(wire'[<<e, Home[u]>>], ReplyPackets(u), c)
StillArrived(u, e) == Arrived(u, e)' = Arrived(u, e)
StillServed(u, e) ==
  /\ Busy(u, e)' = Busy(u, e)
  /\ Busy(u, e) > 0 => wpc'[e] = wpc[e] /\ replyTask'[e] = replyTask[e]
Still(u, e) ==
  /\ StillPosted(u, e) /\ StillOnWire(u, e) /\ StillArrived(u, e)
  /\ StillServed(u, e)

LEMMA Steady ==
  ASSUME NEW u \in Threads, NEW e \in Servers
  PROVE  /\ sendq' = sendq => StillPosted(u, e)
         /\ wire' = wire => StillOnWire(u, e)
         /\ cq' = cq => StillArrived(u, e)
         /\ wpc' = wpc /\ serving' = serving /\ replyTask' = replyTask
              => StillServed(u, e)
<1>1. sendq' = sendq => StillPosted(u, e)
  BY DEF StillPosted, Asked, Replying
<1>2. wire' = wire => StillOnWire(u, e)
  BY DEF StillOnWire, Asking, Replied
<1>3. cq' = cq => StillArrived(u, e)
  BY DEF StillArrived, Arrived
<1>4. wpc' = wpc /\ serving' = serving /\ replyTask' = replyTask
        => StillServed(u, e)
  BY DEF StillServed, Busy
<1> QED BY <1>1, <1>2, <1>3, <1>4

SameCall(u) ==
  /\ pc'[u] = pc[u] /\ dest'[u] = dest[u] /\ task'[u] = task[u]
  /\ answer'[u] = answer[u]
SameAnswered(u) == executed'[Row(u)] = executed[Row(u)]
\* The cells of the call u is in.
SameCells(u) ==
  pc[u] # "idle" =>
    \A d \in Servers \ {Home[u]} : d = dest[u] =>
      /\ Here(u)' = Here(u) /\ There(u, d)' = There(u, d)
      /\ Prepared(u, d)' = Prepared(u, d)

LEMMA StillLoad ==
  ASSUME NEW u \in Threads, NEW e \in Servers, Still(u, e)
  PROVE  Load(u, e)' = Load(u, e)
BY DEF Still, StillPosted, StillOnWire, StillArrived, StillServed, Load

LEMMA StillCarried ==
  ASSUME NEW u \in Threads, NEW e \in Servers \ {Home[u]}, Still(u, e), SameCall(u),
         SameAnswered(u), SameCells(u), Carried(u, e), pc[u] # "idle", e = dest[u]
  PROVE  Carried(u, e)'
<1>2. There(u, e)' = There(u, e) /\ Prepared(u, e)' = Prepared(u, e)
  BY DEF SameCells
<1>3. pc'[u] = pc[u] /\ task'[u] = task[u]
  BY DEF SameCall
<1>4. pc'[u] = "post" \/ Asked(u, e)' > 0 => Prepared(u, e)' = Request(task'[u])
  BY <1>2, <1>3 DEF Carried, Still, StillPosted
<1>5. Replying(u, e)' > 0 => There(u, e)' = Response(task'[u])
  BY <1>2, <1>3 DEF Carried, Still, StillPosted
<1>6. /\ Asking(u, e)' > 0 =>
           Carry(wire'[<<Home[u], e>>], RequestPackets(u), Request(task'[u]))
      /\ Replied(u, e)' > 0 =>
           Carry(wire'[<<e, Home[u]>>], ReplyPackets(u), Response(task'[u]))
  BY <1>3 DEF Carried, Still, StillOnWire
<1>7. /\ Arrived(u, e)' > 0 \/ (Busy(u, e)' > 0 /\ wpc'[e] # "reply")
           => There(u, e)' = Request(task'[u])
      /\ Busy(u, e)' > 0 /\ wpc'[e] # "build" => replyTask'[e] = task'[u]
  BY <1>2, <1>3 DEF Carried, Still, StillArrived, StillServed
<1>8. /\ (pc'[u] = "post" \/ Asked(u, e)' > 0 \/ Asking(u, e)' > 0
            \/ Arrived(u, e)' > 0 \/ Busy(u, e)' > 0) => ~ Answered(u)'
      /\ Replying(u, e)' > 0 \/ Replied(u, e)' > 0 => Answered(u)'
  <2>1. Answered(u)' <=> Answered(u)
    BY <1>3 DEF Answered, SameAnswered, Row
  <2> QED BY <1>3, <2>1 DEF Carried, Still, StillPosted, StillOnWire, StillArrived,
         StillServed
<1> QED BY <1>4, <1>5, <1>6, <1>7, <1>8 DEF Carried, Carry

\* What a step does to a thread: its part of the invariant is kept, and a thread
\* that is lost stays lost.
Kept(u) == Local(u)' /\ (Lost(u) => Lost(u)' /\ dest'[u] = dest[u])

\* A thread that the step is not about.
LEMMA Frame ==
  ASSUME Typed, NEW u \in Threads, Local(u), SameCall(u), SameAnswered(u),
         \A e \in Servers \ {Home[u]} : Still(u, e),
         Undisturbed(u)' => Undisturbed(u) /\ SameCells(u),
         Here(u)'.msg = "RESPONSE" => Here(u).msg = "RESPONSE"
  PROVE  Kept(u)
<1>1. \A e \in Servers \ {Home[u]} : Load(u, e)' = Load(u, e)
  BY StillLoad
<1>2. pc'[u] = pc[u] /\ dest'[u] = dest[u] /\ task'[u] = task[u]
      /\ answer'[u] = answer[u]
  BY DEF SameCall
<1>3. Waiting(u)' <=> Waiting(u)
  BY <1>1, <1>2 DEF Waiting
<1>4. ASSUME Undisturbed(u)' PROVE Own(u)'
  <2>1. Own(u) /\ SameCells(u)
    BY <1>4 DEF Local
  <2>2. pc[u] # "idle" => Here(u)' = Here(u)
    BY <2>1 DEF Typed, Local, SameCells
  <2>3. \A d \in Servers \ {Home[u]} :
          pc[u] # "idle" /\ d = dest[u] /\ Carried(u, d) => Carried(u, d)'
    BY <2>1, StillCarried
  <2>7. pc'[u] = "idle" => answer'[u] = Response(task'[u])
    BY <1>2, <2>1 DEF Own
  <2>4. Waiting(u) => pc[u] # "idle"
    BY DEF Waiting
  <2>5. Waiting(u)' => /\ Here(u)'.msg = "INVALID"
                       /\ \A d \in Servers \ {Home[u]} :
                            d = dest'[u] => Carried(u, d)'
    BY <1>2, <1>3, <2>1, <2>2, <2>3, <2>4 DEF Own
  <2>6. pc'[u] \in {"spin", "copy"} /\ ~ Waiting(u)'
          => Here(u)' = Response(task'[u])
    BY <1>2, <1>3, <2>1, <2>2 DEF Own
  <2>8. ~ Waiting(u)' => Answered(u)'
    BY <1>2, <1>3, <2>1 DEF Own, Answered, SameAnswered, Row
  <2> QED BY <2>5, <2>6, <2>7, <2>8 DEF Own
<1>5. \A d \in Servers \ {Home[u]} :
        Load(u, d)' <= IF pc'[u] = "spin" /\ dest'[u] = d THEN 1 ELSE 0
  BY <1>1, <1>2 DEF Local
<1>6. /\ pc'[u] # "idle" => dest'[u] # Home[u]
      /\ Waiting(u)' => Here(u)'.msg # "RESPONSE"
  BY <1>2, <1>3 DEF Local
<1>7. Local(u)'
  BY <1>4, <1>5, <1>6 DEF Local
<1>8. Lost(u) => Lost(u)'
  BY <1>2, <1>3 DEF Lost
<1> QED BY <1>2, <1>7, <1>8 DEF Kept

-----------------------------------------------------------------------------
(***************************************************************************)
(* The thread whose call a step moves.                                     *)
(***************************************************************************)

\* A call that is under way is the only thing that is under way for its thread.
LEMMA Alone ==
  ASSUME Typed, NEW t \in Threads, NEW d \in Servers \ {Home[t]}, Local(t),
         Load(t, d) > 0
  PROVE  /\ pc[t] = "spin" /\ dest[t] = d /\ Load(t, d) = 1 /\ Waiting(t)
         /\ Here(t).msg # "RESPONSE" /\ ~ Lost(t)
         /\ Undisturbed(t) => Here(t).msg = "INVALID" /\ Carried(t, d)
         /\ \A e \in Servers \ {Home[t]} : e # d => Load(t, e) = 0
<1>1. /\ Load(t, d) <= IF pc[t] = "spin" /\ dest[t] = d THEN 1 ELSE 0
      /\ Load(t, d) \in Nat
  BY Counts DEF Local
<1>2. pc[t] = "spin" /\ dest[t] = d /\ Load(t, d) = 1
  BY <1>1
<1>3. Waiting(t)
  BY <1>2 DEF Waiting
<1>4. ASSUME NEW e \in Servers \ {Home[t]}, e # d PROVE Load(t, e) = 0
  <2>1. /\ Load(t, e) <= IF pc[t] = "spin" /\ dest[t] = e THEN 1 ELSE 0
        /\ Load(t, e) \in Nat
    BY Counts DEF Local
  <2> QED BY <1>2, <1>4, <2>1
<1>5. Here(t).msg # "RESPONSE" /\ ~ Lost(t)
  BY <1>3 DEF Local, Lost
<1>6. Undisturbed(t) => Here(t).msg = "INVALID" /\ Carried(t, d)
  BY <1>2, <1>3 DEF Local, Own
<1> QED BY <1>2, <1>3, <1>4, <1>5, <1>6

\* The counts of what is under way when one thing is.
LEMMA OneOfSix ==
  ASSUME NEW a \in Nat, NEW b \in Nat, NEW c \in Nat, NEW x \in Nat,
         NEW y \in Nat, NEW z \in Nat, a + b + c + x + y + z = 1
  PROVE  /\ a > 0 => a = 1 /\ b = 0 /\ c = 0 /\ x = 0 /\ y = 0 /\ z = 0
         /\ b > 0 => a = 0 /\ b = 1 /\ c = 0 /\ x = 0 /\ y = 0 /\ z = 0
         /\ c > 0 => a = 0 /\ b = 0 /\ c = 1 /\ x = 0 /\ y = 0 /\ z = 0
         /\ x > 0 => a = 0 /\ b = 0 /\ c = 0 /\ x = 1 /\ y = 0 /\ z = 0
         /\ y > 0 => a = 0 /\ b = 0 /\ c = 0 /\ x = 0 /\ y = 1 /\ z = 0
         /\ z > 0 => a = 0 /\ b = 0 /\ c = 0 /\ x = 0 /\ y = 0 /\ z = 1
BY SMT

\* The six counts of a call.
At(t, d, a, b, c, x, y, z) ==
  /\ Asked(t, d) = a /\ Asking(t, d) = b /\ Arrived(t, d) = c
  /\ Busy(t, d) = x /\ Replying(t, d) = y /\ Replied(t, d) = z

LEMMA OnlyOne ==
  ASSUME Typed, NEW t \in Threads, NEW d \in Servers \ {Home[t]}, Load(t, d) = 1
  PROVE  /\ Asked(t, d) > 0    => At(t, d, 1, 0, 0, 0, 0, 0)
         /\ Asking(t, d) > 0   => At(t, d, 0, 1, 0, 0, 0, 0)
         /\ Arrived(t, d) > 0  => At(t, d, 0, 0, 1, 0, 0, 0)
         /\ Busy(t, d) > 0     => At(t, d, 0, 0, 0, 1, 0, 0)
         /\ Replying(t, d) > 0 => At(t, d, 0, 0, 0, 0, 1, 0)
         /\ Replied(t, d) > 0  => At(t, d, 0, 0, 0, 0, 0, 1)
<1>1. /\ Asked(t, d) \in Nat /\ Asking(t, d) \in Nat /\ Arrived(t, d) \in Nat
      /\ Busy(t, d) \in Nat /\ Replying(t, d) \in Nat /\ Replied(t, d) \in Nat
  BY Counts
<1>2. Asked(t, d) + Asking(t, d) + Arrived(t, d) + Busy(t, d)
        + Replying(t, d) + Replied(t, d) = 1
  BY DEF Load
<1>3. PICK a \in Nat, b \in Nat, c \in Nat, x \in Nat, y \in Nat, z \in Nat :
        At(t, d, a, b, c, x, y, z)
  BY <1>1 DEF At
<1>4. a + b + c + x + y + z = 1
  BY <1>2, <1>3 DEF At
<1>5. /\ a > 0 => a = 1 /\ b = 0 /\ c = 0 /\ x = 0 /\ y = 0 /\ z = 0
      /\ b > 0 => a = 0 /\ b = 1 /\ c = 0 /\ x = 0 /\ y = 0 /\ z = 0
      /\ c > 0 => a = 0 /\ b = 0 /\ c = 1 /\ x = 0 /\ y = 0 /\ z = 0
      /\ x > 0 => a = 0 /\ b = 0 /\ c = 0 /\ x = 1 /\ y = 0 /\ z = 0
      /\ y > 0 => a = 0 /\ b = 0 /\ c = 0 /\ x = 0 /\ y = 1 /\ z = 0
      /\ z > 0 => a = 0 /\ b = 0 /\ c = 0 /\ x = 0 /\ y = 0 /\ z = 1
  BY <1>4, OneOfSix
<1> QED BY <1>3, <1>5 DEF At

LEMMA NoLoad ==
  ASSUME Typed, NEW t \in Threads, NEW d \in Servers \ {Home[t]}, Load(t, d) = 0
  PROVE  At(t, d, 0, 0, 0, 0, 0, 0)
<1>1. /\ Asked(t, d) \in Nat /\ Asking(t, d) \in Nat /\ Arrived(t, d) \in Nat
      /\ Busy(t, d) \in Nat /\ Replying(t, d) \in Nat /\ Replied(t, d) \in Nat
  BY Counts
<1>2. PICK a \in Nat, b \in Nat, c \in Nat, x \in Nat, y \in Nat, z \in Nat :
        At(t, d, a, b, c, x, y, z)
  BY <1>1 DEF At
<1>3. a + b + c + x + y + z = 0
  BY <1>2 DEF Load, At
<1>4. a = 0 /\ b = 0 /\ c = 0 /\ x = 0 /\ y = 0 /\ z = 0
  BY <1>3
<1> QED BY <1>2, <1>4

\* Something of a call is under way: then the call is.
LEMMA SomeLoad ==
  ASSUME Typed, NEW t \in Threads, NEW d \in Servers \ {Home[t]},
         \/ Asked(t, d) > 0 \/ Asking(t, d) > 0 \/ Arrived(t, d) > 0
         \/ Busy(t, d) > 0 \/ Replying(t, d) > 0 \/ Replied(t, d) > 0
  PROVE  Load(t, d) > 0
<1>1. /\ Asked(t, d) \in Nat /\ Asking(t, d) \in Nat /\ Arrived(t, d) \in Nat
      /\ Busy(t, d) \in Nat /\ Replying(t, d) \in Nat /\ Replied(t, d) \in Nat
  BY Counts
<1> QED BY <1>1 DEF Load

\* A call, or its answer, is carried one step further.
LEMMA Further ==
  ASSUME Typed, NEW t \in Threads, NEW d \in Servers \ {Home[t]}, Local(t),
         Load(t, d) > 0, Load(t, d)' = 1, SameCall(t), Here(t)' = Here(t),
         \A e \in Servers \ {Home[t]} : e # d => Still(t, e),
         Undisturbed(t)' => Undisturbed(t),
         Carried(t, d) => Carried(t, d)'
  PROVE  Kept(t)
<1>1. /\ pc[t] = "spin" /\ dest[t] = d /\ Waiting(t) /\ ~ Lost(t)
      /\ Here(t).msg # "RESPONSE"
      /\ Undisturbed(t) => Here(t).msg = "INVALID" /\ Carried(t, d)
      /\ \A e \in Servers \ {Home[t]} : e # d => Load(t, e) = 0
  BY Alone
<1>2. pc'[t] = "spin" /\ dest'[t] = d
  BY <1>1 DEF SameCall
<1>3. \A e \in Servers \ {Home[t]} : e # d => Load(t, e)' = 0
  BY <1>1, StillLoad
<1>4. Waiting(t)'
  BY <1>2 DEF Waiting
<1>5. \A e \in Servers \ {Home[t]} :
        Load(t, e)' <= IF pc'[t] = "spin" /\ dest'[t] = e THEN 1 ELSE 0
  BY <1>2, <1>3
<1>6. Undisturbed(t)' => Own(t)'
  BY <1>1, <1>2, <1>4 DEF Own
<1>7. Local(t)'
  BY <1>1, <1>2, <1>5, <1>6 DEF Local
<1> QED BY <1>1, <1>7 DEF Kept

\* What was under way arrives, or is given up.
LEMMA Ended ==
  ASSUME Typed, NEW t \in Threads, NEW d \in Servers \ {Home[t]}, Local(t),
         Load(t, d) > 0, Load(t, d)' = 0, SameCall(t),
         \A e \in Servers \ {Home[t]} : e # d => Still(t, e),
         Undisturbed(t)' => Undisturbed(t),
         Undisturbed(t) /\ Carried(t, d) =>
           Here(t)' = Response(task[t]) /\ Answered(t)'
  PROVE  Kept(t) /\ (Here(t)' = Here(t) => Lost(t)' /\ ~ Lost(t) /\ dest'[t] = d)
<1>1. /\ pc[t] = "spin" /\ dest[t] = d /\ Waiting(t) /\ ~ Lost(t)
      /\ Here(t).msg # "RESPONSE"
      /\ Undisturbed(t) => Here(t).msg = "INVALID" /\ Carried(t, d)
      /\ \A e \in Servers \ {Home[t]} : e # d => Load(t, e) = 0
  BY Alone
<1>2. pc'[t] = "spin" /\ dest'[t] = d /\ task'[t] = task[t]
  BY <1>1 DEF SameCall
<1>3. \A e \in Servers \ {Home[t]} : Load(t, e)' = 0
  BY <1>1, StillLoad
<1>4. ~ Waiting(t)'
  BY <1>2, <1>3 DEF Waiting
<1>5. \A e \in Servers \ {Home[t]} :
        Load(t, e)' <= IF pc'[t] = "spin" /\ dest'[t] = e THEN 1 ELSE 0
  BY <1>3
<1>6. Undisturbed(t)' => Own(t)'
  BY <1>1, <1>2, <1>4 DEF Own
<1>7. Local(t)'
  BY <1>1, <1>2, <1>4, <1>5, <1>6 DEF Local
<1> QED BY <1>1, <1>2, <1>4, <1>7 DEF Kept, Lost

-----------------------------------------------------------------------------
(***************************************************************************)
(* A message moves: what that changes for its thread, and that it changes  *)
(* nothing for the others.                                                 *)
(***************************************************************************)

\* A request is posted, or read by the adapter.
LEMMA RequestPosted ==
  ASSUME Typed, NEW t \in Threads, NEW d \in Servers \ {Home[t]}, NEW p, NEW w,
         p = <<Home[t], d>>, w = RequestWrite(t, d),
         Posts(p, w)
  PROVE  /\ Asked(t, d)' = Asked(t, d) + 1 /\ Replying(t, d)' = Replying(t, d)
         /\ Asked(t, d)' \in Nat
         /\ \A u \in Threads : \A e \in Servers \ {Home[u]} :
              <<u, e>> # <<t, d>> => StillPosted(u, e)
<1>1. p \in Pairs /\ w \in Writes(p)
  BY PairOf DEF Writes, ThreadsOf
<1>2. ASSUME NEW u \in Threads, NEW e \in Servers \ {Home[u]}
      PROVE  /\ p = <<Home[u], e>> /\ w = RequestWrite(u, e)
                  <=> <<u, e>> = <<t, d>>
             /\ p = <<e, Home[u]>> /\ w = ReplyWrite(u)
                  <=> FALSE
  BY WriteOf
<1>3. ASSUME NEW u \in Threads, NEW e \in Servers \ {Home[u]}
      PROVE  /\ Asked(u, e)' \in Nat /\ Asked(u, e) \in Nat
             /\ Replying(u, e)' \in Nat /\ Replying(u, e) \in Nat
             /\ Asked(u, e)' = Asked(u, e)
                  + (IF p = <<Home[u], e>> /\ w = RequestWrite(u, e)
                       THEN 1 ELSE 0)
             /\ Replying(u, e)' = Replying(u, e)
                  + (IF p = <<e, Home[u]>> /\ w = ReplyWrite(u) THEN 1 ELSE 0)
  <2>1. Asked(u, e) \in Nat /\ Replying(u, e) \in Nat
    BY Counts
  <2> QED BY <1>1, <2>1, SendAppend
<1>4. ASSUME NEW u \in Threads, NEW e \in Servers \ {Home[u]}, <<u, e>> # <<t, d>>
      PROVE  StillPosted(u, e)
  <2>1. Asked(u, e)' = Asked(u, e) + 0 /\ Replying(u, e)' = Replying(u, e) + 0
    BY <1>2, <1>3, <1>4
  <2> QED BY <1>3, <2>1 DEF StillPosted
<1>5. /\ Asked(t, d)' = Asked(t, d) + 1 /\ Replying(t, d)' = Replying(t, d)
      /\ Asked(t, d)' \in Nat
  BY <1>2, <1>3
<1> QED BY <1>4, <1>5

LEMMA RequestRead ==
  ASSUME Typed, NEW t \in Threads, NEW d \in Servers \ {Home[t]}, NEW p, NEW w,
         p = <<Home[t], d>>, w = RequestWrite(t, d),
         Reads(p, w)
  PROVE  /\ Asked(t, d) = Asked(t, d)' + 1 /\ Replying(t, d)' = Replying(t, d)
         /\ Asked(t, d)' \in Nat
         /\ \A u \in Threads : \A e \in Servers \ {Home[u]} :
              <<u, e>> # <<t, d>> => StillPosted(u, e)
<1>1. p \in Pairs /\ w \in Writes(p)
  BY PairOf DEF Writes, ThreadsOf
<1>2. ASSUME NEW u \in Threads, NEW e \in Servers \ {Home[u]}
      PROVE  /\ p = <<Home[u], e>> /\ w = RequestWrite(u, e)
                  <=> <<u, e>> = <<t, d>>
             /\ p = <<e, Home[u]>> /\ w = ReplyWrite(u)
                  <=> FALSE
  BY WriteOf
<1>3. ASSUME NEW u \in Threads, NEW e \in Servers \ {Home[u]}
      PROVE  /\ Asked(u, e) \in Nat /\ Asked(u, e)' \in Nat
             /\ Replying(u, e) \in Nat /\ Replying(u, e)' \in Nat
             /\ Asked(u, e) = Asked(u, e)'
                  + (IF p = <<Home[u], e>> /\ w = RequestWrite(u, e)
                       THEN 1 ELSE 0)
             /\ Replying(u, e) = Replying(u, e)'
                  + (IF p = <<e, Home[u]>> /\ w = ReplyWrite(u) THEN 1 ELSE 0)
  <2>1. Asked(u, e) \in Nat /\ Replying(u, e) \in Nat
    BY Counts
  <2> QED BY <1>1, <2>1, SendTail
<1>4. ASSUME NEW u \in Threads, NEW e \in Servers \ {Home[u]}, <<u, e>> # <<t, d>>
      PROVE  StillPosted(u, e)
  <2>1. Asked(u, e) = Asked(u, e)' + 0 /\ Replying(u, e) = Replying(u, e)' + 0
    BY <1>2, <1>3, <1>4
  <2> QED BY <1>3, <2>1 DEF StillPosted
<1>5. /\ Asked(t, d) = Asked(t, d)' + 1 /\ Replying(t, d)' = Replying(t, d)
      /\ Asked(t, d)' \in Nat
  BY <1>2, <1>3
<1> QED BY <1>4, <1>5

\* So is a reply.
LEMMA ReplyPosted ==
  ASSUME Typed, NEW t \in Threads, NEW d \in Servers \ {Home[t]}, NEW p, NEW w,
         p = <<d, Home[t]>>, w = ReplyWrite(t),
         Posts(p, w)
  PROVE  /\ Replying(t, d)' = Replying(t, d) + 1 /\ Asked(t, d)' = Asked(t, d)
         /\ Replying(t, d)' \in Nat
         /\ \A u \in Threads : \A e \in Servers \ {Home[u]} :
              <<u, e>> # <<t, d>> => StillPosted(u, e)
<1>1. p \in Pairs /\ w \in Writes(p)
  BY PairOf DEF Writes, ThreadsOf
<1>2. ASSUME NEW u \in Threads, NEW e \in Servers \ {Home[u]}
      PROVE  /\ p = <<Home[u], e>> /\ w = RequestWrite(u, e)
                  <=> FALSE
             /\ p = <<e, Home[u]>> /\ w = ReplyWrite(u)
                  <=> <<u, e>> = <<t, d>>
  BY WriteOf
<1>3. ASSUME NEW u \in Threads, NEW e \in Servers \ {Home[u]}
      PROVE  /\ Asked(u, e)' \in Nat /\ Asked(u, e) \in Nat
             /\ Replying(u, e)' \in Nat /\ Replying(u, e) \in Nat
             /\ Asked(u, e)' = Asked(u, e)
                  + (IF p = <<Home[u], e>> /\ w = RequestWrite(u, e)
                       THEN 1 ELSE 0)
             /\ Replying(u, e)' = Replying(u, e)
                  + (IF p = <<e, Home[u]>> /\ w = ReplyWrite(u) THEN 1 ELSE 0)
  <2>1. Asked(u, e) \in Nat /\ Replying(u, e) \in Nat
    BY Counts
  <2> QED BY <1>1, <2>1, SendAppend
<1>4. ASSUME NEW u \in Threads, NEW e \in Servers \ {Home[u]}, <<u, e>> # <<t, d>>
      PROVE  StillPosted(u, e)
  <2>1. Asked(u, e)' = Asked(u, e) + 0 /\ Replying(u, e)' = Replying(u, e) + 0
    BY <1>2, <1>3, <1>4
  <2> QED BY <1>3, <2>1 DEF StillPosted
<1>5. /\ Replying(t, d)' = Replying(t, d) + 1 /\ Asked(t, d)' = Asked(t, d)
      /\ Replying(t, d)' \in Nat
  BY <1>2, <1>3
<1> QED BY <1>4, <1>5

LEMMA ReplyRead ==
  ASSUME Typed, NEW t \in Threads, NEW d \in Servers \ {Home[t]}, NEW p, NEW w,
         p = <<d, Home[t]>>, w = ReplyWrite(t),
         Reads(p, w)
  PROVE  /\ Replying(t, d) = Replying(t, d)' + 1 /\ Asked(t, d)' = Asked(t, d)
         /\ Replying(t, d)' \in Nat
         /\ \A u \in Threads : \A e \in Servers \ {Home[u]} :
              <<u, e>> # <<t, d>> => StillPosted(u, e)
<1>1. p \in Pairs /\ w \in Writes(p)
  BY PairOf DEF Writes, ThreadsOf
<1>2. ASSUME NEW u \in Threads, NEW e \in Servers \ {Home[u]}
      PROVE  /\ p = <<Home[u], e>> /\ w = RequestWrite(u, e)
                  <=> FALSE
             /\ p = <<e, Home[u]>> /\ w = ReplyWrite(u)
                  <=> <<u, e>> = <<t, d>>
  BY WriteOf
<1>3. ASSUME NEW u \in Threads, NEW e \in Servers \ {Home[u]}
      PROVE  /\ Asked(u, e) \in Nat /\ Asked(u, e)' \in Nat
             /\ Replying(u, e) \in Nat /\ Replying(u, e)' \in Nat
             /\ Asked(u, e) = Asked(u, e)'
                  + (IF p = <<Home[u], e>> /\ w = RequestWrite(u, e)
                       THEN 1 ELSE 0)
             /\ Replying(u, e) = Replying(u, e)'
                  + (IF p = <<e, Home[u]>> /\ w = ReplyWrite(u) THEN 1 ELSE 0)
  <2>1. Asked(u, e) \in Nat /\ Replying(u, e) \in Nat
    BY Counts
  <2> QED BY <1>1, <2>1, SendTail
<1>4. ASSUME NEW u \in Threads, NEW e \in Servers \ {Home[u]}, <<u, e>> # <<t, d>>
      PROVE  StillPosted(u, e)
  <2>1. Asked(u, e) = Asked(u, e)' + 0 /\ Replying(u, e) = Replying(u, e)' + 0
    BY <1>2, <1>3, <1>4
  <2> QED BY <1>3, <2>1 DEF StillPosted
<1>5. /\ Replying(t, d) = Replying(t, d)' + 1 /\ Asked(t, d)' = Asked(t, d)
      /\ Replying(t, d)' \in Nat
  BY <1>2, <1>3
<1> QED BY <1>4, <1>5

\* A request leaves the adapter, or is placed.
LEMMA RequestSent ==
  ASSUME Typed, NEW t \in Threads, NEW d \in Servers \ {Home[t]},
         NEW p, p = <<Home[t], d>>, NEW x \in RequestPackets(t), x \in Packets(p),
         Sends(p, x)
  PROVE  /\ Asking(t, d)' = Asking(t, d) + 1 /\ Replied(t, d)' = Replied(t, d)
         /\ Asking(t, d)' \in Nat
         /\ \A u \in Threads : \A e \in Servers \ {Home[u]} :
              <<u, e>> # <<t, d>> => StillOnWire(u, e)
<1>1. p \in Pairs /\ wire[p] \in Seq(Packets(p)) /\ DOMAIN wire = Pairs
  BY PairOf DEF Typed
<1>2. ASSUME NEW u \in Threads, NEW e \in Servers \ {Home[u]}
      PROVE  /\ p = <<Home[u], e>> /\ x \in RequestPackets(u)
                  <=> <<u, e>> = <<t, d>>
             /\ p = <<e, Home[u]>> /\ x \in ReplyPackets(u)
                  <=> FALSE
  BY PacketOf
<1>3. ASSUME NEW u \in Threads, NEW e \in Servers \ {Home[u]}
      PROVE  /\ Asking(u, e)' \in Nat /\ Asking(u, e) \in Nat
             /\ Replied(u, e)' \in Nat /\ Replied(u, e) \in Nat
             /\ Asking(u, e)' = Asking(u, e)
                  + (IF p = <<Home[u], e>> /\ x \in RequestPackets(u)
                       THEN 1 ELSE 0)
             /\ Replied(u, e)' = Replied(u, e)
                  + (IF p = <<e, Home[u]>> /\ x \in ReplyPackets(u)
                       THEN 1 ELSE 0)
  <2>1. Asking(u, e) \in Nat /\ Replied(u, e) \in Nat
    BY Counts
  <2> QED BY <1>1, <2>1, WireAppend
<1>4. ASSUME NEW u \in Threads, NEW e \in Servers \ {Home[u]}, <<u, e>> # <<t, d>>
      PROVE  StillOnWire(u, e)
  <2>1. Asking(u, e)' = Asking(u, e) + 0 /\ Replied(u, e)' = Replied(u, e) + 0
    BY <1>2, <1>3, <1>4
  <2>2. \A q \in Pairs : wire'[q] = IF q = p THEN Append(wire[p], x) ELSE wire[q]
    BY <1>1 DEF Sends
  <2>3. ASSUME NEW q \in Pairs, NEW M, NEW c, q = p => x \notin M,
               Carry(wire[q], M, c)
        PROVE  Carry(wire'[q], M, c)
    <3>1. CASE q = p
      <4>1. Carry(Append(wire[p], x), M, c)
        BY <1>1, <2>3, <3>1, CarryFacts DEF Sends
      <4> QED BY <2>2, <3>1, <4>1
    <3>2. CASE q # p
      BY <2>2, <2>3, <3>2
    <3> QED BY <3>1, <3>2
  <2>4. ASSUME NEW c, Carry(wire[<<Home[u], e>>], RequestPackets(u), c)
        PROVE  Carry(wire'[<<Home[u], e>>], RequestPackets(u), c)
    <3>1. <<Home[u], e>> \in Pairs
      BY PairOf
    <3>2. <<Home[u], e>> = p => x \notin RequestPackets(u)
      BY <1>2, <1>4
    <3> QED BY <2>3, <2>4, <3>1, <3>2
  <2>5. ASSUME NEW c, Carry(wire[<<e, Home[u]>>], ReplyPackets(u), c)
        PROVE  Carry(wire'[<<e, Home[u]>>], ReplyPackets(u), c)
    <3>1. <<e, Home[u]>> \in Pairs
      BY PairOf
    <3>2. <<e, Home[u]>> = p => x \notin ReplyPackets(u)
      BY <1>2, <1>4
    <3> QED BY <2>3, <2>5, <3>1, <3>2
  <2>6. Asking(u, e)' = Asking(u, e) /\ Replied(u, e)' = Replied(u, e)
    BY <1>3, <2>1
  <2> QED BY <2>4, <2>5, <2>6 DEF StillOnWire
<1>5. /\ Asking(t, d)' = Asking(t, d) + 1 /\ Replied(t, d)' = Replied(t, d)
      /\ Asking(t, d)' \in Nat
  BY <1>2, <1>3
<1> QED BY <1>4, <1>5

LEMMA RequestPlaced ==
  ASSUME Typed, NEW t \in Threads, NEW d \in Servers \ {Home[t]},
         NEW p, p = <<Home[t], d>>, NEW x \in RequestPackets(t), Delivers(p, x)
  PROVE  /\ Asking(t, d) = Asking(t, d)' + 1 /\ Replied(t, d)' = Replied(t, d)
         /\ Asking(t, d)' \in Nat
         /\ \A u \in Threads : \A e \in Servers \ {Home[u]} :
              <<u, e>> # <<t, d>> => StillOnWire(u, e)
<1>1. p \in Pairs /\ wire[p] \in Seq(Packets(p)) /\ DOMAIN wire = Pairs
  BY PairOf DEF Typed
<1>2. ASSUME NEW u \in Threads, NEW e \in Servers \ {Home[u]}
      PROVE  /\ p = <<Home[u], e>> /\ x \in RequestPackets(u)
                  <=> <<u, e>> = <<t, d>>
             /\ p = <<e, Home[u]>> /\ x \in ReplyPackets(u)
                  <=> FALSE
  BY PacketOf
<1>3. ASSUME NEW u \in Threads, NEW e \in Servers \ {Home[u]}
      PROVE  /\ Asking(u, e) \in Nat /\ Asking(u, e)' \in Nat
             /\ Replied(u, e) \in Nat /\ Replied(u, e)' \in Nat
             /\ Asking(u, e) = Asking(u, e)'
                  + (IF p = <<Home[u], e>> /\ x \in RequestPackets(u)
                       THEN 1 ELSE 0)
             /\ Replied(u, e) = Replied(u, e)'
                  + (IF p = <<e, Home[u]>> /\ x \in ReplyPackets(u)
                       THEN 1 ELSE 0)
  <2>1. Asking(u, e) \in Nat /\ Replied(u, e) \in Nat
    BY Counts
  <2> QED BY <1>1, <2>1, WireTail
<1>4. ASSUME NEW u \in Threads, NEW e \in Servers \ {Home[u]}, <<u, e>> # <<t, d>>
      PROVE  StillOnWire(u, e)
  <2>1. Asking(u, e) = Asking(u, e)' + 0 /\ Replied(u, e) = Replied(u, e)' + 0
    BY <1>2, <1>3, <1>4
  <2>2. \A q \in Pairs : wire'[q] = IF q = p THEN Tail(wire[p]) ELSE wire[q]
    BY <1>1 DEF Delivers
  <2>3. ASSUME NEW q \in Pairs, NEW M, NEW c, q = p => x \notin M,
               Carry(wire[q], M, c)
        PROVE  Carry(wire'[q], M, c)
    <3>1. CASE q = p
      <4>1. Carry(Tail(wire[p]), M, c)
        BY <1>1, <2>3, <3>1, CarryFacts DEF Delivers
      <4> QED BY <2>2, <3>1, <4>1
    <3>2. CASE q # p
      BY <2>2, <2>3, <3>2
    <3> QED BY <3>1, <3>2
  <2>4. ASSUME NEW c, Carry(wire[<<Home[u], e>>], RequestPackets(u), c)
        PROVE  Carry(wire'[<<Home[u], e>>], RequestPackets(u), c)
    <3>1. <<Home[u], e>> \in Pairs
      BY PairOf
    <3>2. <<Home[u], e>> = p => x \notin RequestPackets(u)
      BY <1>2, <1>4
    <3> QED BY <2>3, <2>4, <3>1, <3>2
  <2>5. ASSUME NEW c, Carry(wire[<<e, Home[u]>>], ReplyPackets(u), c)
        PROVE  Carry(wire'[<<e, Home[u]>>], ReplyPackets(u), c)
    <3>1. <<e, Home[u]>> \in Pairs
      BY PairOf
    <3>2. <<e, Home[u]>> = p => x \notin ReplyPackets(u)
      BY <1>2, <1>4
    <3> QED BY <2>3, <2>5, <3>1, <3>2
  <2>6. Asking(u, e)' = Asking(u, e) /\ Replied(u, e)' = Replied(u, e)
    BY <1>3, <2>1
  <2> QED BY <2>4, <2>5, <2>6 DEF StillOnWire
<1>5. /\ Asking(t, d) = Asking(t, d)' + 1 /\ Replied(t, d)' = Replied(t, d)
      /\ Asking(t, d)' \in Nat
  BY <1>2, <1>3
<1> QED BY <1>4, <1>5

\* So does, or is, a reply.
LEMMA ReplySent ==
  ASSUME Typed, NEW t \in Threads, NEW d \in Servers \ {Home[t]},
         NEW p, p = <<d, Home[t]>>, NEW x \in ReplyPackets(t), x \in Packets(p),
         Sends(p, x)
  PROVE  /\ Replied(t, d)' = Replied(t, d) + 1 /\ Asking(t, d)' = Asking(t, d)
         /\ Replied(t, d)' \in Nat
         /\ \A u \in Threads : \A e \in Servers \ {Home[u]} :
              <<u, e>> # <<t, d>> => StillOnWire(u, e)
<1>1. p \in Pairs /\ wire[p] \in Seq(Packets(p)) /\ DOMAIN wire = Pairs
  BY PairOf DEF Typed
<1>2. ASSUME NEW u \in Threads, NEW e \in Servers \ {Home[u]}
      PROVE  /\ p = <<Home[u], e>> /\ x \in RequestPackets(u)
                  <=> FALSE
             /\ p = <<e, Home[u]>> /\ x \in ReplyPackets(u)
                  <=> <<u, e>> = <<t, d>>
  BY PacketOf
<1>3. ASSUME NEW u \in Threads, NEW e \in Servers \ {Home[u]}
      PROVE  /\ Asking(u, e)' \in Nat /\ Asking(u, e) \in Nat
             /\ Replied(u, e)' \in Nat /\ Replied(u, e) \in Nat
             /\ Asking(u, e)' = Asking(u, e)
                  + (IF p = <<Home[u], e>> /\ x \in RequestPackets(u)
                       THEN 1 ELSE 0)
             /\ Replied(u, e)' = Replied(u, e)
                  + (IF p = <<e, Home[u]>> /\ x \in ReplyPackets(u)
                       THEN 1 ELSE 0)
  <2>1. Asking(u, e) \in Nat /\ Replied(u, e) \in Nat
    BY Counts
  <2> QED BY <1>1, <2>1, WireAppend
<1>4. ASSUME NEW u \in Threads, NEW e \in Servers \ {Home[u]}, <<u, e>> # <<t, d>>
      PROVE  StillOnWire(u, e)
  <2>1. Asking(u, e)' = Asking(u, e) + 0 /\ Replied(u, e)' = Replied(u, e) + 0
    BY <1>2, <1>3, <1>4
  <2>2. \A q \in Pairs : wire'[q] = IF q = p THEN Append(wire[p], x) ELSE wire[q]
    BY <1>1 DEF Sends
  <2>3. ASSUME NEW q \in Pairs, NEW M, NEW c, q = p => x \notin M,
               Carry(wire[q], M, c)
        PROVE  Carry(wire'[q], M, c)
    <3>1. CASE q = p
      <4>1. Carry(Append(wire[p], x), M, c)
        BY <1>1, <2>3, <3>1, CarryFacts DEF Sends
      <4> QED BY <2>2, <3>1, <4>1
    <3>2. CASE q # p
      BY <2>2, <2>3, <3>2
    <3> QED BY <3>1, <3>2
  <2>4. ASSUME NEW c, Carry(wire[<<Home[u], e>>], RequestPackets(u), c)
        PROVE  Carry(wire'[<<Home[u], e>>], RequestPackets(u), c)
    <3>1. <<Home[u], e>> \in Pairs
      BY PairOf
    <3>2. <<Home[u], e>> = p => x \notin RequestPackets(u)
      BY <1>2, <1>4
    <3> QED BY <2>3, <2>4, <3>1, <3>2
  <2>5. ASSUME NEW c, Carry(wire[<<e, Home[u]>>], ReplyPackets(u), c)
        PROVE  Carry(wire'[<<e, Home[u]>>], ReplyPackets(u), c)
    <3>1. <<e, Home[u]>> \in Pairs
      BY PairOf
    <3>2. <<e, Home[u]>> = p => x \notin ReplyPackets(u)
      BY <1>2, <1>4
    <3> QED BY <2>3, <2>5, <3>1, <3>2
  <2>6. Asking(u, e)' = Asking(u, e) /\ Replied(u, e)' = Replied(u, e)
    BY <1>3, <2>1
  <2> QED BY <2>4, <2>5, <2>6 DEF StillOnWire
<1>5. /\ Replied(t, d)' = Replied(t, d) + 1 /\ Asking(t, d)' = Asking(t, d)
      /\ Replied(t, d)' \in Nat
  BY <1>2, <1>3
<1> QED BY <1>4, <1>5

LEMMA ReplyPlaced ==
  ASSUME Typed, NEW t \in Threads, NEW d \in Servers \ {Home[t]},
         NEW p, p = <<d, Home[t]>>, NEW x \in ReplyPackets(t), Delivers(p, x)
  PROVE  /\ Replied(t, d) = Replied(t, d)' + 1 /\ Asking(t, d)' = Asking(t, d)
         /\ Replied(t, d)' \in Nat
         /\ \A u \in Threads : \A e \in Servers \ {Home[u]} :
              <<u, e>> # <<t, d>> => StillOnWire(u, e)
<1>1. p \in Pairs /\ wire[p] \in Seq(Packets(p)) /\ DOMAIN wire = Pairs
  BY PairOf DEF Typed
<1>2. ASSUME NEW u \in Threads, NEW e \in Servers \ {Home[u]}
      PROVE  /\ p = <<Home[u], e>> /\ x \in RequestPackets(u)
                  <=> FALSE
             /\ p = <<e, Home[u]>> /\ x \in ReplyPackets(u)
                  <=> <<u, e>> = <<t, d>>
  BY PacketOf
<1>3. ASSUME NEW u \in Threads, NEW e \in Servers \ {Home[u]}
      PROVE  /\ Asking(u, e) \in Nat /\ Asking(u, e)' \in Nat
             /\ Replied(u, e) \in Nat /\ Replied(u, e)' \in Nat
             /\ Asking(u, e) = Asking(u, e)'
                  + (IF p = <<Home[u], e>> /\ x \in RequestPackets(u)
                       THEN 1 ELSE 0)
             /\ Replied(u, e) = Replied(u, e)'
                  + (IF p = <<e, Home[u]>> /\ x \in ReplyPackets(u)
                       THEN 1 ELSE 0)
  <2>1. Asking(u, e) \in Nat /\ Replied(u, e) \in Nat
    BY Counts
  <2> QED BY <1>1, <2>1, WireTail
<1>4. ASSUME NEW u \in Threads, NEW e \in Servers \ {Home[u]}, <<u, e>> # <<t, d>>
      PROVE  StillOnWire(u, e)
  <2>1. Asking(u, e) = Asking(u, e)' + 0 /\ Replied(u, e) = Replied(u, e)' + 0
    BY <1>2, <1>3, <1>4
  <2>2. \A q \in Pairs : wire'[q] = IF q = p THEN Tail(wire[p]) ELSE wire[q]
    BY <1>1 DEF Delivers
  <2>3. ASSUME NEW q \in Pairs, NEW M, NEW c, q = p => x \notin M,
               Carry(wire[q], M, c)
        PROVE  Carry(wire'[q], M, c)
    <3>1. CASE q = p
      <4>1. Carry(Tail(wire[p]), M, c)
        BY <1>1, <2>3, <3>1, CarryFacts DEF Delivers
      <4> QED BY <2>2, <3>1, <4>1
    <3>2. CASE q # p
      BY <2>2, <2>3, <3>2
    <3> QED BY <3>1, <3>2
  <2>4. ASSUME NEW c, Carry(wire[<<Home[u], e>>], RequestPackets(u), c)
        PROVE  Carry(wire'[<<Home[u], e>>], RequestPackets(u), c)
    <3>1. <<Home[u], e>> \in Pairs
      BY PairOf
    <3>2. <<Home[u], e>> = p => x \notin RequestPackets(u)
      BY <1>2, <1>4
    <3> QED BY <2>3, <2>4, <3>1, <3>2
  <2>5. ASSUME NEW c, Carry(wire[<<e, Home[u]>>], ReplyPackets(u), c)
        PROVE  Carry(wire'[<<e, Home[u]>>], ReplyPackets(u), c)
    <3>1. <<e, Home[u]>> \in Pairs
      BY PairOf
    <3>2. <<e, Home[u]>> = p => x \notin ReplyPackets(u)
      BY <1>2, <1>4
    <3> QED BY <2>3, <2>5, <3>1, <3>2
  <2>6. Asking(u, e)' = Asking(u, e) /\ Replied(u, e)' = Replied(u, e)
    BY <1>3, <2>1
  <2> QED BY <2>4, <2>5, <2>6 DEF StillOnWire
<1>5. /\ Replied(t, d) = Replied(t, d)' + 1 /\ Asking(t, d)' = Asking(t, d)
      /\ Replied(t, d)' \in Nat
  BY <1>2, <1>3
<1> QED BY <1>4, <1>5

\* The cells that one write changes.
LEMMA StoreFacts ==
  ASSUME Typed, NEW s \in Servers, NEW a \in Cells, NEW c, Store(s, a, c)
  PROVE  /\ mem'[s][a] = c
         /\ \A r \in Servers, b \in Cells :
              r # s \/ b # a => mem'[r][b] = mem[r][b]
BY DEF Typed, Store

LEMMA MemSame ==
  ASSUME mem' = mem, NEW u \in Threads
  PROVE  SameCells(u) /\ Here(u)' = Here(u)
BY DEF SameCells, Here, There, Prepared

\* A write to a slot of the receive pool.
LEMMA SlotWritten ==
  ASSUME Typed, NEW t \in Threads, NEW s \in Servers, NEW c, Store(s, MySlot(t), c)
  PROVE  /\ mem'[s][MySlot(t)] = c
         /\ s # Home[t] => Here(t)' = Here(t)
         /\ \A u \in Threads : u # t => SameCells(u) /\ Here(u)' = Here(u)
<1>1. \A u \in Threads : Home[u] \in Servers
  BY RpcAssumption DEF RpcAssumption
<1>2. MySlot(t) \in Cells
  BY <1>1, Addresses
<1>3. /\ mem'[s][MySlot(t)] = c
      /\ \A r \in Servers, b \in Cells :
           r # s \/ b # MySlot(t) => mem'[r][b] = mem[r][b]
  BY <1>2, StoreFacts
<1>4. ASSUME NEW u \in Threads, u # t PROVE SameCells(u)
  <2>1. MySlot(u) \in Cells /\ MySlot(u) # MySlot(t)
    BY <1>1, <1>4, Addresses, Apart
  <2>2. ASSUME NEW r \in Servers
        PROVE  /\ ServerSendAddress(r, Slot[u]) \in Cells
               /\ ServerSendAddress(r, Slot[u]) # MySlot(t)
    BY Addresses, Pools
  <2>3. Here(u)' = Here(u)
    BY <1>1, <1>3, <2>1 DEF Here
  <2> QED BY <1>1, <1>3, <2>1, <2>2, <2>3 DEF SameCells, There, Prepared
<1>5. ASSUME NEW u \in Threads, u # t PROVE Here(u)' = Here(u)
  <2>1. MySlot(u) \in Cells /\ MySlot(u) # MySlot(t)
    BY <1>1, <1>5, Addresses, Apart
  <2> QED BY <1>1, <1>3, <2>1 DEF Here
<1>6. s # Home[t] => Here(t)' = Here(t)
  BY <1>1, <1>2, <1>3 DEF Here
<1> QED BY <1>3, <1>4, <1>5, <1>6

\* Where only the worker of d moves, and only with the request of t.
OnlyWorker(d) ==
  \A e \in Servers : e # d => /\ wpc'[e] = wpc[e] /\ serving'[e] = serving[e]
                              /\ replyTask'[e] = replyTask[e]
Handling == {"build", "classify", "reply"}

LEMMA WorkerMoves ==
  ASSUME NEW t \in Threads, NEW d \in Servers, OnlyWorker(d),
         wpc[d] = "poll" \/ serving[d] = Row(t), serving'[d] = Row(t)
  PROVE  /\ Busy(t, d) = IF wpc[d] \in Handling THEN 1 ELSE 0
         /\ Busy(t, d)' = IF wpc'[d] \in Handling THEN 1 ELSE 0
         /\ \A u \in Threads : \A e \in Servers \ {Home[u]} :
              <<u, e>> # <<t, d>> => StillServed(u, e)
<1>1. Busy(t, d) = IF wpc[d] \in Handling THEN 1 ELSE 0
  BY DEF Busy, Handling
<1>2. Busy(t, d)' = IF wpc'[d] \in Handling THEN 1 ELSE 0
  BY DEF Busy, Handling
<1>3. ASSUME NEW u \in Threads, NEW e \in Servers, e # d
      PROVE  StillServed(u, e)
  BY <1>3 DEF OnlyWorker, StillServed, Busy
<1>4. ASSUME NEW u \in Threads, u # t PROVE StillServed(u, d)
  <2>1. Row(u) # Row(t)
    BY <1>4, Apart
  <2>2. Busy(u, d) = 0 /\ Busy(u, d)' = 0
    BY <2>1 DEF Busy
  <2> QED BY <2>2 DEF StillServed
<1> QED BY <1>1, <1>2, <1>3, <1>4

\* The receives and the threads that are lost.
LEMMA HeldSteady ==
  ASSUME receives' = receives, cq' = cq, serving' = serving,
         \A d \in Servers : wpc'[d] = "poll" <=> wpc[d] = "poll",
         NEW p \in Pairs
  PROVE  Held(p)' = Held(p)
<1>1. PICK d \in Servers : p[2] = d
  BY DEF Pairs
<1> QED BY <1>1 DEF Held

LEMMA GoneKept ==
  ASSUME NEW p \in Pairs, \A u \in Threads : Kept(u)
  PROVE  /\ IsFiniteSet(Gone(p)) /\ IsFiniteSet(Gone(p)')
         /\ Gone(p) \subseteq Gone(p)'
         /\ Cardinality(Gone(p)) \in Nat /\ Cardinality(Gone(p)') \in Nat
         /\ Cardinality(Gone(p)) <= Cardinality(Gone(p)')
<1>1. IsFiniteSet(Threads)
  BY RpcAssumption DEF RpcAssumption
<1>2. Gone(p) \subseteq Threads /\ Gone(p)' \subseteq Threads
  BY DEF Gone, ThreadsOf
<1>3. IsFiniteSet(Gone(p)) /\ IsFiniteSet(Gone(p)')
  BY <1>1, <1>2, FS_Subset
<1>4. Gone(p) \subseteq Gone(p)'
  BY DEF Gone, ThreadsOf, Kept
<1>5. Cardinality(Gone(p)) \in Nat /\ Cardinality(Gone(p)') \in Nat
  BY <1>3, FS_CardinalityType
<1>6. Cardinality(Gone(p)) <= Cardinality(Gone(p)')
  BY <1>3, <1>4, FS_Subset
<1> QED BY <1>3, <1>4, <1>5, <1>6

LEMMA HeldType ==
  ASSUME Typed, NEW p \in Pairs
  PROVE  Held(p) \in Nat
<1>1. /\ receives[p] \in Nat /\ p[2] \in Servers
      /\ cq[p[2]] \in Seq(Callers(p[2]))
  BY DEF Typed, Pairs
<1>2. Matches(cq[p[2]], {p[1]} \X Offsets) \in Nat
  BY <1>1, MatchesType
<1> QED BY <1>1, <1>2 DEF Held

LEMMA AccountKept ==
  ASSUME Typed, NEW p \in Pairs, Account(p), \A u \in Threads : Kept(u),
         Held(p)' = Held(p)
  PROVE  Account(p)'
<1>1. PICK h \in Nat : Held(p) = h /\ Held(p)' = h
  BY HeldType
<1>2. PICK g \in Nat, k \in Nat :
        Cardinality(Gone(p)) = g /\ Cardinality(Gone(p)') = k /\ g <= k
  BY GoneKept
<1>3. h <= RecvDepth /\ RecvDepth <= h + g /\ RecvDepth \in Nat
  BY <1>1, <1>2, RpcAssumption DEF Account, RpcAssumption
<1>4. h <= RecvDepth /\ RecvDepth <= h + k
  BY <1>2, <1>3
<1>5. Cardinality(Gone(p))' = k
  BY <1>2
<1> QED BY <1>1, <1>4, <1>5 DEF Account

\* What a step must do.
Holds == (\A u \in Threads : Kept(u)) /\ \A p \in Pairs : Account(p)'

-----------------------------------------------------------------------------
(***************************************************************************)
(* The steps of a calling thread.                                          *)
(***************************************************************************)

LEMMA AllStill ==
  ASSUME UNCHANGED <<sendq, wire, cq, wpc, serving, replyTask>>
  PROVE  \A u \in Threads : \A e \in Servers \ {Home[u]} : Still(u, e)
BY Steady DEF Still

LEMMA NothingUnderWay ==
  ASSUME Typed, NEW t \in Threads, Local(t), pc[t] # "spin" \/ ~ Waiting(t)
  PROVE  \A e \in Servers \ {Home[t]} : Load(t, e) = 0
<1> SUFFICES ASSUME NEW e \in Servers \ {Home[t]} PROVE Load(t, e) = 0
  OBVIOUS
<1>1. Load(t, e) \in Nat
  BY Counts
<1>2. pc[t] # "spin" => Load(t, e) <= 0
  BY DEF Local
<1>3. pc[t] = "spin" => ~ (Load(t, e) > 0)
  BY DEF Waiting
<1> QED BY <1>1, <1>2, <1>3

LEMMA CallKeeps ==
  ASSUME IInv, NEW t \in Threads, NEW d \in Servers, Call(t, d)
  PROVE  Holds
<1>1. /\ Typed /\ Local(t) /\ \A u \in Threads : Local(u)
      /\ Home[t] \in Servers /\ d \in Servers /\ d # Home[t]
      /\ MySlot(t) \in Cells /\ ServerSendAddress(d, Slot[t]) \in Cells
      /\ MySlot(t) # ServerSendAddress(d, Slot[t])
  BY RpcAssumption, Addresses, Pools DEF IInv, Call, RpcAssumption
<1>2. /\ pc[t] = "idle" /\ pc' = [pc EXCEPT ![t] = "post"]
      /\ task' = [task EXCEPT ![t] = taskID[Home[t]]]
      /\ dest' = [dest EXCEPT ![t] = d]
      /\ UNCHANGED <<answer, sendq, wire, receives, cq, wpc, serving, replyTask>>
      /\ overwritten' = overwritten /\ executed' = executed
  BY DEF Call, GoTo, netVars, workerVars, clientVars
<1>3. /\ mem'[Home[t]][MySlot(t)].msg = "INVALID"
      /\ mem'[Home[t]][ServerSendAddress(d, Slot[t])] = Request(taskID[Home[t]])
      /\ \A r \in Servers, b \in Cells :
           r # Home[t] \/ (b # MySlot(t) /\ b # ServerSendAddress(d, Slot[t]))
             => mem'[r][b] = mem[r][b]
  <2>1. PICK s \in Servers, a \in Cells, c \in Cells,
              k \in {Request(taskID[Home[t]])} :
          /\ s = Home[t] /\ a = MySlot(t) /\ c = ServerSendAddress(d, Slot[t])
          /\ k = Request(taskID[Home[t]])
    BY <1>1
  <2>2. a # c
    BY <1>1, <2>1
  <2>3. mem' = [mem EXCEPT ![s][a].msg = "INVALID", ![s][c] = k]
    BY <2>1 DEF Call
  <2>4. mem \in [Servers -> [Cells -> Content]]
    BY <1>1 DEF Typed
  <2>5. mem'[s] = [mem[s] EXCEPT ![a].msg = "INVALID", ![c] = k]
    BY <2>3, <2>4
  <2>6. mem[s] \in [Cells -> Content] /\ mem[s][a] \in Content
    BY <2>4
  <2>7. mem'[s][a] = [mem[s][a] EXCEPT !.msg = "INVALID"] /\ mem'[s][c] = k
    BY <2>2, <2>5, <2>6
  <2>8. mem'[s][a].msg = "INVALID"
    BY <2>6, <2>7 DEF Content
  <2>9. \A r \in Servers, b \in Cells :
          r # s \/ (b # a /\ b # c) => mem'[r][b] = mem[r][b]
    BY <2>3, <2>4, <2>5
  <2> QED BY <2>1, <2>7, <2>8, <2>9
<1>4. \A u \in Threads : \A e \in Servers \ {Home[u]} : Still(u, e)
  BY <1>2, AllStill
<1>5. ASSUME NEW u \in Threads, u # t PROVE Kept(u)
  <2>1. Home[u] \in Servers
    BY RpcAssumption DEF RpcAssumption
  <2>2. /\ MySlot(u) \in Cells /\ MySlot(u) # MySlot(t)
        /\ MySlot(u) # ServerSendAddress(d, Slot[t])
    BY <1>5, Addresses, Apart, Pools
  <2>3. ASSUME NEW r \in Servers
        PROVE  /\ ServerSendAddress(r, Slot[u]) \in Cells
               /\ ServerSendAddress(r, Slot[u]) # MySlot(t)
               /\ Home[u] = Home[t] => ServerSendAddress(r, Slot[u])
                                         # ServerSendAddress(d, Slot[t])
    BY <1>5, Addresses, Apart, Pools
  <2>4. Here(u)' = Here(u)
    BY <1>3, <2>1, <2>2 DEF Here
  <2>5. SameCells(u)
    BY <1>3, <2>1, <2>2, <2>3, <2>4 DEF SameCells, There, Prepared
  <2>6. SameCall(u) /\ SameAnswered(u)
    BY <1>1, <1>2, <1>5 DEF SameCall, SameAnswered, Typed, Row
  <2>7. Undisturbed(u)' => Undisturbed(u)
    BY <1>2 DEF Undisturbed
  <2> QED BY <1>1, <1>4, <2>4, <2>5, <2>6, <2>7, Frame
<1>6. Kept(t)
  <2>1. /\ pc'[t] = "post" /\ task'[t] = taskID[Home[t]] /\ dest'[t] = d
    BY <1>1, <1>2 DEF Typed
  <2>2. \A e \in Servers \ {Home[t]} : Load(t, e)' = 0
    BY <1>1, <1>2, <1>4, NothingUnderWay, StillLoad
  <2>3. Here(t)'.msg = "INVALID"
    BY <1>3 DEF Here
  <2>4. ASSUME Undisturbed(t)' PROVE Carried(t, d)'
    <3>1. At(t, d, 0, 0, 0, 0, 0, 0)
      BY <1>1, <1>2, NothingUnderWay, NoLoad
    <3>2. /\ Asked(t, d)' = 0 /\ Asking(t, d)' = 0 /\ Arrived(t, d)' = 0
          /\ Busy(t, d)' = 0 /\ Replying(t, d)' = 0 /\ Replied(t, d)' = 0
      BY <1>1, <1>4, <3>1
         DEF Still, StillPosted, StillOnWire, StillArrived, StillServed, At
    <3>3. Prepared(t, d)' = Request(task'[t])
      BY <1>3, <2>1 DEF Prepared
    <3>4. ~ Answered(t)'
      <4>1. Answered(t)
        BY <1>1, <1>2, <2>4 DEF Local, Own, Waiting, Undisturbed
      <4>2. task[t] < taskID[Home[t]] /\ task[t] \in Nat /\ taskID[Home[t]] \in Nat
        BY <1>1 DEF IInv, Numbered, Typed
      <4> QED BY <1>2, <2>1, <4>1, <4>2 DEF Answered, Row
    <3> QED BY <3>2, <3>3, <3>4 DEF Carried
  <2>5. Undisturbed(t)' => Own(t)'
    BY <2>1, <2>3, <2>4 DEF Own, Waiting
  <2>6. Local(t)'
    BY <1>1, <2>1, <2>2, <2>3, <2>5 DEF Local
  <2> QED BY <1>2, <2>6 DEF Kept, Lost
<1>7. \A u \in Threads : Kept(u)
  BY <1>5, <1>6
<1>8. \A p \in Pairs : Held(p)' = Held(p)
  BY <1>2, HeldSteady
<1> QED BY <1>7, <1>8, AccountKept DEF IInv, Holds

LEMMA PostKeeps ==
  ASSUME IInv, NEW t \in Threads, Post(t)
  PROVE  Holds
<1>1. Typed /\ Local(t) /\ \A u \in Threads : Local(u)
  BY DEF IInv
<1>2. /\ pc[t] = "post" /\ pc' = [pc EXCEPT ![t] = "spin"]
      /\ UNCHANGED <<mem, dest, task, answer, wire, receives, cq, wpc, serving,
                     replyTask, overwritten, executed>>
  BY DEF Post, GoTo, workerVars, clientVars
<1>3. PICK d \in Servers \ {Home[t]} : dest[t] = d
  BY <1>1, <1>2 DEF Typed, Local
<1>4. PICK p, w : p = <<Home[t], d>> /\ w = RequestWrite(t, d) /\ Posts(p, w)
  BY <1>3 DEF Post, BatchWrite, RequestWrite, Row, Posts
<1>5. /\ Asked(t, d)' = Asked(t, d) + 1 /\ Replying(t, d)' = Replying(t, d)
      /\ \A u \in Threads : \A e \in Servers \ {Home[u]} :
           <<u, e>> # <<t, d>> => StillPosted(u, e)
  BY <1>1, <1>4, RequestPosted
<1>6. \A u \in Threads : \A e \in Servers \ {Home[u]} :
        /\ StillOnWire(u, e) /\ StillArrived(u, e) /\ StillServed(u, e)
        /\ <<u, e>> # <<t, d>> => Still(u, e)
  BY <1>2, <1>5, Steady DEF Still
<1>7. \A u \in Threads :
        /\ SameCells(u) /\ Here(u)' = Here(u)
        /\ Undisturbed(u)' => Undisturbed(u)
  BY <1>2, MemSame DEF Undisturbed
<1>8. ASSUME NEW u \in Threads, u # t PROVE Kept(u)
  <2>1. SameCall(u) /\ SameAnswered(u)
    BY <1>1, <1>2, <1>8 DEF SameCall, SameAnswered, Typed, Row
  <2>2. \A e \in Servers \ {Home[u]} : Still(u, e)
    BY <1>6, <1>8
  <2> QED BY <1>1, <1>7, <2>1, <2>2, Frame
<1>9. Kept(t)
  <2>1. pc'[t] = "spin" /\ dest'[t] = d /\ task'[t] = task[t]
    BY <1>1, <1>2, <1>3 DEF Typed
  <2>2. \A e \in Servers \ {Home[t]} : Load(t, e) = 0
    BY <1>1, <1>2, NothingUnderWay
  <2>3. \A e \in Servers \ {Home[t]} : e # d => Load(t, e)' = 0
    BY <1>6, <2>2, StillLoad
  <2>4. /\ Asked(t, d)' = 1 /\ Asking(t, d)' = 0 /\ Arrived(t, d)' = 0
        /\ Busy(t, d)' = 0 /\ Replying(t, d)' = 0 /\ Replied(t, d)' = 0
    <3>1. At(t, d, 0, 0, 0, 0, 0, 0)
      BY <1>1, <2>2, NoLoad
    <3>2. StillOnWire(t, d) /\ StillArrived(t, d) /\ StillServed(t, d)
      BY <1>6
    <3>3. /\ Asking(t, d)' = Asking(t, d) /\ Replied(t, d)' = Replied(t, d)
          /\ Arrived(t, d)' = Arrived(t, d) /\ Busy(t, d)' = Busy(t, d)
      BY <3>2 DEF StillOnWire, StillArrived, StillServed
    <3> QED BY <1>5, <3>1, <3>3 DEF At
  <2>5. Load(t, d)' = 1
    BY <2>4 DEF Load
  <2>6. Waiting(t) /\ Waiting(t)'
    BY <1>2, <2>1, <2>5 DEF Waiting
  <2>7. ASSUME Undisturbed(t)' PROVE Own(t)'
    <3>1. Here(t).msg = "INVALID" /\ Carried(t, d)
      BY <1>1, <1>3, <1>7, <2>6, <2>7 DEF Local, Own
    <3>2. Prepared(t, d)' = Request(task'[t])
      BY <1>2, <2>1, <3>1 DEF Carried, Prepared
    <3>3. ~ Answered(t)'
      <4>1. ~ Answered(t)
        BY <1>2, <3>1 DEF Carried
      <4> QED BY <1>2, <2>1, <4>1 DEF Answered, Row
    <3>4. Carried(t, d)'
      BY <2>1, <2>4, <3>2, <3>3 DEF Carried
    <3> QED BY <1>7, <2>1, <2>6, <3>1, <3>4 DEF Own
  <2>8. Here(t).msg # "RESPONSE"
    BY <1>1, <2>6 DEF Local
  <2>9. \A e \in Servers \ {Home[t]} :
          Load(t, e)' <= IF pc'[t] = "spin" /\ dest'[t] = e THEN 1 ELSE 0
    BY <2>1, <2>3, <2>5
  <2>10. Local(t)'
    BY <1>7, <2>1, <2>7, <2>8, <2>9 DEF Local
  <2> QED BY <1>2, <2>10 DEF Kept, Lost
<1>10. \A u \in Threads : Kept(u)
  BY <1>8, <1>9
<1>11. \A p1 \in Pairs : Held(p1)' = Held(p1)
  BY <1>2, HeldSteady
<1> QED BY <1>1, <1>10, <1>11, AccountKept DEF IInv, Holds

\* A step of a thread that has nothing under way and changes no cell.
LEMMA LocalStep ==
  ASSUME IInv, NEW t \in Threads, UNCHANGED <<mem, dest, task, overwritten, executed>>,
         UNCHANGED <<sendq, wire, receives, cq, wpc, serving, replyTask>>,
         \A u \in Threads : u # t => pc'[u] = pc[u] /\ answer'[u] = answer[u],
         ~ Waiting(t), ~ Lost(t), pc'[t] \in {"copy", "idle"}, pc[t] # "idle",
         Own(t) => Own(t)'
  PROVE  Holds
<1>1. Typed /\ Local(t) /\ \A u \in Threads : Local(u)
  BY DEF IInv
<1>2. \A u \in Threads : \A e \in Servers \ {Home[u]} : Still(u, e)
  BY AllStill
<1>3. \A u \in Threads :
        /\ SameCells(u) /\ Here(u)' = Here(u)
        /\ Undisturbed(u)' => Undisturbed(u)
  BY MemSame DEF Undisturbed
<1>4. ASSUME NEW u \in Threads, u # t PROVE Kept(u)
  <2>1. SameCall(u) /\ SameAnswered(u)
    BY <1>4 DEF SameCall, SameAnswered, Row
  <2> QED BY <1>1, <1>2, <1>3, <2>1, Frame
<1>5. Kept(t)
  <2>1. \A e \in Servers \ {Home[t]} : Load(t, e)' = 0
    BY <1>1, <1>2, NothingUnderWay, StillLoad
  <2>2. ~ Waiting(t)'
    BY DEF Waiting
  <2>3. Undisturbed(t)' => Own(t)'
    BY <1>1, <1>3 DEF Local
  <2>4. dest'[t] # Home[t]
    BY <1>1 DEF Local
  <2>5. Local(t)'
    BY <2>1, <2>2, <2>3, <2>4 DEF Local
  <2> QED BY <2>5 DEF Kept
<1>6. \A p \in Pairs : Held(p)' = Held(p)
  BY HeldSteady
<1> QED BY <1>1, <1>4, <1>5, <1>6, AccountKept DEF IInv, Holds

LEMMA SeeResponseKeeps ==
  ASSUME IInv, NEW t \in Threads, SeeResponse(t)
  PROVE  Holds
<1>1. Typed /\ Local(t)
  BY DEF IInv
<1>2. /\ pc[t] = "spin" /\ pc' = [pc EXCEPT ![t] = "copy"]
      /\ Here(t).msg = "RESPONSE"
      /\ UNCHANGED <<mem, dest, task, overwritten, executed>> /\ answer' = answer
      /\ UNCHANGED <<sendq, wire, receives, cq, wpc, serving, replyTask>>
  BY DEF SeeResponse, GoTo, Here, netVars, workerVars, clientVars
<1>3. ~ Waiting(t) /\ ~ Lost(t)
  BY <1>1, <1>2 DEF Local, Lost
<1>4. pc'[t] = "copy" /\ \A u \in Threads : u # t => pc'[u] = pc[u]
  BY <1>1, <1>2 DEF Typed
<1>5. Own(t) => Own(t)'
  <2>1. ~ Waiting(t)' /\ Here(t)' = Here(t) /\ (Answered(t)' <=> Answered(t))
    BY <1>2, <1>4 DEF Waiting, Here, Answered, Row
  <2> QED BY <1>2, <1>3, <1>4, <2>1 DEF Own
<1> QED BY <1>2, <1>3, <1>4, <1>5, LocalStep

LEMMA ReturnKeeps ==
  ASSUME IInv, NEW t \in Threads, Return(t)
  PROVE  Holds
<1>1. Typed /\ Local(t)
  BY DEF IInv
<1>2. /\ pc[t] = "copy" /\ pc' = [pc EXCEPT ![t] = "idle"]
      /\ answer' = [answer EXCEPT ![t] = Here(t)]
      /\ UNCHANGED <<mem, dest, task, overwritten, executed>>
      /\ UNCHANGED <<sendq, wire, receives, cq, wpc, serving, replyTask>>
  BY DEF Return, GoTo, Here, netVars, workerVars, clientVars
<1>3. ~ Waiting(t) /\ ~ Lost(t)
  BY <1>2 DEF Waiting, Lost
<1>4. /\ pc'[t] = "idle" /\ answer'[t] = Here(t)
      /\ \A u \in Threads : u # t => pc'[u] = pc[u] /\ answer'[u] = answer[u]
  BY <1>1, <1>2 DEF Typed
<1>5. Own(t) => Own(t)'
  <2>1. ~ Waiting(t)' /\ (Answered(t)' <=> Answered(t))
    BY <1>2, <1>4 DEF Waiting, Answered, Row
  <2> QED BY <1>2, <1>3, <1>4, <2>1 DEF Own
<1> QED BY <1>2, <1>3, <1>4, <1>5, LocalStep

-----------------------------------------------------------------------------
(***************************************************************************)
(* The steps that move one message.                                        *)
(***************************************************************************)

\* The call of t at d is moved, and no caller takes a step.
OneMove(t, d) ==
  /\ UNCHANGED <<pc, dest, task, answer, overwritten>>
  /\ \A u \in Threads : \A e \in Servers \ {Home[u]} :
       <<u, e>> # <<t, d>> => Still(u, e)
  /\ \A u \in Threads : u # t =>
       SameCells(u) /\ Here(u)' = Here(u) /\ SameAnswered(u)

LEMMA MoveKeeps ==
  ASSUME IInv, NEW t \in Threads, NEW d \in Servers \ {Home[t]}, OneMove(t, d),
         Load(t, d) > 0, Load(t, d)' = 1, Here(t)' = Here(t),
         Carried(t, d) => Carried(t, d)'
  PROVE  \A u \in Threads : Kept(u)
<1>1. Typed /\ \A u \in Threads : Local(u)
  BY DEF IInv
<1>2. \A u \in Threads : SameCall(u) /\ (Undisturbed(u)' => Undisturbed(u))
  BY DEF OneMove, SameCall, Undisturbed
<1>3. ASSUME NEW u \in Threads, u # t PROVE Kept(u)
  BY <1>1, <1>2, <1>3, Frame DEF OneMove
<1>4. \A e \in Servers \ {Home[t]} : e # d => Still(t, e)
  BY DEF OneMove
<1>5. Kept(t)
  BY <1>1, <1>2, <1>4, Further
<1> QED BY <1>3, <1>5

LEMMA EndKeeps ==
  ASSUME IInv, NEW t \in Threads, NEW d \in Servers \ {Home[t]}, OneMove(t, d),
         Load(t, d) > 0, Load(t, d)' = 0,
         Undisturbed(t) /\ Carried(t, d) =>
           Here(t)' = Response(task[t]) /\ Answered(t)'
  PROVE  /\ \A u \in Threads : Kept(u)
         /\ Here(t)' = Here(t) => Lost(t)' /\ ~ Lost(t) /\ dest'[t] = d
<1>1. Typed /\ \A u \in Threads : Local(u)
  BY DEF IInv
<1>2. \A u \in Threads : SameCall(u) /\ (Undisturbed(u)' => Undisturbed(u))
  BY DEF OneMove, SameCall, Undisturbed
<1>3. ASSUME NEW u \in Threads, u # t PROVE Kept(u)
  BY <1>1, <1>2, <1>3, Frame DEF OneMove
<1>4. \A e \in Servers \ {Home[t]} : e # d => Still(t, e)
  BY DEF OneMove
<1>5. Kept(t) /\ (Here(t)' = Here(t) => Lost(t)' /\ ~ Lost(t) /\ dest'[t] = d)
  BY <1>1, <1>2, <1>4, Ended
<1> QED BY <1>3, <1>5

\* Something is under way between t and d: then nothing else is.
LEMMA UnderWay ==
  ASSUME IInv, NEW t \in Threads, NEW d \in Servers \ {Home[t]},
         \/ Asked(t, d) > 0 \/ Asking(t, d) > 0 \/ Arrived(t, d) > 0
         \/ Busy(t, d) > 0 \/ Replying(t, d) > 0 \/ Replied(t, d) > 0
  PROVE  /\ Load(t, d) > 0 /\ Load(t, d) = 1
         /\ pc[t] = "spin" /\ dest[t] = d
<1>1. Typed /\ Local(t)
  BY DEF IInv
<1>2. Load(t, d) > 0
  BY <1>1, SomeLoad
<1> QED BY <1>1, <1>2, Alone

\* The cells of a call hold messages.
LEMMA CellTypes ==
  ASSUME Typed, NEW t \in Threads, NEW d \in Servers
  PROVE  /\ Prepared(t, d) \in Content /\ There(t, d) \in Content
         /\ Here(t) \in Content
<1>1. Home[t] \in Servers
  BY RpcAssumption DEF RpcAssumption
<1>2. MySlot(t) \in Cells /\ ServerSendAddress(d, Slot[t]) \in Cells
  BY Addresses
<1> QED BY <1>1, <1>2 DEF Typed, Prepared, There, Here

\* The packets of a call are what may be on its wire.
LEMMA PacketTypes ==
  ASSUME NEW t \in Threads, NEW d \in Servers \ {Home[t]}
  PROVE  /\ \A x \in RequestPackets(t) : x \in Packets(<<Home[t], d>>)
         /\ \A x \in ReplyPackets(t) : x \in Packets(<<d, Home[t]>>)
<1>1. MySlot(t) \in Cells
  BY Addresses
<1>2. Row(t) \in Servers \X Offsets
  BY RowIsImm
<1>3. /\ RequestPackets(t) \subseteq
           [what : Content, to : Cells, imm : (Servers \X Offsets) \cup {NoImm}]
      /\ ReplyPackets(t) \subseteq
           [what : Content, to : Cells, imm : (Servers \X Offsets) \cup {NoImm}]
  BY <1>1, <1>2 DEF RequestPackets, ReplyPackets
<1> QED BY <1>3 DEF Packets, ThreadsOf

\* The adapter reads a request.
LEMMA TransmitRequest ==
  ASSUME IInv, NEW t \in Threads, NEW d \in Servers \ {Home[t]}, NEW p, NEW w, NEW x,
         p = <<Home[t], d>>, w = RequestWrite(t, d),
         x = [what |-> Prepared(t, d), to |-> MySlot(t), imm |-> Row(t)],
         Reads(p, w), Sends(p, x),
         UNCHANGED <<pc, dest, task, answer, overwritten, executed>>,
         UNCHANGED <<mem, cq, wpc, serving, replyTask>>
  PROVE  \A u \in Threads : Kept(u)
<1>1. Typed
  BY DEF IInv
<1>2. x \in RequestPackets(t) /\ x.what = Prepared(t, d)
  BY <1>1, CellTypes DEF RequestPackets
<1>3. x \in Packets(p)
  BY <1>2, PacketTypes
<1>4. /\ Asked(t, d) = Asked(t, d)' + 1 /\ Asked(t, d)' \in Nat
      /\ Replying(t, d)' = Replying(t, d)
      /\ \A u \in Threads : \A e \in Servers \ {Home[u]} :
           <<u, e>> # <<t, d>> => StillPosted(u, e)
  BY <1>1, RequestRead
<1>5. /\ Asking(t, d)' = Asking(t, d) + 1 /\ Replied(t, d)' = Replied(t, d)
      /\ \A u \in Threads : \A e \in Servers \ {Home[u]} :
           <<u, e>> # <<t, d>> => StillOnWire(u, e)
  BY <1>1, <1>2, <1>3, RequestSent
<1>6. \A u \in Threads : \A e \in Servers \ {Home[u]} :
        StillArrived(u, e) /\ StillServed(u, e)
  BY Steady
<1>7. OneMove(t, d)
  BY <1>4, <1>5, <1>6, MemSame DEF OneMove, Still, SameAnswered, Row
<1>8. /\ Load(t, d) > 0 /\ Load(t, d) = 1 /\ pc[t] = "spin"
      /\ Asked(t, d) = 1 /\ Asking(t, d) = 0 /\ Arrived(t, d) = 0
      /\ Busy(t, d) = 0 /\ Replying(t, d) = 0 /\ Replied(t, d) = 0
  <2>1. Asked(t, d) > 0
    BY <1>4
  <2>2. Load(t, d) > 0 /\ Load(t, d) = 1 /\ pc[t] = "spin"
    BY <2>1, UnderWay
  <2> QED BY <1>1, <2>1, <2>2, OnlyOne DEF At
<1>9. /\ Asked(t, d)' = 0 /\ Asking(t, d)' = 1 /\ Arrived(t, d)' = 0
      /\ Busy(t, d)' = 0 /\ Replying(t, d)' = 0 /\ Replied(t, d)' = 0
  BY <1>4, <1>5, <1>6, <1>8 DEF StillArrived, StillServed
<1>10. Load(t, d)' = 1
  BY <1>9 DEF Load
<1>11. Here(t)' = Here(t)
  BY MemSame
<1>12. ASSUME Carried(t, d) PROVE Carried(t, d)'
  <2>1. Prepared(t, d) = Request(task[t])
    BY <1>8, <1>12 DEF Carried
  <2>2. Carry(wire'[p], RequestPackets(t), Request(task'[t]))
    <3>1. wire[p] \in Seq(Packets(p)) /\ p \in DOMAIN wire
      BY <1>1, PairOf DEF Typed
    <3>2. Matches(wire[p], RequestPackets(t)) = 0
      BY <1>8 DEF Asking
    <3>3. x.what = Request(task[t])
      BY <1>2, <2>1
    <3>4. Carry(Append(wire[p], x), RequestPackets(t), Request(task[t]))
      BY <1>3, <3>1, <3>2, <3>3, CarryFirst
    <3> QED BY <3>1, <3>4 DEF Sends
  <2>3. pc'[t] # "post"
    BY <1>8
  <2>4. Answered(t)' <=> Answered(t)
    BY DEF Answered, Row
  <2> QED BY <1>8, <1>9, <1>12, <2>2, <2>3, <2>4 DEF Carried
<1> QED BY <1>7, <1>8, <1>10, <1>11, <1>12, MoveKeeps

\* The adapter reads a reply.
LEMMA TransmitReply ==
  ASSUME IInv, NEW t \in Threads, NEW d \in Servers \ {Home[t]}, NEW p, NEW w, NEW x,
         p = <<d, Home[t]>>, w = ReplyWrite(t),
         x = [what |-> There(t, d), to |-> MySlot(t), imm |-> NoImm],
         Reads(p, w), Sends(p, x),
         UNCHANGED <<pc, dest, task, answer, overwritten, executed>>,
         UNCHANGED <<mem, cq, wpc, serving, replyTask>>
  PROVE  \A u \in Threads : Kept(u)
<1>1. Typed
  BY DEF IInv
<1>2. x \in ReplyPackets(t) /\ x.what = There(t, d)
  BY <1>1, CellTypes DEF ReplyPackets
<1>3. x \in Packets(p)
  BY <1>2, PacketTypes
<1>4. /\ Replying(t, d) = Replying(t, d)' + 1 /\ Replying(t, d)' \in Nat
      /\ Asked(t, d)' = Asked(t, d)
      /\ \A u \in Threads : \A e \in Servers \ {Home[u]} :
           <<u, e>> # <<t, d>> => StillPosted(u, e)
  BY <1>1, ReplyRead
<1>5. /\ Replied(t, d)' = Replied(t, d) + 1 /\ Asking(t, d)' = Asking(t, d)
      /\ \A u \in Threads : \A e \in Servers \ {Home[u]} :
           <<u, e>> # <<t, d>> => StillOnWire(u, e)
  BY <1>1, <1>2, <1>3, ReplySent
<1>6. \A u \in Threads : \A e \in Servers \ {Home[u]} :
        StillArrived(u, e) /\ StillServed(u, e)
  BY Steady
<1>7. OneMove(t, d)
  BY <1>4, <1>5, <1>6, MemSame DEF OneMove, Still, SameAnswered, Row
<1>8. /\ Load(t, d) > 0 /\ Load(t, d) = 1 /\ pc[t] = "spin"
      /\ Asked(t, d) = 0 /\ Asking(t, d) = 0 /\ Arrived(t, d) = 0
      /\ Busy(t, d) = 0 /\ Replying(t, d) = 1 /\ Replied(t, d) = 0
  <2>1. Replying(t, d) > 0
    BY <1>4
  <2>2. Load(t, d) > 0 /\ Load(t, d) = 1 /\ pc[t] = "spin"
    BY <2>1, UnderWay
  <2> QED BY <1>1, <2>1, <2>2, OnlyOne DEF At
<1>9. /\ Asked(t, d)' = 0 /\ Asking(t, d)' = 0 /\ Arrived(t, d)' = 0
      /\ Busy(t, d)' = 0 /\ Replying(t, d)' = 0 /\ Replied(t, d)' = 1
  BY <1>4, <1>5, <1>6, <1>8 DEF StillArrived, StillServed
<1>10. Load(t, d)' = 1
  BY <1>9 DEF Load
<1>11. Here(t)' = Here(t)
  BY MemSame
<1>12. ASSUME Carried(t, d) PROVE Carried(t, d)'
  <2>1. There(t, d) = Response(task[t])
    BY <1>8, <1>12 DEF Carried
  <2>2. Carry(wire'[p], ReplyPackets(t), Response(task'[t]))
    <3>1. wire[p] \in Seq(Packets(p)) /\ p \in DOMAIN wire
      BY <1>1, PairOf DEF Typed
    <3>2. Matches(wire[p], ReplyPackets(t)) = 0
      BY <1>8 DEF Replied
    <3>3. x.what = Response(task[t])
      BY <1>2, <2>1
    <3>4. Carry(Append(wire[p], x), ReplyPackets(t), Response(task[t]))
      BY <1>3, <3>1, <3>2, <3>3, CarryFirst
    <3> QED BY <3>1, <3>4 DEF Sends
  <2>3. pc'[t] # "post"
    BY <1>8
  <2>4. Answered(t)' <=> Answered(t)
    BY DEF Answered, Row
  <2> QED BY <1>8, <1>9, <1>12, <2>2, <2>3, <2>4 DEF Carried
<1> QED BY <1>7, <1>8, <1>10, <1>11, <1>12, MoveKeeps

\* A request is placed and reported.
LEMMA PlaceRequest ==
  ASSUME IInv, NEW t \in Threads, NEW d \in Servers \ {Home[t]}, NEW p,
         p = <<Home[t], d>>, NEW x \in RequestPackets(t), Delivers(p, x),
         Store(d, MySlot(t), x.what), Reports(d, Row(t)),
         UNCHANGED <<pc, dest, task, answer, overwritten, executed>>,
         UNCHANGED <<sendq, wpc, serving, replyTask>>
  PROVE  \A u \in Threads : Kept(u)
<1>1. Typed
  BY DEF IInv
<1>2. /\ Asking(t, d) = Asking(t, d)' + 1 /\ Asking(t, d)' \in Nat
      /\ Replied(t, d)' = Replied(t, d)
      /\ \A u \in Threads : \A e \in Servers \ {Home[u]} :
           <<u, e>> # <<t, d>> => StillOnWire(u, e)
  BY <1>1, RequestPlaced
<1>3. ASSUME NEW u \in Threads, NEW e \in Servers \ {Home[u]}
      PROVE  Arrived(u, e)' = Arrived(u, e) + (IF u = t /\ e = d THEN 1 ELSE 0)
  BY <1>1, CqAppend
<1>4. ASSUME NEW u \in Threads, NEW e \in Servers \ {Home[u]}, <<u, e>> # <<t, d>>
      PROVE  StillArrived(u, e)
  <2>1. Arrived(u, e)' = Arrived(u, e) + 0 /\ Arrived(u, e) \in Nat
    BY <1>1, <1>3, <1>4, Counts
  <2> QED BY <2>1 DEF StillArrived
<1>5. \A u \in Threads : \A e \in Servers \ {Home[u]} :
        StillPosted(u, e) /\ StillServed(u, e)
  BY Steady
<1>6. /\ mem'[d][MySlot(t)] = x.what /\ Here(t)' = Here(t)
      /\ \A u \in Threads : u # t => SameCells(u) /\ Here(u)' = Here(u)
  BY <1>1, SlotWritten
<1>7. OneMove(t, d)
  BY <1>2, <1>4, <1>5, <1>6 DEF OneMove, Still, SameAnswered, Row
<1>8. /\ Load(t, d) > 0 /\ Load(t, d) = 1 /\ pc[t] = "spin"
      /\ Asked(t, d) = 0 /\ Asking(t, d) = 1 /\ Arrived(t, d) = 0
      /\ Busy(t, d) = 0 /\ Replying(t, d) = 0 /\ Replied(t, d) = 0
  <2>1. Asking(t, d) > 0
    BY <1>2
  <2>2. Load(t, d) > 0 /\ Load(t, d) = 1 /\ pc[t] = "spin"
    BY <2>1, UnderWay
  <2> QED BY <1>1, <2>1, <2>2, OnlyOne DEF At
<1>9. /\ Asked(t, d)' = 0 /\ Asking(t, d)' = 0 /\ Arrived(t, d)' = 1
      /\ Busy(t, d)' = 0 /\ Replying(t, d)' = 0 /\ Replied(t, d)' = 0
  <2>1. StillPosted(t, d) /\ StillServed(t, d) /\ Arrived(t, d)' = Arrived(t, d) + 1
    BY <1>3, <1>5
  <2> QED BY <1>2, <1>8, <2>1 DEF StillPosted, StillServed
<1>10. Load(t, d)' = 1
  BY <1>9 DEF Load
<1>11. ASSUME Carried(t, d) PROVE Carried(t, d)'
  <2>1. x.what = Request(task[t])
    <3>1. Carry(wire[p], RequestPackets(t), Request(task[t]))
      BY <1>8, <1>11 DEF Carried
    <3>2. wire[p] \in Seq(Packets(p)) /\ wire[p] # <<>> /\ x = Head(wire[p])
      BY <1>1, PairOf DEF Typed, Delivers
    <3> QED BY <3>1, <3>2, CarryFacts
  <2>2. There(t, d)' = Request(task'[t])
    BY <1>6, <2>1 DEF There
  <2>3. pc'[t] # "post"
    BY <1>8
  <2>4. Answered(t)' <=> Answered(t)
    BY DEF Answered, Row
  <2> QED BY <1>8, <1>9, <1>11, <2>2, <2>3, <2>4 DEF Carried
<1> QED BY <1>6, <1>7, <1>8, <1>10, <1>11, MoveKeeps

\* A reply is placed where the caller waits.
LEMMA PlaceReply ==
  ASSUME IInv, NEW t \in Threads, NEW d \in Servers \ {Home[t]}, NEW p,
         p = <<d, Home[t]>>, NEW x \in ReplyPackets(t), Delivers(p, x),
         Store(Home[t], MySlot(t), x.what),
         UNCHANGED <<pc, dest, task, answer, overwritten, executed>>,
         UNCHANGED <<sendq, cq, wpc, serving, replyTask>>
  PROVE  \A u \in Threads : Kept(u)
<1>1. Typed /\ Home[t] \in Servers
  BY RpcAssumption DEF IInv, RpcAssumption
<1>2. /\ Replied(t, d) = Replied(t, d)' + 1 /\ Replied(t, d)' \in Nat
      /\ Asking(t, d)' = Asking(t, d)
      /\ \A u \in Threads : \A e \in Servers \ {Home[u]} :
           <<u, e>> # <<t, d>> => StillOnWire(u, e)
  BY <1>1, ReplyPlaced
<1>3. \A u \in Threads : \A e \in Servers \ {Home[u]} :
        StillPosted(u, e) /\ StillArrived(u, e) /\ StillServed(u, e)
  BY Steady
<1>4. /\ mem'[Home[t]][MySlot(t)] = x.what
      /\ \A u \in Threads : u # t => SameCells(u) /\ Here(u)' = Here(u)
  BY <1>1, SlotWritten
<1>5. OneMove(t, d)
  BY <1>2, <1>3, <1>4 DEF OneMove, Still, SameAnswered, Row
<1>6. /\ Load(t, d) > 0 /\ Load(t, d) = 1 /\ pc[t] = "spin"
      /\ Asked(t, d) = 0 /\ Asking(t, d) = 0 /\ Arrived(t, d) = 0
      /\ Busy(t, d) = 0 /\ Replying(t, d) = 0 /\ Replied(t, d) = 1
  <2>1. Replied(t, d) > 0
    BY <1>2
  <2>2. Load(t, d) > 0 /\ Load(t, d) = 1 /\ pc[t] = "spin"
    BY <2>1, UnderWay
  <2> QED BY <1>1, <2>1, <2>2, OnlyOne DEF At
<1>7. Load(t, d)' = 0
  <2>1. /\ Asked(t, d)' = 0 /\ Asking(t, d)' = 0 /\ Arrived(t, d)' = 0
        /\ Busy(t, d)' = 0 /\ Replying(t, d)' = 0 /\ Replied(t, d)' = 0
    BY <1>2, <1>3, <1>6 DEF StillPosted, StillArrived, StillServed
  <2> QED BY <2>1 DEF Load
<1>8. ASSUME Carried(t, d)
      PROVE  Here(t)' = Response(task[t]) /\ Answered(t)'
  <2>1. Carry(wire[p], ReplyPackets(t), Response(task[t]))
    BY <1>6, <1>8 DEF Carried
  <2>2. wire[p] \in Seq(Packets(p)) /\ wire[p] # <<>> /\ x = Head(wire[p])
    BY <1>1, PairOf DEF Typed, Delivers
  <2>3. x.what = Response(task[t])
    BY <2>1, <2>2, CarryFacts
  <2>4. Answered(t)'
    <3>1. Answered(t)
      BY <1>6, <1>8 DEF Carried
    <3> QED BY <3>1 DEF Answered, Row
  <2> QED BY <1>4, <2>3, <2>4 DEF Here
<1> QED BY <1>5, <1>6, <1>7, <1>8, EndKeeps

-----------------------------------------------------------------------------
(***************************************************************************)
(* The steps of a worker.                                                  *)
(***************************************************************************)

\* The worker is busy with the request of one thread of another server.
LEMMA ServedThread ==
  ASSUME Typed, NEW d \in Servers, wpc[d] # "poll"
  PROVE  \E t \in Threads : /\ Home[t] # d /\ serving[d] = Row(t)
                            /\ Served(d) = MySlot(t)
<1>1. PICK t \in Threads : Home[t] # d /\ serving[d] = Row(t)
  BY DEF Typed, Callers
<1>2. Served(d) = MySlot(t)
  BY <1>1 DEF Served, MySlot, Row
<1> QED BY <1>1, <1>2

LEMMA PollRequest ==
  ASSUME IInv, NEW d \in Servers, RequestPoller(d),
         NEW t \in Threads, Home[t] # d, Fetches(d, Row(t))
  PROVE  \A u \in Threads : Kept(u)
<1>1. Typed /\ d \in Servers \ {Home[t]}
  BY DEF IInv
<1>2. /\ wpc[d] = "poll" /\ wpc' = [wpc EXCEPT ![d] = "build"]
      /\ serving' = [serving EXCEPT ![d] = Row(t)] /\ replyTask' = replyTask
      /\ UNCHANGED <<mem, pc, dest, task, answer, overwritten, executed, sendq, wire>>
  BY DEF RequestPoller, WorkerGoTo, Fetches, callVars, netVars, clientVars
<1>3. wpc'[d] = "build" /\ serving'[d] = Row(t) /\ OnlyWorker(d)
  BY <1>1, <1>2 DEF Typed, OnlyWorker
<1>4. /\ Busy(t, d) = 0 /\ Busy(t, d)' = 1
      /\ \A u \in Threads : \A e \in Servers \ {Home[u]} :
           <<u, e>> # <<t, d>> => StillServed(u, e)
  <2>1. /\ Busy(t, d) = IF wpc[d] \in Handling THEN 1 ELSE 0
        /\ Busy(t, d)' = IF wpc'[d] \in Handling THEN 1 ELSE 0
        /\ \A u \in Threads : \A e \in Servers \ {Home[u]} :
             <<u, e>> # <<t, d>> => StillServed(u, e)
    BY <1>2, <1>3, WorkerMoves
  <2> QED BY <1>2, <1>3, <2>1 DEF Handling
<1>5. ASSUME NEW u \in Threads, NEW e \in Servers \ {Home[u]}
      PROVE  /\ Arrived(u, e) = Arrived(u, e)' + (IF u = t /\ e = d THEN 1 ELSE 0)
             /\ Arrived(u, e)' \in Nat
  BY <1>1, CqTail
<1>6. ASSUME NEW u \in Threads, NEW e \in Servers \ {Home[u]}, <<u, e>> # <<t, d>>
      PROVE  StillArrived(u, e)
  <2>1. Arrived(u, e) = Arrived(u, e)' + 0 /\ Arrived(u, e)' \in Nat
    BY <1>5, <1>6
  <2> QED BY <2>1 DEF StillArrived
<1>7. Arrived(t, d) = Arrived(t, d)' + 1 /\ Arrived(t, d)' \in Nat
  BY <1>1, <1>5
<1>8. \A u \in Threads : \A e \in Servers \ {Home[u]} :
        StillPosted(u, e) /\ StillOnWire(u, e)
  BY <1>2, Steady
<1>9. OneMove(t, d)
  BY <1>2, <1>4, <1>6, <1>8, MemSame DEF OneMove, Still, SameAnswered, Row
<1>10. /\ Load(t, d) > 0 /\ Load(t, d) = 1 /\ pc[t] = "spin"
       /\ Asked(t, d) = 0 /\ Asking(t, d) = 0 /\ Arrived(t, d) = 1
       /\ Busy(t, d) = 0 /\ Replying(t, d) = 0 /\ Replied(t, d) = 0
  <2>1. Arrived(t, d) > 0
    BY <1>7
  <2>2. Load(t, d) > 0 /\ Load(t, d) = 1 /\ pc[t] = "spin"
    BY <1>1, <2>1, UnderWay
  <2> QED BY <1>1, <2>1, <2>2, OnlyOne DEF At
<1>11. /\ Asked(t, d)' = 0 /\ Asking(t, d)' = 0 /\ Arrived(t, d)' = 0
       /\ Busy(t, d)' = 1 /\ Replying(t, d)' = 0 /\ Replied(t, d)' = 0
  <2>1. StillPosted(t, d) /\ StillOnWire(t, d)
    BY <1>1, <1>8
  <2> QED BY <1>4, <1>7, <1>10, <2>1 DEF StillPosted, StillOnWire
<1>12. Load(t, d)' = 1
  BY <1>11 DEF Load
<1>13. ASSUME Carried(t, d) PROVE Carried(t, d)'
  <2>1. There(t, d)' = Request(task'[t])
    BY <1>2, <1>10, <1>13 DEF Carried, There
  <2>2. pc'[t] # "post"
    BY <1>2, <1>10
  <2>3. Answered(t)' <=> Answered(t)
    BY <1>2 DEF Answered, Row
  <2> QED BY <1>3, <1>10, <1>11, <1>13, <2>1, <2>2, <2>3 DEF Carried
<1>14. Here(t)' = Here(t)
  BY <1>2, MemSame
<1> QED BY <1>1, <1>9, <1>10, <1>12, <1>13, <1>14, MoveKeeps

\* The worker keeps the request of t.
LEMMA WorkerKeeps ==
  ASSUME IInv, NEW d \in Servers, NEW t \in Threads, Home[t] # d,
         serving[d] = Row(t), wpc[d] \in Handling, wpc'[d] \in Handling,
         OnlyWorker(d), serving' = serving, UNCHANGED <<mem, cq, sendq, wire>>,
         UNCHANGED <<pc, dest, task, answer, overwritten, executed>>,
         Carried(t, d) =>
           /\ wpc'[d] # "reply" => There(t, d) = Request(task[t])
           /\ wpc'[d] # "build" => replyTask'[d] = task[t]
  PROVE  \A u \in Threads : Kept(u)
<1>1. Typed /\ d \in Servers \ {Home[t]}
  BY DEF IInv
<1>2. /\ Busy(t, d) = 1 /\ Busy(t, d)' = 1
      /\ \A u \in Threads : \A e \in Servers \ {Home[u]} :
           <<u, e>> # <<t, d>> => StillServed(u, e)
  <2>1. /\ Busy(t, d) = IF wpc[d] \in Handling THEN 1 ELSE 0
        /\ Busy(t, d)' = IF wpc'[d] \in Handling THEN 1 ELSE 0
        /\ \A u \in Threads : \A e \in Servers \ {Home[u]} :
             <<u, e>> # <<t, d>> => StillServed(u, e)
    BY WorkerMoves
  <2> QED BY <2>1
<1>3. \A u \in Threads : \A e \in Servers \ {Home[u]} :
        StillPosted(u, e) /\ StillOnWire(u, e) /\ StillArrived(u, e)
  BY Steady
<1>4. OneMove(t, d)
  BY <1>2, <1>3, MemSame DEF OneMove, Still, SameAnswered, Row
<1>5. /\ Load(t, d) > 0 /\ Load(t, d) = 1 /\ pc[t] = "spin"
      /\ Asked(t, d) = 0 /\ Asking(t, d) = 0 /\ Arrived(t, d) = 0
      /\ Busy(t, d) = 1 /\ Replying(t, d) = 0 /\ Replied(t, d) = 0
  <2>1. Busy(t, d) > 0
    BY <1>2
  <2>2. Load(t, d) > 0 /\ Load(t, d) = 1 /\ pc[t] = "spin"
    BY <1>1, <2>1, UnderWay
  <2> QED BY <1>1, <2>1, <2>2, OnlyOne DEF At
<1>6. /\ Asked(t, d)' = 0 /\ Asking(t, d)' = 0 /\ Arrived(t, d)' = 0
      /\ Busy(t, d)' = 1 /\ Replying(t, d)' = 0 /\ Replied(t, d)' = 0
  <2>1. StillPosted(t, d) /\ StillOnWire(t, d) /\ StillArrived(t, d)
    BY <1>1, <1>3
  <2> QED BY <1>2, <1>5, <2>1 DEF StillPosted, StillOnWire, StillArrived
<1>7. Load(t, d)' = 1
  BY <1>6 DEF Load
<1>8. ASSUME Carried(t, d) PROVE Carried(t, d)'
  <2>1. There(t, d)' = There(t, d) /\ pc'[t] # "post"
    BY <1>5 DEF There
  <2>2. Answered(t)' <=> Answered(t)
    BY DEF Answered, Row
  <2> QED BY <1>5, <1>6, <1>8, <2>1, <2>2 DEF Carried
<1>9. Here(t)' = Here(t)
  BY MemSame
<1> QED BY <1>1, <1>4, <1>5, <1>7, <1>8, <1>9, MoveKeeps

LEMMA ReadTaskKeeps ==
  ASSUME IInv, NEW d \in Servers, ReadTask(d)
  PROVE  Holds
<1>1. Typed
  BY DEF IInv
<1>2. /\ wpc[d] = "build" /\ wpc' = [wpc EXCEPT ![d] = "classify"]
      /\ replyTask' = [replyTask EXCEPT ![d] = mem[d][Served(d)].task]
      /\ serving' = serving /\ UNCHANGED <<mem, cq, sendq, wire, receives>>
      /\ UNCHANGED <<pc, dest, task, answer, overwritten, executed>>
  BY DEF ReadTask, WorkerGoTo, callVars, netVars, clientVars
<1>3. PICK t \in Threads :
        Home[t] # d /\ serving[d] = Row(t) /\ Served(d) = MySlot(t)
  BY <1>1, <1>2, ServedThread
<1>4. wpc'[d] = "classify" /\ replyTask'[d] = There(t, d).task /\ OnlyWorker(d)
  BY <1>1, <1>2, <1>3 DEF Typed, OnlyWorker, There
<1>5. Busy(t, d) > 0
  BY <1>2, <1>3 DEF Busy
<1>6. Carried(t, d) => There(t, d) = Request(task[t])
  BY <1>2, <1>5 DEF Carried
<1>7. Request(task[t]).task = task[t]
  BY DEF Request
<1>8. \A u \in Threads : Kept(u)
  BY <1>2, <1>3, <1>4, <1>6, <1>7, WorkerKeeps DEF Handling
<1>9. \A p \in Pairs : Held(p)' = Held(p)
  <2>1. \A e \in Servers : wpc'[e] = "poll" <=> wpc[e] = "poll"
    BY <1>1, <1>2 DEF Typed
  <2> QED BY <1>2, <2>1, HeldSteady
<1> QED BY <1>1, <1>8, <1>9, AccountKept DEF IInv, Holds

\* A request that is what it should be.
LEMMA ClassifyTest ==
  ASSUME IInv, NEW d \in Servers, Classify(d), mem[d][Served(d)].msg = "TEST"
  PROVE  Holds
<1>1. Typed
  BY DEF IInv
<1>2. /\ wpc[d] = "classify" /\ wpc' = [wpc EXCEPT ![d] = "reply"]
      /\ serving' = serving /\ replyTask' = replyTask
      /\ UNCHANGED <<mem, cq, sendq, wire, receives>>
      /\ UNCHANGED <<pc, dest, task, answer, overwritten, executed>>
  BY DEF Classify, WorkerGoTo, callVars, netVars, clientVars
<1>3. PICK t \in Threads :
        Home[t] # d /\ serving[d] = Row(t) /\ Served(d) = MySlot(t)
  BY <1>1, <1>2, ServedThread
<1>4. wpc'[d] = "reply" /\ OnlyWorker(d)
  BY <1>1, <1>2 DEF Typed, OnlyWorker
<1>5. Busy(t, d) > 0
  BY <1>2, <1>3 DEF Busy
<1>6. Carried(t, d) => replyTask'[d] = task[t]
  BY <1>2, <1>5 DEF Carried
<1>7. \A u \in Threads : Kept(u)
  BY <1>2, <1>3, <1>4, <1>6, WorkerKeeps DEF Handling
<1>8. \A p \in Pairs : Held(p)' = Held(p)
  <2>1. \A e \in Servers : wpc'[e] = "poll" <=> wpc[e] = "poll"
    BY <1>1, <1>2 DEF Typed
  <2> QED BY <1>2, <2>1, HeldSteady
<1> QED BY <1>1, <1>7, <1>8, AccountKept DEF IInv, Holds

\* One that is not: it was overwritten, and its thread is lost with the receive.
LEMMA ClassifyOther ==
  ASSUME IInv, NEW d \in Servers, Classify(d), mem[d][Served(d)].msg # "TEST"
  PROVE  Holds
<1>1. Typed
  BY DEF IInv
<1>2. /\ wpc[d] = "classify" /\ wpc' = [wpc EXCEPT ![d] = "poll"]
      /\ serving' = serving /\ replyTask' = replyTask
      /\ UNCHANGED <<mem, cq, sendq, wire, receives>>
      /\ UNCHANGED <<pc, dest, task, answer, overwritten, executed>>
  BY DEF Classify, WorkerGoTo, callVars, netVars, clientVars
<1>3. PICK t \in Threads :
        Home[t] # d /\ serving[d] = Row(t) /\ Served(d) = MySlot(t)
  BY <1>1, <1>2, ServedThread
<1>4. wpc'[d] = "poll" /\ OnlyWorker(d) /\ d \in Servers \ {Home[t]}
  BY <1>1, <1>2, <1>3 DEF Typed, OnlyWorker
<1>5. /\ Busy(t, d) = 1 /\ Busy(t, d)' = 0
      /\ \A u \in Threads : \A e \in Servers \ {Home[u]} :
           <<u, e>> # <<t, d>> => StillServed(u, e)
  <2>1. /\ Busy(t, d) = IF wpc[d] \in Handling THEN 1 ELSE 0
        /\ Busy(t, d)' = IF wpc'[d] \in Handling THEN 1 ELSE 0
        /\ \A u \in Threads : \A e \in Servers \ {Home[u]} :
             <<u, e>> # <<t, d>> => StillServed(u, e)
    BY <1>2, <1>3, <1>4, WorkerMoves
  <2> QED BY <1>2, <1>4, <2>1 DEF Handling
<1>6. \A u \in Threads : \A e \in Servers \ {Home[u]} :
        StillPosted(u, e) /\ StillOnWire(u, e) /\ StillArrived(u, e)
  BY <1>2, Steady
<1>7. OneMove(t, d)
  BY <1>2, <1>5, <1>6, MemSame DEF OneMove, Still, SameAnswered, Row
<1>8. /\ Load(t, d) > 0 /\ Load(t, d) = 1
      /\ Asked(t, d) = 0 /\ Asking(t, d) = 0 /\ Arrived(t, d) = 0
      /\ Busy(t, d) = 1 /\ Replying(t, d) = 0 /\ Replied(t, d) = 0
  <2>1. Busy(t, d) > 0
    BY <1>5
  <2>2. Load(t, d) > 0 /\ Load(t, d) = 1
    BY <1>4, <2>1, UnderWay
  <2> QED BY <1>1, <1>4, <2>1, <2>2, OnlyOne DEF At
<1>9. Load(t, d)' = 0
  <2>1. StillPosted(t, d) /\ StillOnWire(t, d) /\ StillArrived(t, d)
    BY <1>4, <1>6
  <2>2. /\ Asked(t, d)' = 0 /\ Asking(t, d)' = 0 /\ Arrived(t, d)' = 0
        /\ Busy(t, d)' = 0 /\ Replying(t, d)' = 0 /\ Replied(t, d)' = 0
    BY <1>5, <1>8, <2>1 DEF StillPosted, StillOnWire, StillArrived
  <2> QED BY <2>2 DEF Load
<1>10. ~ Carried(t, d)
  <2>1. There(t, d).msg # "TEST"
    BY <1>3 DEF There
  <2>2. Request(task[t]).msg = "TEST"
    BY DEF Request
  <2> QED BY <1>2, <1>8, <2>1, <2>2 DEF Carried
<1>11. Here(t)' = Here(t)
  BY <1>2, MemSame
<1>12. /\ \A u \in Threads : Kept(u)
       /\ Lost(t)' /\ ~ Lost(t) /\ dest'[t] = d
  BY <1>4, <1>7, <1>8, <1>9, <1>10, <1>11, EndKeeps
<1>13. ASSUME NEW p \in Pairs PROVE Account(p)'
  <2>1. Account(p)
    BY DEF IInv
  <2>2. CASE p = <<Home[t], d>>
    <3>1. Held(p) = Held(p)' + 1 /\ Held(p)' \in Nat
      <4>1. PICK n \in Nat :
              receives[p] + Matches(cq[d], {p[1]} \X Offsets) = n
        <5>1. receives[p] \in Nat /\ cq[d] \in Seq(Callers(d))
          BY <1>1 DEF Typed
        <5>2. Matches(cq[d], {p[1]} \X Offsets) \in Nat
          BY <5>1, MatchesType
        <5> QED BY <5>1, <5>2
      <4>2. Held(p) = n + 1
        BY <1>2, <1>3, <2>2, <4>1 DEF Held, Row
      <4>3. Held(p)' = n + 0
        BY <1>2, <1>4, <2>2, <4>1 DEF Held
      <4> QED BY <4>2, <4>3
    <3>2. t \in Gone(p)' /\ t \notin Gone(p)
      BY <1>12, <2>2 DEF Gone, ThreadsOf
    <3>3. /\ IsFiniteSet(Gone(p)) /\ IsFiniteSet(Gone(p)')
          /\ Gone(p) \subseteq Gone(p)'
          /\ Cardinality(Gone(p)) \in Nat /\ Cardinality(Gone(p)') \in Nat
      BY <1>12, GoneKept
    <3>4. Cardinality(Gone(p) \cup {t}) = Cardinality(Gone(p)) + 1
      BY <3>2, <3>3, FS_AddElement
    <3>5. Cardinality(Gone(p) \cup {t}) <= Cardinality(Gone(p)')
      <4>1. Gone(p) \cup {t} \subseteq Gone(p)'
        BY <3>2, <3>3
      <4> QED BY <3>3, <4>1, FS_Subset
    <3>6. PICK h \in Nat, g \in Nat, k \in Nat :
            /\ Held(p)' = h /\ Cardinality(Gone(p)) = g
            /\ Cardinality(Gone(p)') = k
      BY <3>1, <3>3
    <3>7. g + 1 <= k /\ Held(p) = h + 1 /\ RecvDepth \in Nat
      BY <3>1, <3>4, <3>5, <3>6, RpcAssumption DEF RpcAssumption
    <3>8. h + 1 <= RecvDepth /\ RecvDepth <= (h + 1) + g
      BY <2>1, <3>6, <3>7 DEF Account
    <3>9. h <= RecvDepth /\ RecvDepth <= h + k
      BY <3>7, <3>8
    <3>10. Cardinality(Gone(p))' = k
      BY <3>6
    <3> QED BY <3>6, <3>9, <3>10 DEF Account
  <2>3. CASE p # <<Home[t], d>>
    <3>1. Held(p)' = Held(p)
      <4>1. PICK e \in Servers : p[2] = e /\ p = <<p[1], e>>
        BY DEF Pairs
      <4>2. CASE e # d
        BY <1>1, <1>2, <4>1, <4>2 DEF Held, Typed
      <4>3. CASE e = d
        <5>1. serving[d][1] # p[1]
          BY <1>3, <2>3, <4>1, <4>3 DEF Row
        <5> QED BY <1>2, <4>1, <4>3, <5>1 DEF Held
      <4> QED BY <4>2, <4>3
    <3> QED BY <1>1, <1>12, <2>1, <3>1, AccountKept
  <2> QED BY <2>2, <2>3
<1> QED BY <1>12, <1>13 DEF Holds

\* A reply is counted for the thread it goes to.
LEMMA ReplyAnswers ==
  ASSUME Typed, NEW d \in Servers, Reply(d), NEW t \in Threads, serving[d] = Row(t)
  PROVE  /\ executed'[Row(t)].last = replyTask[d]
         /\ executed'[Row(t)].count = executed[Row(t)].count + 1
         /\ \A u \in Threads : u # t => SameAnswered(u)
<1>1. PICK r \in Servers \X Offsets : r = Row(t)
  BY RowIsImm
<1>2. executed' = [executed EXCEPT ![r] =
                    [last |-> replyTask[d], count |-> @.count + 1]]
  BY <1>1 DEF Reply
<1>3. r \in DOMAIN executed
  BY DEF Typed
<1>4. executed'[r] = [last |-> replyTask[d], count |-> executed[r].count + 1]
  BY <1>2, <1>3
<1>5. \A u \in Threads : u # t => SameAnswered(u)
  BY <1>1, <1>2, Apart DEF SameAnswered
<1> QED BY <1>1, <1>4, <1>5

LEMMA ReplyKeeps ==
  ASSUME IInv, NEW d \in Servers, Reply(d)
  PROVE  Holds
<1>1. Typed
  BY DEF IInv
<1>2. PICK t \in Threads :
        Home[t] # d /\ serving[d] = Row(t) /\ Served(d) = MySlot(t)
  BY <1>1, ServedThread DEF Reply, WorkerGoTo
<1>3. /\ wpc[d] = "reply" /\ wpc' = [wpc EXCEPT ![d] = "repost"]
      /\ serving' = serving /\ replyTask' = replyTask
      /\ UNCHANGED <<cq, wire, receives>>
      /\ UNCHANGED <<pc, dest, task, answer, overwritten>>
      /\ Store(d, MySlot(t), Response(replyTask[d]))
  BY <1>2 DEF Reply, WorkerGoTo, callVars, netVars, clientVars
<1>4. PICK p, w : p = <<d, Home[t]>> /\ w = ReplyWrite(t) /\ Posts(p, w)
  <2>1. BatchWrite(d, serving[d][1], Served(d), Served(d), NoImm)
    BY DEF Reply
  <2>2. serving[d][1] = Home[t]
    BY <1>2 DEF Row
  <2>3. BatchWrite(d, Home[t], MySlot(t), MySlot(t), NoImm)
    BY <1>2, <2>1, <2>2
  <2>4. Posts(<<d, Home[t]>>, ReplyWrite(t))
    BY <2>3 DEF BatchWrite, Posts, ReplyWrite
  <2> QED BY <2>4
<1>5. wpc'[d] = "repost" /\ OnlyWorker(d) /\ d \in Servers \ {Home[t]}
  BY <1>1, <1>2, <1>3 DEF Typed, OnlyWorker
<1>6. /\ Replying(t, d)' = Replying(t, d) + 1 /\ Asked(t, d)' = Asked(t, d)
      /\ \A u \in Threads : \A e \in Servers \ {Home[u]} :
           <<u, e>> # <<t, d>> => StillPosted(u, e)
  BY <1>1, <1>4, <1>5, ReplyPosted
<1>7. /\ Busy(t, d) = 1 /\ Busy(t, d)' = 0
      /\ \A u \in Threads : \A e \in Servers \ {Home[u]} :
           <<u, e>> # <<t, d>> => StillServed(u, e)
  <2>1. /\ Busy(t, d) = IF wpc[d] \in Handling THEN 1 ELSE 0
        /\ Busy(t, d)' = IF wpc'[d] \in Handling THEN 1 ELSE 0
        /\ \A u \in Threads : \A e \in Servers \ {Home[u]} :
             <<u, e>> # <<t, d>> => StillServed(u, e)
    BY <1>2, <1>3, <1>5, WorkerMoves
  <2> QED BY <1>3, <1>5, <2>1 DEF Handling
<1>8. \A u \in Threads : \A e \in Servers \ {Home[u]} :
        StillOnWire(u, e) /\ StillArrived(u, e)
  BY <1>3, Steady
<1>9. /\ mem'[d][MySlot(t)] = Response(replyTask[d]) /\ Here(t)' = Here(t)
      /\ \A u \in Threads : u # t => SameCells(u) /\ Here(u)' = Here(u)
  BY <1>1, <1>2, <1>3, SlotWritten
<1>10. OneMove(t, d)
  <2>1. \A u \in Threads : u # t => SameAnswered(u)
    BY <1>1, <1>2, ReplyAnswers
  <2> QED BY <1>3, <1>6, <1>7, <1>8, <1>9, <2>1 DEF OneMove, Still
<1>11. /\ Load(t, d) > 0 /\ Load(t, d) = 1 /\ pc[t] = "spin"
       /\ Asked(t, d) = 0 /\ Asking(t, d) = 0 /\ Arrived(t, d) = 0
       /\ Busy(t, d) = 1 /\ Replying(t, d) = 0 /\ Replied(t, d) = 0
  <2>1. Busy(t, d) > 0
    BY <1>7
  <2>2. Load(t, d) > 0 /\ Load(t, d) = 1 /\ pc[t] = "spin"
    BY <1>5, <2>1, UnderWay
  <2> QED BY <1>1, <1>5, <2>1, <2>2, OnlyOne DEF At
<1>12. /\ Asked(t, d)' = 0 /\ Asking(t, d)' = 0 /\ Arrived(t, d)' = 0
       /\ Busy(t, d)' = 0 /\ Replying(t, d)' = 1 /\ Replied(t, d)' = 0
  <2>1. StillOnWire(t, d) /\ StillArrived(t, d)
    BY <1>5, <1>8
  <2> QED BY <1>6, <1>7, <1>11, <2>1 DEF StillOnWire, StillArrived
<1>13. Load(t, d)' = 1
  BY <1>12 DEF Load
<1>14. ASSUME Carried(t, d) PROVE Carried(t, d)'
  <2>1. replyTask[d] = task[t]
    BY <1>3, <1>11, <1>14 DEF Carried
  <2>2. There(t, d)' = Response(task'[t])
    BY <1>3, <1>9, <2>1 DEF There
  <2>3. pc'[t] # "post"
    BY <1>3, <1>11
  <2>4. Answered(t)'
    <3>1. executed'[Row(t)].last = replyTask[d]
      BY <1>1, <1>2, ReplyAnswers
    <3> QED BY <1>3, <2>1, <3>1 DEF Answered, Row
  <2> QED BY <1>12, <2>2, <2>3, <2>4 DEF Carried
<1>15. \A u \in Threads : Kept(u)
  BY <1>5, <1>9, <1>10, <1>11, <1>13, <1>14, MoveKeeps
<1>16. \A q \in Pairs : Held(q)' = Held(q)
  <2>1. \A e \in Servers : wpc'[e] = "poll" <=> wpc[e] = "poll"
    BY <1>1, <1>3 DEF Typed
  <2> QED BY <1>3, <2>1, HeldSteady
<1> QED BY <1>1, <1>15, <1>16, AccountKept DEF IInv, Holds

\* A step that moves no call and changes no cell.
LEMMA NoMove ==
  ASSUME IInv, \A u \in Threads : \A e \in Servers \ {Home[u]} : Still(u, e),
         UNCHANGED <<mem, pc, dest, task, answer, overwritten, executed>>
  PROVE  \A u \in Threads : Kept(u)
<1> SUFFICES ASSUME NEW u \in Threads PROVE Kept(u)
  OBVIOUS
<1>1. /\ Typed /\ Local(u) /\ SameCall(u) /\ SameAnswered(u)
      /\ Undisturbed(u)' => Undisturbed(u)
  BY DEF IInv, SameCall, SameAnswered, Undisturbed, Row
<1>2. SameCells(u) /\ Here(u)' = Here(u)
  BY MemSame
<1> QED BY <1>1, <1>2, Frame

LEMMA RepostKeeps ==
  ASSUME IInv, NEW d \in Servers, Repost(d)
  PROVE  Holds
<1>1. Typed
  BY DEF IInv
<1>2. PICK t \in Threads :
        Home[t] # d /\ serving[d] = Row(t) /\ Served(d) = MySlot(t)
  BY <1>1, ServedThread DEF Repost, WorkerGoTo
<1>3. /\ wpc[d] = "repost" /\ wpc' = [wpc EXCEPT ![d] = "poll"]
      /\ receives' = [receives EXCEPT ![<<Home[t], d>>] = @ + 1]
      /\ serving' = serving /\ replyTask' = replyTask
      /\ UNCHANGED <<mem, cq, sendq, wire>>
      /\ UNCHANGED <<pc, dest, task, answer, overwritten, executed>>
  BY <1>2 DEF Repost, WorkerGoTo, Row, callVars, clientVars
<1>4. wpc'[d] = "poll" /\ OnlyWorker(d) /\ d \in Servers \ {Home[t]}
  BY <1>1, <1>2, <1>3 DEF Typed, OnlyWorker
<1>5. \A u \in Threads : \A e \in Servers \ {Home[u]} : StillServed(u, e)
  <2>1. /\ Busy(t, d) = IF wpc[d] \in Handling THEN 1 ELSE 0
        /\ Busy(t, d)' = IF wpc'[d] \in Handling THEN 1 ELSE 0
        /\ \A u \in Threads : \A e \in Servers \ {Home[u]} :
             <<u, e>> # <<t, d>> => StillServed(u, e)
    BY <1>2, <1>3, <1>4, WorkerMoves
  <2>2. Busy(t, d) = 0 /\ Busy(t, d)' = 0
    BY <1>3, <1>4, <2>1 DEF Handling
  <2>3. StillServed(t, d)
    BY <2>2 DEF StillServed
  <2> QED BY <2>1, <2>3
<1>6. \A u \in Threads : \A e \in Servers \ {Home[u]} : Still(u, e)
  BY <1>3, <1>5, Steady DEF Still
<1>7. \A u \in Threads : Kept(u)
  BY <1>3, <1>6, NoMove
<1>8. ASSUME NEW p \in Pairs PROVE Held(p)' = Held(p)
  <2>1. PICK e \in Servers : p[2] = e /\ p = <<p[1], e>>
    BY DEF Pairs
  <2>2. <<Home[t], d>> \in Pairs /\ receives[p] \in Nat /\ DOMAIN receives = Pairs
    BY <1>1, <1>4, PairOf DEF Typed
  <2>3. PICK m \in Nat : Matches(cq[e], {p[1]} \X Offsets) = m
    <3>1. cq[e] \in Seq(Callers(e))
      BY <1>1 DEF Typed
    <3> QED BY <3>1, MatchesType
  <2>4. CASE e # d
    <3>1. receives'[p] = receives[p] /\ wpc'[e] = wpc[e]
      BY <1>1, <1>3, <2>1, <2>2, <2>4 DEF Typed
    <3> QED BY <1>3, <2>1, <3>1 DEF Held
  <2>5. CASE e = d /\ p[1] = Home[t]
    <3>1. receives'[p] = receives[p] + 1
      BY <1>3, <2>1, <2>2, <2>5
    <3>2. Held(p) = receives[p] + m + 1
      BY <1>2, <1>3, <2>1, <2>3, <2>5 DEF Held, Row
    <3>3. Held(p)' = receives'[p] + m + 0
      BY <1>3, <1>4, <2>1, <2>3, <2>5 DEF Held
    <3> QED BY <2>2, <3>1, <3>2, <3>3
  <2>6. CASE e = d /\ p[1] # Home[t]
    <3>1. receives'[p] = receives[p] /\ serving[d][1] # p[1]
      BY <1>2, <1>3, <2>1, <2>2, <2>6 DEF Row
    <3> QED BY <1>3, <2>1, <2>6, <3>1 DEF Held
  <2> QED BY <2>4, <2>5, <2>6
<1> QED BY <1>1, <1>7, <1>8, AccountKept DEF IInv, Holds

LEMMA RequestPollerKeeps ==
  ASSUME IInv, NEW d \in Servers, RequestPoller(d)
  PROVE  Holds
<1>1. Typed
  BY DEF IInv
<1>2. cq[d] \in Seq(Callers(d)) /\ cq[d] # <<>> /\ Head(cq[d]) \in Callers(d)
  BY <1>1 DEF RequestPoller, Typed
<1>3. PICK t \in Threads : Home[t] # d /\ Head(cq[d]) = Row(t)
  BY <1>2 DEF Callers
<1>4. Fetches(d, Row(t))
  BY <1>2, <1>3 DEF RequestPoller, Fetches
<1>5. \A u \in Threads : Kept(u)
  BY <1>3, <1>4, PollRequest
<1>6. /\ wpc[d] = "poll" /\ wpc' = [wpc EXCEPT ![d] = "build"]
      /\ serving' = [serving EXCEPT ![d] = Row(t)]
      /\ cq' = [cq EXCEPT ![d] = Tail(@)] /\ receives' = receives
  BY <1>3 DEF RequestPoller, WorkerGoTo, netVars
<1>7. ASSUME NEW p \in Pairs PROVE Held(p)' = Held(p)
  <2>1. PICK e \in Servers : p[2] = e
    BY DEF Pairs
  <2>2. CASE e # d
    <3>1. cq'[e] = cq[e] /\ wpc'[e] = wpc[e] /\ serving'[e] = serving[e]
      BY <1>1, <1>6, <2>2 DEF Typed
    <3> QED BY <1>6, <2>1, <3>1 DEF Held
  <2>3. CASE e = d
    <3>1. cq'[e] = Tail(cq[e]) /\ wpc'[e] = "build" /\ serving'[e] = Row(t)
      BY <1>1, <1>6, <2>3 DEF Typed
    <3>2. Matches(cq[e], {p[1]} \X Offsets)
            = Matches(Tail(cq[e]), {p[1]} \X Offsets)
                + (IF Head(cq[e]) \in {p[1]} \X Offsets THEN 1 ELSE 0)
      BY <1>2, <2>3, MatchesTail
    <3>3. Head(cq[e]) \in {p[1]} \X Offsets <=> Home[t] = p[1]
      BY <1>3, <2>3, RowIsImm DEF Row
    <3>4. PICK n \in Nat, r \in Nat :
            /\ Matches(Tail(cq[e]), {p[1]} \X Offsets) = n /\ receives[p] = r
      <4>1. Tail(cq[e]) \in Seq(Callers(e)) /\ receives[p] \in Nat
        BY <1>1, <1>2, <2>3 DEF Typed
      <4> QED BY <4>1, MatchesType
    <3>5. Held(p) = r + (n + (IF Home[t] = p[1] THEN 1 ELSE 0)) + 0
      BY <1>6, <2>1, <2>3, <3>2, <3>3, <3>4 DEF Held
    <3>6. Held(p)' = r + n + (IF Home[t] = p[1] THEN 1 ELSE 0)
      BY <1>6, <2>1, <3>1, <3>4 DEF Held, Row
    <3> QED BY <3>5, <3>6
  <2> QED BY <2>2, <2>3
<1> QED BY <1>1, <1>5, <1>7, AccountKept DEF IInv, Holds

-----------------------------------------------------------------------------
(***************************************************************************)
(* The steps of the adapters and of the clients.                           *)
(***************************************************************************)

LEMMA TransmitKeeps ==
  ASSUME IInv, NEW p \in Pairs, Transmit(p)
  PROVE  Holds
<1>1. Typed
  BY DEF IInv
<1>2. /\ UNCHANGED <<mem, receives, cq, wpc, serving, replyTask>>
      /\ UNCHANGED <<pc, dest, task, answer, overwritten, executed>>
  BY DEF Transmit, callVars, workerVars, clientVars
<1>3. PICK w : /\ w = Head(sendq[p]) /\ Reads(p, w)
               /\ Sends(p, [what |-> mem[p[1]][w.from], to |-> w.to, imm |-> w.imm])
  BY DEF Transmit, Reads, Sends
<1>4. w \in Writes(p)
  BY <1>1, <1>3 DEF Typed, Reads
<1>5. p[1] \in Servers /\ p[2] \in Servers /\ p = <<p[1], p[2]>> /\ p[1] # p[2]
  BY DEF Pairs
<1>6. \A u \in Threads : Kept(u)
  <2>1. CASE \E t \in ThreadsOf(p[1]) : w = RequestWrite(t, p[2])
    <3>1. PICK t \in Threads : Home[t] = p[1] /\ w = RequestWrite(t, p[2])
      BY <2>1 DEF ThreadsOf
    <3>2. PICK d \in Servers \ {Home[t]} : d = p[2]
      BY <1>5, <3>1
    <3>3. PICK x : x = [what |-> Prepared(t, d), to |-> MySlot(t), imm |-> Row(t)]
      OBVIOUS
    <3>4. /\ w.from = ServerSendAddress(d, Slot[t]) /\ w.to = MySlot(t)
          /\ w.imm = Row(t)
      BY <3>1, <3>2 DEF RequestWrite
    <3>5. Sends(p, x)
      BY <1>3, <3>1, <3>3, <3>4 DEF Prepared
    <3>6. p = <<Home[t], d>> /\ w = RequestWrite(t, d)
      BY <1>5, <3>1, <3>2
    <3> QED BY <1>2, <1>3, <3>3, <3>5, <3>6, TransmitRequest
  <2>2. CASE \E t \in ThreadsOf(p[2]) : w = ReplyWrite(t)
    <3>1. PICK t \in Threads : Home[t] = p[2] /\ w = ReplyWrite(t)
      BY <2>2 DEF ThreadsOf
    <3>2. PICK d \in Servers \ {Home[t]} : d = p[1]
      BY <1>5, <3>1
    <3>3. PICK x : x = [what |-> There(t, d), to |-> MySlot(t), imm |-> NoImm]
      OBVIOUS
    <3>4. w.from = MySlot(t) /\ w.to = MySlot(t) /\ w.imm = NoImm
      BY <3>1 DEF ReplyWrite
    <3>5. Sends(p, x)
      BY <1>3, <3>2, <3>3, <3>4 DEF There
    <3>6. p = <<d, Home[t]>>
      BY <1>5, <3>1, <3>2
    <3> QED BY <1>2, <1>3, <3>1, <3>3, <3>5, <3>6, TransmitReply
  <2> QED BY <1>4, <2>1, <2>2 DEF Writes
<1>7. \A q \in Pairs : Held(q)' = Held(q)
  BY <1>2, HeldSteady
<1> QED BY <1>1, <1>6, <1>7, AccountKept DEF IInv, Holds

LEMMA PlaceKeeps ==
  ASSUME IInv, NEW p \in Pairs, Place(p)
  PROVE  Holds
<1>1. Typed
  BY DEF IInv
<1>2. /\ UNCHANGED <<sendq, wpc, serving, replyTask>>
      /\ UNCHANGED <<pc, dest, task, answer, overwritten, executed>>
  BY DEF Place, callVars, clientVars
<1>3. PICK x : x = Head(wire[p]) /\ Delivers(p, x)
  BY DEF Place, Delivers
<1>4. /\ Store(p[2], x.to, x.what)
      /\ x.imm = NoImm => receives' = receives /\ cq' = cq
      /\ x.imm # NoImm =>
           /\ receives[p] > 0 /\ receives' = [receives EXCEPT ![p] = @ - 1]
           /\ Reports(p[2], x.imm)
  BY <1>3 DEF Place, Reports
<1>5. x \in Packets(p)
  BY <1>1, <1>3 DEF Typed, Delivers
<1>6. p[1] \in Servers /\ p[2] \in Servers /\ p = <<p[1], p[2]>> /\ p[1] # p[2]
  BY DEF Pairs
<1>7. CASE \E t \in ThreadsOf(p[1]) : x \in RequestPackets(t)
  <2>1. PICK t \in Threads : Home[t] = p[1] /\ x \in RequestPackets(t)
    BY <1>7 DEF ThreadsOf
  <2>2. PICK d \in Servers \ {Home[t]} : d = p[2]
    BY <1>6, <2>1
  <2>3. x.to = MySlot(t) /\ x.imm = Row(t) /\ x.imm # NoImm
    BY <2>1, RowIsImm DEF RequestPackets
  <2>4. p = <<Home[t], d>>
    BY <1>6, <2>1, <2>2
  <2>5. Store(d, MySlot(t), x.what) /\ Reports(d, Row(t))
    BY <1>4, <2>2, <2>3
  <2>6. \A u \in Threads : Kept(u)
    BY <1>2, <1>3, <2>1, <2>4, <2>5, PlaceRequest
  <2>7. ASSUME NEW q \in Pairs PROVE Held(q)' = Held(q)
    <3>1. PICK e \in Servers : q[2] = e /\ q = <<q[1], e>>
      BY DEF Pairs
    <3>2. /\ receives[q] \in Nat /\ receives[p] > 0 /\ cq[e] \in Seq(Callers(e))
          /\ receives'[q] = IF q = p THEN receives[q] - 1 ELSE receives[q]
      BY <1>1, <1>4, <2>3 DEF Typed
    <3>3. PICK m \in Nat : Matches(cq[e], {q[1]} \X Offsets) = m
      BY <3>2, MatchesType
    <3>4. Matches(cq'[e], {q[1]} \X Offsets) = m + (IF q = p THEN 1 ELSE 0)
      <4>1. CASE e # d
        <5>1. cq'[e] = cq[e] /\ q # p
          BY <1>1, <2>2, <2>5, <3>1, <4>1 DEF Typed, Reports
        <5> QED BY <3>3, <5>1
      <4>2. CASE e = d
        <5>1. cq'[e] = Append(cq[e], Row(t)) /\ Row(t) \in Callers(e)
          BY <1>1, <2>2, <2>5, <4>2 DEF Typed, Reports, Callers
        <5>2. Matches(Append(cq[e], Row(t)), {q[1]} \X Offsets)
                = m + (IF Row(t) \in {q[1]} \X Offsets THEN 1 ELSE 0)
          BY <3>2, <3>3, <5>1, MatchesAppend
        <5>3. Row(t) \in {q[1]} \X Offsets <=> q = p
          BY <2>4, <3>1, <4>2, RowIsImm DEF Row
        <5> QED BY <5>1, <5>2, <5>3
      <4> QED BY <4>1, <4>2
    <3>5. PICK b \in Nat : b = IF wpc[e] # "poll" /\ serving[e][1] = q[1] THEN 1 ELSE 0
      OBVIOUS
    <3>6. Held(q) = receives[q] + m + b
      BY <3>1, <3>3, <3>5 DEF Held
    <3>7. Held(q)' = receives'[q] + (m + (IF q = p THEN 1 ELSE 0)) + b
      BY <1>2, <3>1, <3>4, <3>5 DEF Held
    <3> QED BY <3>2, <3>6, <3>7
  <2> QED BY <1>1, <2>6, <2>7, AccountKept DEF IInv, Holds
<1>8. CASE \E t \in ThreadsOf(p[2]) : x \in ReplyPackets(t)
  <2>1. PICK t \in Threads : Home[t] = p[2] /\ x \in ReplyPackets(t)
    BY <1>8 DEF ThreadsOf
  <2>2. PICK d \in Servers \ {Home[t]} : d = p[1]
    BY <1>6, <2>1
  <2>3. x.to = MySlot(t) /\ x.imm = NoImm
    BY <2>1 DEF ReplyPackets
  <2>4. p = <<d, Home[t]>>
    BY <1>6, <2>1, <2>2
  <2>5. /\ Store(Home[t], MySlot(t), x.what) /\ receives' = receives /\ cq' = cq
    BY <1>4, <2>1, <2>3
  <2>6. \A u \in Threads : Kept(u)
    BY <1>2, <1>3, <2>1, <2>4, <2>5, PlaceReply
  <2>7. \A q \in Pairs : Held(q)' = Held(q)
    BY <1>2, <2>5, HeldSteady
  <2> QED BY <1>1, <2>6, <2>7, AccountKept DEF IInv, Holds
<1> QED BY <1>5, <1>7, <1>8 DEF Packets

\* What is stored for a client changes no cell of the call of a thread that is not
\* overwritten.
LEMMA ClientKeeps ==
  ASSUME IInv, NEW s \in Servers, NEW a, NEW c, ClientStore(s, a, c),
         c.msg # "RESPONSE" \/ \A u \in Threads : a # MySlot(u),
         UNCHANGED <<pc, dest, task, answer, executed>>,
         UNCHANGED <<sendq, wire, receives, cq, wpc, serving, replyTask>>
  PROVE  Holds
<1>1. Typed
  BY DEF IInv
<1>2. /\ \A r \in Servers, b \in Cells : r # s \/ b # a => mem'[r][b] = mem[r][b]
      /\ \A r \in Servers, b \in Cells : mem'[r][b] = mem[r][b] \/ mem'[r][b] = c
  <2>1. mem \in [Servers -> [Cells -> Content]]
    BY <1>1 DEF Typed
  <2>2. \A r \in Servers : mem'[r] = IF r = s THEN [mem[r] EXCEPT ![a] = c] ELSE mem[r]
    BY <2>1 DEF ClientStore, Store
  <2>3. \A r \in Servers : mem[r] \in [Cells -> Content]
    BY <2>1
  <2>4. ASSUME NEW r \in Servers, NEW b \in Cells
        PROVE  mem'[r][b] = IF r = s /\ b = a THEN c ELSE mem[r][b]
    BY <2>2, <2>3
  <2> QED BY <2>4
<1>3. ASSUME NEW u \in Threads PROVE Kept(u)
  <2>1. Home[u] \in Servers /\ MySlot(u) \in Cells
    BY Addresses, RpcAssumption DEF RpcAssumption
  <2>2. \A d \in Servers : ServerSendAddress(d, Slot[u]) \in Cells
    BY Addresses
  <2>3. ASSUME Undisturbed(u)' PROVE Undisturbed(u) /\ SameCells(u)
    <3>1. u \notin overwritten /\ (pc[u] # "idle" => <<s, a>> \notin CallCells(u))
      BY <2>3 DEF Undisturbed, ClientStore
    <3>2. ASSUME pc[u] # "idle", NEW d \in Servers, d = dest[u]
          PROVE  /\ s # Home[u] \/ (a # MySlot(u) /\ a # ServerSendAddress(d, Slot[u]))
                 /\ s # d \/ a # MySlot(u)
      BY <3>1, <3>2 DEF CallCells
    <3>3. ASSUME pc[u] # "idle", NEW d \in Servers, d = dest[u]
          PROVE  /\ Here(u)' = Here(u) /\ There(u, d)' = There(u, d)
                 /\ Prepared(u, d)' = Prepared(u, d)
      BY <1>2, <2>1, <2>2, <3>2, <3>3 DEF Here, There, Prepared
    <3> QED BY <3>1, <3>3 DEF SameCells, Undisturbed
  <2>4. Here(u)'.msg = "RESPONSE" => Here(u).msg = "RESPONSE"
    <3>1. CASE a = MySlot(u)
      <4>1. Here(u)' = Here(u) \/ Here(u)' = c
        BY <1>2, <2>1 DEF Here
      <4> QED BY <3>1, <4>1
    <3>2. CASE a # MySlot(u)
      BY <1>2, <2>1, <3>2 DEF Here
    <3> QED BY <3>1, <3>2
  <2>5. Local(u) /\ SameCall(u) /\ SameAnswered(u)
    BY DEF IInv, SameCall, SameAnswered, Row
  <2>6. \A e \in Servers \ {Home[u]} : Still(u, e)
    BY AllStill
  <2> QED BY <1>1, <2>3, <2>4, <2>5, <2>6, Frame
<1>4. \A q \in Pairs : Held(q)' = Held(q)
  BY HeldSteady
<1> QED BY <1>1, <1>3, <1>4, AccountKept DEF IInv, Holds

\* With cells that hold a message, a slot is as far into its pool as its number.
LEMMA SlotNumber ==
  ASSUME NEW n \in Servers, NEW o \in Offsets
  PROVE  /\ SlotOffset(n, o) = (n - 1) * ServerMessageNum + o
         /\ (n - 1) * ServerMessageNum \in Nat
<1>1. n - 1 \in Nat /\ o \in Nat /\ ServerMessageNum \in Nat /\ MessageSize = 1
  BY LayoutAssumption, RpcAssumption DEF Servers, Offsets, RpcAssumption
<1>2. (n - 1) * MessageSize = n - 1 /\ o * MessageSize = o
  BY <1>1
<1> QED BY <1>1, <1>2, MulClosed DEF SlotOffset

\* No client writes into more of the send pool than LostSlots counts.
LEMMA LostSlotsFacts ==
  /\ LostSlots \in Nat
  /\ \A n \in ClientIDs : n - ServerCount - MaxClientNumber <= LostSlots
<1> DEFINE f == [n \in ClientIDs |-> n - ServerCount - MaxClientNumber]
           V == {n - ServerCount - MaxClientNumber : n \in ClientIDs}
           S == {0} \cup V
<1>1. IsFiniteSet(ClientIDs) /\ \A n \in ClientIDs : n \in Nat
  BY RpcAssumption DEF RpcAssumption
<1>2. ServerCount \in Nat /\ MaxClientNumber \in Nat
  BY LayoutAssumption
<1>3. V \subseteq Int
  BY <1>1, <1>2
<1>4. IsFiniteSet(V)
  <2>1. f \in Surjection(ClientIDs, V)
    BY DEF Surjection
  <2> QED BY <1>1, <2>1, FS_Surjection
<1> HIDE DEF f, V
<1>5. S \cap Nat # {} /\ IsFiniteSet(S \cap Nat) /\ S \cap Nat \in SUBSET Nat
  <2>1. IsFiniteSet(S)
    BY <1>4, FS_Singleton, FS_Union
  <2> QED BY <2>1, FS_Subset
<1>6. PICK m \in S \cap Nat : \A y \in S \cap Nat : y <= m
  BY <1>5, LargestElement
<1>7. m \in S /\ m \in Nat /\ \A y \in S : m >= y
  BY <1>3, <1>6
<1>8. Max(S) \in S /\ \A y \in S : Max(S) >= y
  BY <1>7 DEF Max
<1>9. LostSlots = Max(S)
  BY DEF LostSlots, V
<1>10. Max(S) \in Nat
  <2>1. 0 \in S /\ S \subseteq Int
    BY <1>3
  <2>2. Max(S) >= 0 /\ Max(S) \in Int
    BY <1>8, <2>1
  <2> QED BY <2>2
<1>11. \A n \in ClientIDs : n - ServerCount - MaxClientNumber \in S
  BY DEF V
<1>12. \A n \in ClientIDs : n - ServerCount - MaxClientNumber \in Int
  BY <1>1, <1>2
<1> QED BY <1>8, <1>9, <1>10, <1>11, <1>12

\* A mailbox is no slot of a call, if it is one of the first MAX_CLIENT_NUMBER, or
\* if the slots of the thread are its own.
LEMMA MailboxAway ==
  ASSUME NEW n \in ClientIDs, NEW u \in Threads, NEW d \in Servers \ {Home[u]},
         n <= ServerCount + MaxClientNumber \/ Safe(u)
  PROVE  /\ ClientMessageAddress(n) # MySlot(u)
         /\ ClientMessageAddress(n) # ServerSendAddress(d, Slot[u])
<1>1. n \in Nat /\ n > ServerCount /\ ServerCount \in Nat /\ MaxClientNumber \in Nat
      /\ MessageSize = 1
  BY LayoutAssumption, RpcAssumption DEF RpcAssumption
<1>2. PICK a \in Nat : a = ClientMessageAddress(n) /\ a = n - ServerCount - 1
  BY <1>1 DEF ClientMessageAddress
<1>3. ServerSendBaseAddress = MaxClientNumber
  BY <1>1 DEF ServerSendBaseAddress
<1>4. PICK m \in Nat, x \in Nat, r \in Nat :
        /\ m = MySlot(u) /\ x = ServerSendAddress(d, Slot[u])
        /\ r = ServerRecvBaseAddress
        /\ MaxClientNumber <= x /\ x < r /\ r <= m
  BY <1>3, Addresses DEF Cells
<1>5. CASE n <= ServerCount + MaxClientNumber
  <2>1. a < MaxClientNumber
    BY <1>1, <1>2, <1>5
  <2> QED BY <1>1, <1>2, <1>4, <2>1
<1>6. CASE n > ServerCount + MaxClientNumber
  <2>1. Safe(u)
    BY <1>1, <1>6
  <2>2. PICK k \in Nat : k = n - ServerCount - MaxClientNumber /\ k <= LostSlots
                         /\ a = MaxClientNumber + k - 1 /\ k > 0
    <3>1. n - ServerCount - MaxClientNumber \in Nat
      BY <1>1, <1>6
    <3>2. n - ServerCount - MaxClientNumber <= LostSlots
      BY LostSlotsFacts
    <3> QED BY <1>1, <1>2, <1>6, <3>1, <3>2
  <2>3. /\ x = MaxClientNumber + SlotOffset(d, Slot[u])
        /\ SlotOffset(d, Slot[u]) = (d - 1) * ServerMessageNum + Slot[u]
        /\ SlotOffset(d, Slot[u]) \in Nat
    BY <1>3, <1>4, Addresses, SlotNumber, SlotInPool DEF ServerSendAddress
  <2>4. SlotOffset(d, Slot[u]) >= LostSlots
    BY <2>1, <2>3 DEF Safe
  <2>5. a < x
    <3>1. PICK o \in Nat : o = SlotOffset(d, Slot[u])
      BY <2>3
    <3> QED BY <1>1, <2>2, <2>3, <2>4, <3>1, LostSlotsFacts
  <2> QED BY <1>2, <1>4, <2>5
<1> QED BY <1>1, <1>5, <1>6

\* No mailbox begins where a thread waits for an answer.
LEMMA MailboxBefore ==
  ASSUME NEW n \in ClientIDs, NEW u \in Threads
  PROVE  ClientMessageAddress(n) # MySlot(u)
<1>1. n \in Nat /\ n > ServerCount /\ ServerCount \in Nat /\ MessageSize = 1
      /\ ClientMessageAddress(n) < ServerRecvBaseAddress
  BY LayoutAssumption, RpcAssumption DEF RpcAssumption
<1>2. PICK a \in Nat : a = ClientMessageAddress(n)
  BY <1>1 DEF ClientMessageAddress
<1>3. PICK m \in Nat, r \in Nat :
        m = MySlot(u) /\ r = ServerRecvBaseAddress /\ r <= m
  <2>1. Home[u] \in Servers
    BY RpcAssumption DEF RpcAssumption
  <2> QED BY <2>1, Addresses DEF Cells
<1> QED BY <1>1, <1>2, <1>3

\* The data area is behind the slots of a thread whose slots are its own.
LEMMA DataAway ==
  ASSUME NEW i \in 0..(DataSize - 1), NEW u \in Threads, Safe(u), NEW d \in Servers
  PROVE  /\ DmfsDataOffset + i # MySlot(u)
         /\ DmfsDataOffset + i # ServerSendAddress(d, Slot[u])
<1>1. PICK a : a = DmfsDataOffset + i
  OBVIOUS
<1>2. PICK m \in Nat, x \in Nat, r \in Nat :
        /\ m = MySlot(u) /\ x = ServerSendAddress(d, Slot[u])
        /\ r = ServerRecvBaseAddress /\ x < r /\ r <= m
  BY Addresses DEF Cells
<1>3. MessageSize = 1 /\ MetadataSize \in Nat /\ i \in Nat
  BY LayoutAssumption, RpcAssumption DEF RpcAssumption
<1>4. SlotsBeforeData = MetadataSize
  BY <1>3 DEF SlotsBeforeData
<1>5. PICK o \in Nat : o = SlotOffset(Home[u], Slot[u]) /\ o < MetadataSize
  <2>1. /\ SlotOffset(Home[u], Slot[u])
             = (Home[u] - 1) * ServerMessageNum + Slot[u]
        /\ SlotOffset(Home[u], Slot[u]) \in Nat
    BY Addresses, SlotNumber, SlotInPool
  <2> QED BY <1>4, <2>1 DEF Safe
<1>6. m = r + o /\ a = (r + MetadataSize) + i
  BY <1>1, <1>2, <1>5, DataArea DEF MySlot, ServerRecvAddress, DataBaseAddress
<1> QED BY <1>1, <1>2, <1>3, <1>5, <1>6

LEMMA ClientWriteKeeps ==
  ASSUME IInv, NEW s \in Servers, NEW n \in ClientIDs, ClientWrite(s, n)
  PROVE  Holds
<1>1. /\ ClientStore(s, ClientMessageAddress(n), Request(0))
      /\ UNCHANGED <<pc, dest, task, answer, executed>>
      /\ UNCHANGED <<sendq, wire, receives, cq, wpc, serving, replyTask>>
  BY DEF ClientWrite, callVars, netVars, workerVars
<1>2. Request(0).msg # "RESPONSE"
  BY DEF Request
<1> QED BY <1>1, <1>2, ClientKeeps

LEMMA ClientReplyKeeps ==
  ASSUME IInv, NEW s \in Servers, NEW n \in ClientIDs, ClientReply(s, n)
  PROVE  Holds
<1>1. /\ UNCHANGED <<pc, dest, task, answer, executed>>
      /\ UNCHANGED <<sendq, wire, receives, cq, wpc, serving, replyTask>>
  BY DEF ClientReply, callVars, netVars, workerVars
<1>2. CASE ClientStore(s, ClientMessageAddress(n), Response(0))
  BY <1>1, <1>2, MailboxBefore, ClientKeeps
<1>3. CASE UNCHANGED <<mem, overwritten>>
  <2>1. \A u \in Threads : Kept(u)
    BY <1>1, <1>3, AllStill, NoMove
  <2>2. \A p \in Pairs : Held(p)' = Held(p)
    BY <1>1, HeldSteady
  <2> QED BY <2>1, <2>2, AccountKept DEF IInv, Holds
<1> QED BY <1>2, <1>3 DEF ClientReply

LEMMA DataWriteKeeps ==
  ASSUME IInv, NEW s \in Servers, NEW i \in 0..(DataSize - 1), DataWrite(s, i)
  PROVE  Holds
<1>1. /\ ClientStore(s, DmfsDataOffset + i, Data)
      /\ UNCHANGED <<pc, dest, task, answer, executed>>
      /\ UNCHANGED <<sendq, wire, receives, cq, wpc, serving, replyTask>>
  BY DEF DataWrite, callVars, netVars, workerVars
<1>2. Data.msg # "RESPONSE"
  BY DEF Data
<1> QED BY <1>1, <1>2, ClientKeeps

-----------------------------------------------------------------------------
(***************************************************************************)
(* The types.                                                              *)
(***************************************************************************)

LEMMA StoreTyped ==
  ASSUME Typed, NEW s \in Servers, NEW a, NEW c \in Content, Store(s, a, c)
  PROVE  mem' \in [Servers -> [Cells -> Content]]
BY DEF Typed, Store

LEMMA MessageTypes ==
  /\ Data \in Content
  /\ \A k \in Nat : Request(k) \in Content /\ Response(k) \in Content
BY DEF Data, Content, Request, Response

LEMMA CallTyped ==
  ASSUME Typed, NEW t \in Threads, NEW d \in Servers, Call(t, d)
  PROVE  Typed'
<1>1. Home[t] \in Servers /\ taskID[Home[t]] \in Nat
  BY RpcAssumption DEF RpcAssumption, Typed
<1>2. /\ pc' = [pc EXCEPT ![t] = "post"] /\ dest' = [dest EXCEPT ![t] = d]
      /\ task' = [task EXCEPT ![t] = taskID[Home[t]]]
      /\ taskID' = [taskID EXCEPT ![Home[t]] = @ + 1]
      /\ UNCHANGED <<answer, sendq, wire, receives, cq, wpc, serving, replyTask>>
      /\ UNCHANGED <<asked, writes, foreign, overwritten, executed>>
  BY DEF Call, GoTo, netVars, workerVars, clientVars
<1>3. mem' \in [Servers -> [Cells -> Content]]
  <2>1. PICK s \in Servers, a \in Cells, c \in Cells, k \in Content :
          /\ s = Home[t] /\ a = MySlot(t) /\ c = ServerSendAddress(d, Slot[t])
          /\ k = Request(taskID[Home[t]])
    BY <1>1, Addresses, MessageTypes
  <2>2. mem' = [mem EXCEPT ![s][a].msg = "INVALID", ![s][c] = k]
    BY <2>1 DEF Call
  <2>3. mem \in [Servers -> [Cells -> Content]]
    BY DEF Typed
  <2>4. PICK x \in Content : x = [mem[s][a] EXCEPT !.msg = "INVALID"]
    <3>1. mem[s][a] \in Content
      BY <2>1, <2>3
    <3>2. \A y \in Content : [y EXCEPT !.msg = "INVALID"] \in Content
      BY DEF Content
    <3> QED BY <3>1, <3>2
  <2>5. mem' = [mem EXCEPT ![s] = [mem[s] EXCEPT ![a] = x, ![c] = k]]
    BY <2>2, <2>3, <2>4
  <2>6. [mem[s] EXCEPT ![a] = x, ![c] = k] \in [Cells -> Content]
    BY <2>3
  <2> QED BY <2>3, <2>5, <2>6
<1>4. /\ pc' \in [Threads -> {"idle", "post", "spin", "copy"}]
      /\ dest' \in [Threads -> Servers] /\ task' \in [Threads -> Nat]
      /\ taskID' \in [Servers -> Nat]
  <2>1. /\ pc \in [Threads -> {"idle", "post", "spin", "copy"}]
        /\ dest \in [Threads -> Servers] /\ task \in [Threads -> Nat]
        /\ taskID \in [Servers -> Nat]
    BY DEF Typed
  <2>2. /\ pc' = [pc EXCEPT ![t] = "post"] /\ dest' = [dest EXCEPT ![t] = d]
        /\ task' = [task EXCEPT ![t] = taskID[Home[t]]]
        /\ taskID' = [taskID EXCEPT ![Home[t]] = @ + 1]
    BY <1>2
  <2> QED BY <1>1, <2>1, <2>2
<1> QED BY <1>2, <1>3, <1>4 DEF Typed

LEMMA PostTyped ==
  ASSUME IInv, NEW t \in Threads, Post(t)
  PROVE  Typed'
<1>1. Typed /\ Local(t)
  BY DEF IInv
<1>2. /\ pc[t] = "post" /\ pc' = [pc EXCEPT ![t] = "spin"]
      /\ UNCHANGED <<mem, dest, task, answer, taskID, wire, receives, cq, wpc>>
      /\ UNCHANGED <<serving, replyTask, asked, writes, foreign, overwritten>>
      /\ executed' = executed
  BY DEF Post, GoTo, workerVars, clientVars
<1>3. PICK d \in Servers \ {Home[t]} : dest[t] = d
  BY <1>1, <1>2 DEF Typed, Local
<1>4. PICK p \in Pairs :
        \E w \in Writes(p) : sendq' = [sendq EXCEPT ![p] = Append(@, w)]
  <2>1. RequestWrite(t, d) \in Writes(<<Home[t], d>>) /\ <<Home[t], d>> \in Pairs
    BY PairOf DEF Writes, ThreadsOf
  <2> QED BY <1>3, <2>1 DEF Post, BatchWrite, RequestWrite, Row
<1>5. DOMAIN sendq' = Pairs /\ \A q \in Pairs : sendq'[q] \in Seq(Writes(q))
  BY <1>1, <1>4 DEF Typed
<1> QED BY <1>1, <1>2, <1>5 DEF Typed

LEMMA SeeResponseTyped ==
  ASSUME Typed, NEW t \in Threads, SeeResponse(t)
  PROVE  Typed'
<1>1. pc' = [pc EXCEPT ![t] = "copy"]
  BY DEF SeeResponse, GoTo
<1> QED BY <1>1 DEF SeeResponse, netVars, workerVars, clientVars, Typed

LEMMA ReturnTyped ==
  ASSUME Typed, NEW t \in Threads, Return(t)
  PROVE  Typed'
<1>1. /\ pc' = [pc EXCEPT ![t] = "idle"] /\ answer' = [answer EXCEPT ![t] = Here(t)]
  BY DEF Return, GoTo, Here
<1>2. Here(t) \in Content
  <2>1. Home[t] \in Servers
    BY RpcAssumption DEF RpcAssumption
  <2> QED BY <2>1, CellTypes
<1>3. answer' \in [Threads -> Content]
  <2>1. PICK x \in Content : x = Here(t)
    BY <1>2
  <2> QED BY <1>1, <2>1 DEF Typed
<1> QED BY <1>1, <1>3 DEF Return, netVars, workerVars, clientVars, Typed

LEMMA TransmitTyped ==
  ASSUME Typed, NEW p \in Pairs, Transmit(p)
  PROVE  Typed'
<1>1. /\ UNCHANGED <<mem, receives, cq, wpc, serving, replyTask>>
      /\ UNCHANGED <<asked, writes, foreign, overwritten>>
      /\ UNCHANGED <<pc, dest, task, answer, taskID, executed>>
      /\ sendq' = [sendq EXCEPT ![p] = Tail(@)] /\ sendq[p] # <<>>
  BY DEF Transmit, callVars, workerVars, clientVars
<1>2. sendq[p] \in Seq(Writes(p)) /\ DOMAIN sendq = Pairs
  BY DEF Typed
<1>3. PICK w \in Writes(p) : w = Head(sendq[p])
  BY <1>1, <1>2
<1>4. DOMAIN sendq' = Pairs /\ \A q \in Pairs : sendq'[q] \in Seq(Writes(q))
  <2>1. Tail(sendq[p]) \in Seq(Writes(p))
    BY <1>1, <1>2
  <2> QED BY <1>1, <1>2, <2>1 DEF Typed
<1>5. PICK x : /\ x = [what |-> mem[p[1]][w.from], to |-> w.to, imm |-> w.imm]
               /\ wire' = [wire EXCEPT ![p] = Append(@, x)]
  BY <1>3 DEF Transmit
<1>6. x \in Packets(p)
  <2>1. p[1] \in Servers /\ p[2] \in Servers /\ p = <<p[1], p[2]>> /\ p[1] # p[2]
    BY DEF Pairs
  <2>2. CASE \E t \in ThreadsOf(p[1]) : w = RequestWrite(t, p[2])
    <3>1. PICK t \in Threads : Home[t] = p[1] /\ w = RequestWrite(t, p[2])
      BY <2>2 DEF ThreadsOf
    <3>2. /\ w.from = ServerSendAddress(p[2], Slot[t]) /\ w.to = MySlot(t)
          /\ w.imm = Row(t)
      BY <3>1 DEF RequestWrite
    <3>3. mem[p[1]][w.from] \in Content
      BY <2>1, <3>1, <3>2, CellTypes DEF Prepared
    <3>4. x \in RequestPackets(t)
      BY <1>5, <3>2, <3>3 DEF RequestPackets
    <3> QED BY <2>1, <3>1, <3>4, PacketTypes
  <2>3. CASE \E t \in ThreadsOf(p[2]) : w = ReplyWrite(t)
    <3>1. PICK t \in Threads : Home[t] = p[2] /\ w = ReplyWrite(t)
      BY <2>3 DEF ThreadsOf
    <3>2. w.from = MySlot(t) /\ w.to = MySlot(t) /\ w.imm = NoImm
      BY <3>1 DEF ReplyWrite
    <3>3. mem[p[1]][w.from] \in Content
      BY <2>1, <3>2, CellTypes DEF There
    <3>4. x \in ReplyPackets(t)
      BY <1>5, <3>2, <3>3 DEF ReplyPackets
    <3> QED BY <2>1, <3>1, <3>4, PacketTypes
  <2> QED BY <1>3, <2>2, <2>3 DEF Writes
<1>7. DOMAIN wire' = Pairs /\ \A q \in Pairs : wire'[q] \in Seq(Packets(q))
  BY <1>5, <1>6 DEF Typed
<1> QED BY <1>1, <1>4, <1>7 DEF Typed

LEMMA PlaceTyped ==
  ASSUME Typed, NEW p \in Pairs, Place(p)
  PROVE  Typed'
<1>1. /\ UNCHANGED <<sendq, wpc, serving, replyTask>>
      /\ UNCHANGED <<asked, writes, foreign, overwritten>>
      /\ UNCHANGED <<pc, dest, task, answer, taskID, executed>>
      /\ wire' = [wire EXCEPT ![p] = Tail(@)] /\ wire[p] # <<>>
  BY DEF Place, callVars, clientVars
<1>2. wire[p] \in Seq(Packets(p)) /\ DOMAIN wire = Pairs
  BY DEF Typed
<1>3. DOMAIN wire' = Pairs /\ \A q \in Pairs : wire'[q] \in Seq(Packets(q))
  <2>1. Tail(wire[p]) \in Seq(Packets(p))
    BY <1>1, <1>2
  <2> QED BY <1>1, <1>2, <2>1 DEF Typed
<1>4. PICK x \in Packets(p) : x = Head(wire[p])
  BY <1>1, <1>2
<1>5. PICK s \in Servers : s = p[2]
  BY DEF Pairs
<1>6. mem' \in [Servers -> [Cells -> Content]]
  <2>1. Store(s, x.to, x.what)
    BY <1>4, <1>5 DEF Place
  <2>2. x.what \in Content
    BY DEF Packets
  <2> QED BY <2>1, <2>2, StoreTyped
<1>7. /\ receives' \in [Pairs -> Nat]
      /\ cq' \in [Servers -> Seq(Servers \X Offsets)]
      /\ \A d \in Servers : cq'[d] \in Seq(Callers(d))
  <2>1. CASE x.imm = NoImm
    <3>1. receives' = receives /\ cq' = cq
      BY <1>4, <2>1 DEF Place
    <3> QED BY <3>1 DEF Typed
  <2>2. CASE x.imm # NoImm
    <3>1. /\ receives[p] > 0 /\ receives' = [receives EXCEPT ![p] = @ - 1]
          /\ cq' = [cq EXCEPT ![s] = Append(@, x.imm)]
      BY <1>4, <1>5, <2>2 DEF Place
    <3>2. x.imm \in Callers(s) /\ x.imm \in Servers \X Offsets
      <4>1. ~ \E t \in ThreadsOf(p[2]) : x \in ReplyPackets(t)
        BY <2>2 DEF ReplyPackets
      <4>2. PICK t \in Threads : Home[t] = p[1] /\ x \in RequestPackets(t)
        BY <4>1 DEF Packets, ThreadsOf
      <4>3. p[1] # p[2]
        BY DEF Pairs
      <4> QED BY <1>5, <4>2, <4>3, RowIsImm DEF RequestPackets, Callers
    <3>3. receives' \in [Pairs -> Nat]
      BY <3>1 DEF Typed
    <3>4. cq' \in [Servers -> Seq(Servers \X Offsets)]
      <4> DEFINE S == Servers \X Offsets
      <4>1. cq \in [Servers -> Seq(S)]
        BY DEF Typed
      <4>2. x.imm \in S
        BY <3>2
      <4> HIDE DEF S
      <4>3. cq[s] \in Seq(S)
        BY <4>1
      <4>4. Append(cq[s], x.imm) \in Seq(S)
        BY <4>2, <4>3
      <4>5. cq' \in [Servers -> Seq(S)]
        BY <3>1, <4>1, <4>4
      <4> QED BY <4>5 DEF S
    <3>5. \A d \in Servers : cq'[d] \in Seq(Callers(d))
      <4> SUFFICES ASSUME NEW d \in Servers
                   PROVE  cq'[d] \in Seq(Callers(d))
        OBVIOUS
      <4>1. /\ cq \in [Servers -> Seq(Servers \X Offsets)]
            /\ cq[d] \in Seq(Callers(d))
        BY DEF Typed
      <4>2. CASE d = s
        <5>1. cq'[d] = Append(cq[d], x.imm)
          BY <3>1, <4>1, <4>2
        <5> QED BY <3>2, <4>1, <4>2, <5>1
      <4>3. CASE d # s
        <5>1. cq'[d] = cq[d]
          BY <3>1, <4>1, <4>3
        <5> QED BY <4>1, <5>1
      <4> QED BY <4>2, <4>3
    <3> QED BY <3>3, <3>4, <3>5
  <2> QED BY <2>1, <2>2
<1> QED BY <1>1, <1>3, <1>6, <1>7 DEF Typed

LEMMA ClientsTyped ==
  ASSUME Typed, NEW s \in Servers,
         \/ \E n \in ClientIDs : ClientWrite(s, n) \/ ClientReply(s, n)
         \/ \E a \in 0..(DataSize - 1) : DataWrite(s, a)
  PROVE  Typed'
<1>1. /\ UNCHANGED <<pc, dest, task, answer, taskID, sendq, wire, receives, cq>>
      /\ UNCHANGED <<wpc, serving, replyTask, executed>>
  BY DEF ClientWrite, ClientReply, DataWrite, callVars, netVars, workerVars
<1>2. foreign' \in BOOLEAN
  <2>1. foreign \in BOOLEAN
    BY DEF Typed
  <2> QED BY <2>1, Zenon DEF ClientWrite, ClientReply, DataWrite
<1>3. /\ mem' \in [Servers -> [Cells -> Content]]
      /\ overwritten' \in SUBSET Threads
  <2>1. CASE UNCHANGED <<mem, overwritten>>
    BY <2>1 DEF Typed
  <2>2. ASSUME NEW a, NEW c \in Content, ClientStore(s, a, c) PROVE <1>3
    BY <2>2, StoreTyped DEF ClientStore, Typed
  <2>3. \/ UNCHANGED <<mem, overwritten>>
        \/ \E a : \E c \in Content : ClientStore(s, a, c)
    BY MessageTypes DEF ClientWrite, ClientReply, DataWrite
  <2> QED BY <2>1, <2>2, <2>3
<1>4. writes' \in [Servers -> Nat]
  <2>1. writes \in [Servers -> Nat]
    BY DEF Typed
  <2>2. CASE writes' = writes
    BY <2>1, <2>2
  <2>3. CASE writes' = [writes EXCEPT ![s] = @ + 1]
    BY <2>1, <2>3
  <2>4. writes' = writes \/ writes' = [writes EXCEPT ![s] = @ + 1]
    BY Zenon DEF ClientWrite, ClientReply, DataWrite
  <2> QED BY <2>2, <2>3, <2>4
<1>5. asked' \in [Servers \X ClientIDs -> Nat]
  <2>1. asked \in [Servers \X ClientIDs -> Nat]
    BY DEF Typed
  <2>3. ASSUME NEW n \in ClientIDs, ClientWrite(s, n) PROVE <1>5
    <3>1. asked' = [asked EXCEPT ![<<s, n>>] = @ + 1]
      BY <2>3 DEF ClientWrite
    <3> QED BY <2>1, <3>1
  <2>4. ASSUME NEW n \in ClientIDs, ClientReply(s, n) PROVE <1>5
    <3>1. asked' = [asked EXCEPT ![<<s, n>>] = @ - 1] /\ asked[<<s, n>>] > 0
      BY <2>4 DEF ClientReply
    <3>2. asked[<<s, n>>] - 1 \in Nat
      BY <2>1, <3>1
    <3> QED BY <2>1, <3>1, <3>2
  <2>5. ASSUME NEW a \in 0..(DataSize - 1), DataWrite(s, a) PROVE <1>5
    BY <2>1, <2>5 DEF DataWrite
  <2> QED BY <2>3, <2>4, <2>5
<1> QED BY <1>1, <1>2, <1>3, <1>4, <1>5 DEF Typed

LEMMA WorkerTyped ==
  ASSUME Typed, NEW d \in Servers, WorkerStep(d)
  PROVE  Typed'
<1>1. /\ UNCHANGED <<pc, dest, task, answer, taskID, wire>>
      /\ UNCHANGED <<asked, writes, foreign, overwritten>>
  BY DEF WorkerStep, RequestPoller, ReadTask, Classify, Reply, Repost,
         callVars, netVars, clientVars
<1>2. executed' \in [Servers \X Offsets -> [last : Nat, count : Nat]]
  <2>1. CASE executed' = executed
    BY <2>1 DEF Typed
  <2>2. CASE Reply(d)
    <3>1. PICK r \in Servers \X Offsets, k \in Nat : r = serving[d] /\ k = replyTask[d]
      BY DEF Typed
    <3>2. executed' = [executed EXCEPT ![r] = [last |-> k, count |-> @.count + 1]]
      BY <2>2, <3>1 DEF Reply
    <3>3. PICK e \in [last : Nat, count : Nat] :
            e = [last |-> k, count |-> executed[r].count + 1]
      <4>1. executed[r] \in [last : Nat, count : Nat]
        BY DEF Typed
      <4>2. executed[r].count + 1 \in Nat
        BY <4>1
      <4> QED BY <4>2
    <3> QED BY <3>2, <3>3 DEF Typed
  <2> QED BY <2>1, <2>2 DEF WorkerStep, RequestPoller, ReadTask, Classify, Repost,
         clientVars
<1>3. CASE RequestPoller(d)
  <2>1. /\ wpc' = [wpc EXCEPT ![d] = "build"] /\ cq[d] # <<>>
        /\ serving' = [serving EXCEPT ![d] = Head(cq[d])]
        /\ cq' = [cq EXCEPT ![d] = Tail(@)]
        /\ UNCHANGED <<mem, sendq, receives, replyTask>>
    BY <1>3 DEF RequestPoller, WorkerGoTo, netVars
  <2>2. /\ Head(cq[d]) \in Callers(d) /\ Head(cq[d]) \in Servers \X Offsets
        /\ Tail(cq[d]) \in Seq(Callers(d)) /\ Tail(cq[d]) \in Seq(Servers \X Offsets)
    <3>1. cq[d] \in Seq(Callers(d)) /\ cq[d] \in Seq(Servers \X Offsets)
      BY DEF Typed
    <3> QED BY <2>1, <3>1
  <2> QED BY <1>1, <1>2, <2>1, <2>2 DEF Typed
<1>4. CASE ReadTask(d)
  <2>1. /\ wpc[d] = "build" /\ wpc' = [wpc EXCEPT ![d] = "classify"]
        /\ replyTask' = [replyTask EXCEPT ![d] = mem[d][Served(d)].task]
        /\ UNCHANGED <<mem, sendq, receives, cq, serving>>
    BY <1>4 DEF ReadTask, WorkerGoTo, netVars
  <2>2. mem[d][Served(d)].task \in Nat
    <3>1. PICK t \in Threads : Served(d) = MySlot(t)
      BY <2>1, ServedThread
    <3>2. mem[d][Served(d)] \in Content
      BY <3>1, CellTypes DEF There
    <3> QED BY <3>2 DEF Content
  <2> QED BY <1>1, <1>2, <2>1, <2>2 DEF Typed
<1>5. CASE Classify(d)
  <2>1. /\ wpc[d] = "classify"
        /\ \E to \in {"reply", "poll"} : wpc' = [wpc EXCEPT ![d] = to]
        /\ UNCHANGED <<mem, sendq, receives, cq, serving, replyTask>>
    BY <1>5 DEF Classify, WorkerGoTo, netVars
  <2>2. /\ wpc' \in [Servers -> {"poll", "build", "classify", "reply", "repost"}]
        /\ \A e \in Servers : wpc'[e] # "poll" => wpc[e] # "poll"
    <3>1. wpc \in [Servers -> {"poll", "build", "classify", "reply", "repost"}]
      BY DEF Typed
    <3> QED BY <2>1, <3>1
  <2> QED BY <1>1, <1>2, <2>1, <2>2 DEF Typed
<1>6. CASE Reply(d)
  <2>1. /\ wpc[d] = "reply" /\ wpc' = [wpc EXCEPT ![d] = "repost"]
        /\ Store(d, Served(d), Response(replyTask[d]))
        /\ UNCHANGED <<receives, cq, serving, replyTask>>
    BY <1>6 DEF Reply, WorkerGoTo
  <2>2. mem' \in [Servers -> [Cells -> Content]]
    <3>1. Response(replyTask[d]) \in Content
      BY MessageTypes DEF Typed
    <3> QED BY <2>1, <3>1, StoreTyped
  <2>3. PICK t \in Threads :
          Home[t] # d /\ serving[d] = Row(t) /\ Served(d) = MySlot(t)
    BY <2>1, ServedThread
  <2>4. DOMAIN sendq' = Pairs /\ \A q \in Pairs : sendq'[q] \in Seq(Writes(q))
    <3>1. BatchWrite(d, serving[d][1], Served(d), Served(d), NoImm)
      BY <1>6 DEF Reply
    <3>2. serving[d][1] = Home[t]
      BY <2>3 DEF Row
    <3>3. BatchWrite(d, Home[t], MySlot(t), MySlot(t), NoImm)
      BY <2>3, <3>1, <3>2
    <3>4. Posts(<<d, Home[t]>>, ReplyWrite(t))
      BY <3>3 DEF BatchWrite, Posts, ReplyWrite
    <3>5. PICK p \in Pairs : \E w \in Writes(p) : Posts(p, w)
      <4>1. <<d, Home[t]>> \in Pairs /\ ReplyWrite(t) \in Writes(<<d, Home[t]>>)
        BY <2>3, PairOf DEF Writes, ThreadsOf
      <4> QED BY <3>4, <4>1
    <3> QED BY <3>5 DEF Posts, Typed
  <2> QED BY <1>1, <1>2, <2>1, <2>2, <2>4 DEF Typed
<1>7. CASE Repost(d)
  <2>1. /\ wpc[d] = "repost" /\ wpc' = [wpc EXCEPT ![d] = "poll"]
        /\ receives' = [receives EXCEPT ![<<serving[d][1], d>>] = @ + 1]
        /\ UNCHANGED <<mem, sendq, cq, serving, replyTask>>
    BY <1>7 DEF Repost, WorkerGoTo
  <2>2. receives' \in [Pairs -> Nat]
    <3>1. PICK t \in Threads : Home[t] # d /\ serving[d] = Row(t)
      BY <2>1, ServedThread
    <3>2. serving[d][1] = Home[t]
      BY <3>1 DEF Row
    <3>3. PICK q \in Pairs : q = <<serving[d][1], d>>
      <4>1. <<Home[t], d>> \in Pairs
        BY <3>1, PairOf
      <4> QED BY <3>2, <4>1
    <3>4. receives \in [Pairs -> Nat]
      BY DEF Typed
    <3> QED BY <2>1, <3>3, <3>4
  <2> QED BY <1>1, <1>2, <2>1, <2>2 DEF Typed
<1> QED BY <1>3, <1>4, <1>5, <1>6, <1>7 DEF WorkerStep

-----------------------------------------------------------------------------
(***************************************************************************)
(* The invariant holds.                                                    *)
(***************************************************************************)

\* Nothing is in an empty sequence.
LEMMA NoMatch == \A M : Matches(<<>>, M) = 0
<1> SUFFICES ASSUME NEW M PROVE Matches(<<>>, M) = 0
  OBVIOUS
<1>1. <<>> \in Seq({})
  OBVIOUS
<1>2. \A i \in DOMAIN <<>> : <<>>[i] \notin M
  OBVIOUS
<1> QED BY <1>1, <1>2, MatchesType

LEMMA InitTyped == Init => Typed
<1> SUFFICES ASSUME Init PROVE Typed
  OBVIOUS
<1>1. Home \in [Threads -> Servers] /\ RecvDepth \in Nat
  BY RpcAssumption DEF RpcAssumption
<1>2. mem \in [Servers -> [Cells -> Content]]
  <2>1. Data \in Content /\ Blank \in Content
    BY DEF Data, Blank, Content
  <2> QED BY <2>1 DEF Init
<1>3. \A k \in Nat : Response(k) \in Content
  BY MessageTypes
<1>4. /\ pc \in [Threads -> {"idle", "post", "spin", "copy"}]
      /\ dest \in [Threads -> Servers] /\ task \in [Threads -> Nat]
      /\ answer \in [Threads -> Content] /\ taskID \in [Servers -> Nat]
  BY <1>1, <1>3 DEF Init
<1>5. /\ DOMAIN sendq = Pairs /\ DOMAIN wire = Pairs
      /\ \A p \in Pairs : sendq[p] \in Seq(Writes(p)) /\ wire[p] \in Seq(Packets(p))
      /\ receives \in [Pairs -> Nat]
  BY <1>1 DEF Init
<1>6. /\ cq \in [Servers -> Seq(Servers \X Offsets)]
      /\ \A d \in Servers : cq[d] \in Seq(Callers(d))
      /\ wpc \in [Servers -> {"poll", "build", "classify", "reply", "repost"}]
      /\ \A d \in Servers : wpc[d] # "poll" => serving[d] \in Callers(d)
      /\ replyTask \in [Servers -> Nat]
  BY DEF Init
<1>7. serving \in [Servers -> Servers \X Offsets]
  <2>1. 0 \in Offsets
    BY LayoutAssumption DEF Offsets
  <2> QED BY <2>1 DEF Init
<1>8. writes \in [Servers -> Nat]
  BY DEF Init
<1>9. foreign \in BOOLEAN
  BY Zenon DEF Init
<1>10. executed \in [Servers \X Offsets -> [last : Nat, count : Nat]]
  BY DEF Init
<1>11. asked \in [Servers \X ClientIDs -> Nat] /\ overwritten \in SUBSET Threads
  BY DEF Init
<1> QED BY <1>2, <1>4, <1>5, <1>6, <1>7, <1>8, <1>9, <1>10, <1>11 DEF Typed

LEMMA InitInv == Init => IInv
<1> SUFFICES ASSUME Init PROVE IInv
  OBVIOUS
<1>1. Typed
  BY InitTyped
<1>2. ASSUME NEW t \in Threads PROVE Local(t)
  <2>1. pc[t] = "idle" /\ ~ Waiting(t) /\ answer[t] = Response(task[t])
    BY DEF Init, Waiting
  <2>2. ASSUME NEW d \in Servers \ {Home[t]} PROVE Load(t, d) = 0
    <3>1. <<Home[t], d>> \in Pairs /\ <<d, Home[t]>> \in Pairs
      BY PairOf
    <3>2. /\ Asked(t, d) = 0 /\ Replying(t, d) = 0
          /\ Asking(t, d) = 0 /\ Replied(t, d) = 0
      BY <3>1, NoMatch DEF Init, Asked, Replying, Asking, Replied, Mentions
    <3>3. Arrived(t, d) = 0 /\ Busy(t, d) = 0
      BY NoMatch DEF Init, Arrived, Busy, Mentions
    <3> QED BY <3>2, <3>3 DEF Load
  <2>3. Answered(t)
    <3>1. Row(t) \in Servers \X Offsets
      BY RowIsImm
    <3> QED BY <3>1 DEF Init, Answered
  <2> QED BY <2>1, <2>2, <2>3 DEF Local, Own
<1>3. ASSUME NEW p \in Pairs PROVE Account(p)
  <2>1. PICK d \in Servers : d = p[2]
    BY DEF Pairs
  <2>2. Matches(cq[d], {p[1]} \X Offsets) = 0 /\ wpc[d] = "poll"
    BY NoMatch DEF Init
  <2>3. receives[p] = RecvDepth /\ RecvDepth \in Nat
    BY RpcAssumption DEF Init, RpcAssumption
  <2>4. Held(p) = RecvDepth
    BY <2>1, <2>2, <2>3 DEF Held
  <2>5. Gone(p) = {}
    BY DEF Init, Gone, Lost, ThreadsOf
  <2>6. Cardinality(Gone(p)) = 0
    BY <2>5, FS_EmptySet
  <2> QED BY <2>3, <2>4, <2>6 DEF Account
<1>4. ASSUME NEW t \in Threads PROVE Numbered(t)
  <2>1. Home[t] \in Servers
    BY RpcAssumption DEF RpcAssumption
  <2> QED BY <2>1 DEF Init, Numbered
<1> QED BY <1>1, <1>2, <1>3, <1>4 DEF IInv

\* No step, so nothing is written and no call moves.
LEMMA StutterKeeps ==
  ASSUME IInv, UNCHANGED vars
  PROVE  Holds
<1>1. /\ UNCHANGED <<mem, pc, dest, task, answer, overwritten, executed>>
      /\ UNCHANGED <<sendq, wire, receives, cq, wpc, serving, replyTask>>
  BY DEF vars, callVars, netVars, workerVars, clientVars
<1>2. \A u \in Threads : Kept(u)
  BY <1>1, AllStill, NoMove
<1>3. \A p \in Pairs : Held(p)' = Held(p)
  BY <1>1, HeldSteady
<1> QED BY <1>2, <1>3, AccountKept DEF IInv, Holds

LEMMA StepTyped ==
  ASSUME IInv, [Next]_vars
  PROVE  Typed'
<1>1. Typed
  BY DEF IInv
<1>2. CASE UNCHANGED vars
  BY <1>1, <1>2 DEF vars, callVars, netVars, workerVars, clientVars, Typed
<1>3. CASE \E t \in Threads : \/ \E d \in Servers : Call(t, d)
                              \/ Post(t) \/ SeeResponse(t) \/ Return(t)
  BY <1>1, <1>3, CallTyped, PostTyped, SeeResponseTyped, ReturnTyped
<1>4. CASE \E p \in Pairs : Transmit(p) \/ Place(p)
  BY <1>1, <1>4, TransmitTyped, PlaceTyped
<1>5. CASE \E s \in Servers : WorkerStep(s)
  BY <1>1, <1>5, WorkerTyped
<1>6. CASE \E s \in Servers : \/ \E n \in ClientIDs :
                                   ClientWrite(s, n) \/ ClientReply(s, n)
                              \/ \E a \in 0..(DataSize - 1) : DataWrite(s, a)
  BY <1>1, <1>6, ClientsTyped
<1> QED BY <1>2, <1>3, <1>4, <1>5, <1>6 DEF Next

\* A call takes the next number of its server.
LEMMA StepNumbered ==
  ASSUME IInv, [Next]_vars, NEW t \in Threads
  PROVE  Numbered(t)'
<1>1. /\ Typed /\ Home[t] \in Servers /\ task[t] \in Nat
      /\ taskID[Home[t]] \in Nat /\ task[t] < taskID[Home[t]]
  BY RpcAssumption DEF IInv, Typed, Numbered, RpcAssumption
<1>2. CASE \E u \in Threads : \E d \in Servers : Call(u, d)
  <2>1. PICK u \in Threads :
          /\ task' = [task EXCEPT ![u] = taskID[Home[u]]]
          /\ taskID' = [taskID EXCEPT ![Home[u]] = @ + 1]
    BY <1>2 DEF Call
  <2>2. DOMAIN task = Threads /\ DOMAIN taskID = Servers
    BY <1>1 DEF Typed
  <2>3. CASE u = t
    <3>1. task'[t] = taskID[Home[t]] /\ taskID'[Home[t]] = taskID[Home[t]] + 1
      BY <1>1, <2>1, <2>2, <2>3
    <3> QED BY <1>1, <3>1 DEF Numbered
  <2>4. CASE u # t
    <3>1. task'[t] = task[t]
      BY <2>1, <2>4
    <3>2. \/ taskID'[Home[t]] = taskID[Home[t]]
          \/ taskID'[Home[t]] = taskID[Home[t]] + 1
      BY <1>1, <2>1, <2>2
    <3> QED BY <1>1, <3>1, <3>2 DEF Numbered
  <2> QED BY <2>3, <2>4
<1>3. CASE UNCHANGED <<task, taskID>>
  BY <1>1, <1>3 DEF Numbered
<1> QED BY <1>2, <1>3 DEF Next, Post, SeeResponse, Return, Transmit, Place,
     ClientWrite, ClientReply, DataWrite, WorkerStep, RequestPoller, ReadTask,
     Classify, Reply, Repost, callVars, vars

LEMMA StepHolds ==
  ASSUME IInv, [Next]_vars
  PROVE  Holds
<1>1. CASE UNCHANGED vars
  BY <1>1, StutterKeeps
<1>2. CASE \E t \in Threads : \/ \E d \in Servers : Call(t, d)
                              \/ Post(t) \/ SeeResponse(t) \/ Return(t)
  BY <1>2, CallKeeps, PostKeeps, SeeResponseKeeps, ReturnKeeps
<1>3. CASE \E p \in Pairs : Transmit(p) \/ Place(p)
  BY <1>3, TransmitKeeps, PlaceKeeps
<1>4. ASSUME NEW s \in Servers, WorkerStep(s) PROVE Holds
  BY <1>4, RequestPollerKeeps, ReadTaskKeeps, ClassifyTest, ClassifyOther,
     ReplyKeeps, RepostKeeps DEF WorkerStep
<1>5. ASSUME NEW s \in Servers,
             \/ \E n \in ClientIDs : ClientWrite(s, n) \/ ClientReply(s, n)
             \/ \E a \in 0..(DataSize - 1) : DataWrite(s, a)
      PROVE  Holds
  BY <1>5, ClientWriteKeeps, ClientReplyKeeps, DataWriteKeeps
<1> QED BY <1>1, <1>2, <1>3, <1>4, <1>5 DEF Next

LEMMA StepInv ==
  ASSUME IInv, [Next]_vars
  PROVE  IInv'
<1>1. Typed' /\ Holds
  BY StepTyped, StepHolds
<1>2. \A u \in Threads : Local(u)'
  BY <1>1 DEF Holds, Kept
<1> QED BY <1>1, <1>2, StepNumbered DEF IInv, Holds

\* The inductive invariant of the calls between servers.
THEOREM Invariance == Spec => []IInv
<1>1. Init => IInv
  BY InitInv
<1>2. IInv /\ [Next]_vars => IInv'
  BY StepInv
<1> QED BY <1>1, <1>2, PTL DEF Spec

-----------------------------------------------------------------------------
(***************************************************************************)
(* What follows from it.                                                   *)
(***************************************************************************)

LEMMA ReceivesBounded ==
  ASSUME Typed, NEW p \in Pairs, Account(p)
  PROVE  receives[p] \in 0..RecvDepth
<1>1. receives[p] \in Nat /\ cq[p[2]] \in Seq(Callers(p[2])) /\ RecvDepth \in Nat
  BY RpcAssumption DEF Typed, Pairs, RpcAssumption
<1>2. PICK m \in Nat : m = Matches(cq[p[2]], {p[1]} \X Offsets)
  BY <1>1, MatchesType
<1>3. PICK b \in Nat :
        b = IF wpc[p[2]] # "poll" /\ serving[p[2]][1] = p[1] THEN 1 ELSE 0
  OBVIOUS
<1>4. Held(p) = receives[p] + m + b
  BY <1>2, <1>3 DEF Held
<1>5. receives[p] + m + b <= RecvDepth
  BY <1>4 DEF Account
<1> QED BY <1>1, <1>2, <1>3, <1>5

LEMMA PostedInMemory ==
  ASSUME Typed, NEW p \in Pairs
  PROVE  /\ \A w \in ToSet(sendq[p]) : {w.from, w.to} \subseteq Cells
         /\ \A w \in ToSet(wire[p]) : w.what \in Content /\ w.to \in Cells
<1>1. sendq[p] \in Seq(Writes(p)) /\ wire[p] \in Seq(Packets(p)) /\ p[2] \in Servers
  BY DEF Typed, Pairs
<1>2. ASSUME NEW w \in Writes(p) PROVE {w.from, w.to} \subseteq Cells
  <2>1. CASE \E t \in ThreadsOf(p[1]) : w = RequestWrite(t, p[2])
    <3>1. PICK t \in Threads : w = RequestWrite(t, p[2])
      BY <2>1 DEF ThreadsOf
    <3>2. w.from = ServerSendAddress(p[2], Slot[t]) /\ w.to = MySlot(t)
      BY <3>1 DEF RequestWrite
    <3> QED BY <1>1, <3>2, Addresses
  <2>2. CASE \E t \in ThreadsOf(p[2]) : w = ReplyWrite(t)
    <3>1. PICK t \in Threads : w = ReplyWrite(t)
      BY <2>2 DEF ThreadsOf
    <3>2. w.from = MySlot(t) /\ w.to = MySlot(t)
      BY <3>1 DEF ReplyWrite
    <3> QED BY <1>1, <3>2, Addresses
  <2> QED BY <2>1, <2>2 DEF Writes
<1>3. \A w \in ToSet(sendq[p]) : w \in Writes(p)
  BY <1>1 DEF ToSet
<1>4. \A x \in ToSet(wire[p]) : x \in Packets(p)
  BY <1>1 DEF ToSet
<1>5. \A x \in Packets(p) : x.what \in Content /\ x.to \in Cells
  BY DEF Packets
<1> QED BY <1>2, <1>3, <1>4, <1>5

\* Every write that a thread or a worker posts is within the memory of both
\* servers (getServerSendAddress, getServerRecvAddress), a peer never has more
\* receives than were posted at the start (RdmaSocket.cpp, QPS_MAX_DEPTH), and
\* every variable keeps its type.
THEOREM TypeCorrect == Spec => []TypeOK
<1>1. IInv => TypeOK
  <2> SUFFICES ASSUME IInv PROVE TypeOK
    OBVIOUS
  <2>1. Typed /\ \A p \in Pairs : Account(p)
    BY DEF IInv
  <2>2. \A p \in Pairs :
          /\ receives[p] \in 0..RecvDepth
          /\ \A w \in ToSet(sendq[p]) : {w.from, w.to} \subseteq Cells
          /\ \A w \in ToSet(wire[p]) : w.what \in Content /\ w.to \in Cells
    BY <2>1, ReceivesBounded, PostedInMemory
  <2> QED BY <2>1, <2>2 DEF TypeOK, Typed
<1> QED BY <1>1, Invariance, PTL

\* A thread of a server that calls another one gets the answer to its own request
\* (Client::RdmaCall, isServer), whatever the threads, servers and clients, as long
\* as no client writes over a call of this thread.
THEOREM OwnAnswers == Spec => []OwnAnswer
<1>1. IInv => OwnAnswer
  BY DEF IInv, Local, Own, OwnAnswer
<1> QED BY <1>1, Invariance, PTL

LEMMA LostIsStuck ==
  ASSUME NEW t \in Threads, Local(t), Lost(t)
  PROVE  ~ Undisturbed(t) /\ pc[t] = "spin"
<1>1. Response(task[t]).msg = "RESPONSE"
  BY DEF Response
<1> QED BY <1>1 DEF Local, Own, Lost

\* A receive that neither is posted nor is with the worker (RequestPoller posts it
\* again at its end only) was lost with a thread that spins for ever, because a
\* client wrote over its call.
THEOREM Accounted == Spec => []ReceivesAccounted
<1>1. IInv => ReceivesAccounted
  <2> SUFFICES ASSUME IInv, NEW p \in Pairs
               PROVE  LET held == receives[p]
                            + Cardinality({i \in DOMAIN cq[p[2]] :
                                             cq[p[2]][i][1] = p[1]})
                            + (IF wpc[p[2]] # "poll" /\ serving[p[2]][1] = p[1]
                                 THEN 1 ELSE 0)
                          stuck == {t \in Threads :
                                      ~Undisturbed(t) /\ Home[t] = p[1]
                                        /\ dest[t] = p[2] /\ pc[t] = "spin"}
                      IN held \in (RecvDepth - Cardinality(stuck))..RecvDepth
    BY DEF ReceivesAccounted
  <2> DEFINE stuck == {t \in Threads : ~Undisturbed(t) /\ Home[t] = p[1]
                                         /\ dest[t] = p[2] /\ pc[t] = "spin"}
             came == {i \in DOMAIN cq[p[2]] : cq[p[2]][i][1] = p[1]}
  <2>1. Typed /\ Account(p) /\ \A t \in Threads : Local(t)
    BY DEF IInv
  <2>2. IsFiniteSet(Threads) /\ RecvDepth \in Nat
    BY RpcAssumption DEF RpcAssumption
  <2>3. Gone(p) \subseteq stuck /\ stuck \subseteq Threads
    BY <2>1, LostIsStuck DEF Gone, ThreadsOf
  <2>4. came = Places(cq[p[2]], {p[1]} \X Offsets)
    <3>1. cq[p[2]] \in Seq(Servers \X Offsets)
      BY <2>1 DEF Typed, Pairs
    <3>2. \A i \in DOMAIN cq[p[2]] : cq[p[2]][i] \in Servers \X Offsets
      BY <3>1
    <3>3. \A e \in Servers \X Offsets : e[1] = p[1] <=> e \in {p[1]} \X Offsets
      OBVIOUS
    <3> QED BY <3>2, <3>3 DEF Places
  <2> HIDE DEF stuck, came
  <2>5. PICK g \in Nat, k \in Nat :
          g = Cardinality(Gone(p)) /\ k = Cardinality(stuck) /\ g <= k
    <3>1. IsFiniteSet(stuck)
      BY <2>2, <2>3, FS_Subset
    <3>2. IsFiniteSet(Gone(p)) /\ Cardinality(Gone(p)) <= Cardinality(stuck)
      BY <2>3, <3>1, FS_Subset
    <3> QED BY <3>1, <3>2, FS_CardinalityType
  <2>6. PICK h \in Nat : h = Held(p)
    BY <2>1, HeldType
  <2>7. h <= RecvDepth /\ RecvDepth <= h + g
    BY <2>1, <2>5, <2>6 DEF Account
  <2>8. h \in (RecvDepth - k)..RecvDepth
    BY <2>2, <2>5, <2>7
  <2>9. Held(p) = receives[p] + Cardinality(came)
                    + (IF wpc[p[2]] # "poll" /\ serving[p[2]][1] = p[1]
                         THEN 1 ELSE 0)
    BY <2>4 DEF Held, Matches
  <2> QED BY <2>5, <2>6, <2>8, <2>9 DEF came, stuck
<1> QED BY <1>1, Invariance, PTL

\* A client without a mailbox of its own is answered only after it has written
\* where it takes one to be.
Answerable ==
  \A s \in Servers, n \in ClientIDs :
    asked[<<s, n>>] > 0 => foreign \/ n <= ServerCount + MaxClientNumber

\* What is stored away from the cells of a call overwrites none.
LEMMA StoredAway ==
  ASSUME NEW s, NEW a, NEW c, ClientStore(s, a, c), NEW t \in Threads,
         t \notin overwritten,
         pc[t] # "idle" => a # MySlot(t) /\ a # ServerSendAddress(dest[t], Slot[t])
  PROVE  t \notin overwritten'
BY DEF ClientStore, CallCells

LEMMA AnswerableKept ==
  ASSUME Typed, Answerable, [Next]_vars
  PROVE  Answerable'
<1>1. asked \in [Servers \X ClientIDs -> Nat]
  BY DEF Typed
<1>2. ASSUME NEW s \in Servers, NEW n \in ClientIDs, ClientWrite(s, n)
      PROVE  Answerable'
  <2>1. /\ asked' = [asked EXCEPT ![<<s, n>>] = @ + 1]
        /\ foreign' = (foreign \/ n > ServerCount + MaxClientNumber)
    BY <1>2 DEF ClientWrite
  <2>2. n \in Nat /\ ServerCount \in Nat /\ MaxClientNumber \in Nat
    BY LayoutAssumption, RpcAssumption DEF RpcAssumption
  <2>3. \A x \in Servers, m \in ClientIDs :
          asked'[<<x, m>>] = asked[<<x, m>>] \/ m = n
    BY <1>1, <2>1
  <2>4. n > ServerCount + MaxClientNumber \/ n <= ServerCount + MaxClientNumber
    BY <2>2
  <2> QED BY <2>1, <2>3, <2>4 DEF Answerable
<1>3. ASSUME NEW s \in Servers, NEW n \in ClientIDs, ClientReply(s, n)
      PROVE  Answerable'
  <2>1. /\ asked' = [asked EXCEPT ![<<s, n>>] = @ - 1] /\ asked[<<s, n>>] > 0
        /\ foreign' = foreign
    BY <1>3 DEF ClientReply
  <2>2. \A x \in Servers, m \in ClientIDs :
          asked'[<<x, m>>] > 0 => asked[<<x, m>>] > 0
    BY <1>1, <2>1
  <2> QED BY <2>1, <2>2 DEF Answerable
<1>4. ASSUME NEW s \in Servers, NEW i \in 0..(DataSize - 1), DataWrite(s, i)
      PROVE  Answerable'
  BY <1>4 DEF DataWrite, Answerable
<1>5. CASE UNCHANGED <<asked, foreign>>
  BY <1>5 DEF Answerable
<1> QED BY <1>2, <1>3, <1>4, <1>5 DEF Next, Call, Post, SeeResponse, Return, Transmit,
     Place, WorkerStep, RequestPoller, ReadTask, Classify, Reply, Repost, clientVars,
     vars

LEMMA ProtectedKept ==
  ASSUME IInv, Answerable, Protected, [Next]_vars
  PROVE  Protected'
<1> SUFFICES ASSUME NEW t \in Threads, Safe(t) \/ ~foreign'
             PROVE  t \notin overwritten'
  BY DEF Protected, Safe, SlotsBeforeData, LostSlots
<1>1. Typed /\ Local(t)
  BY DEF IInv
<1>2. ASSUME pc[t] # "idle" PROVE dest[t] \in Servers \ {Home[t]}
  BY <1>1, <1>2 DEF Typed, Local
<1>3. ASSUME NEW s \in Servers, NEW n \in ClientIDs, ClientWrite(s, n)
      PROVE  t \notin overwritten'
  <2>1. /\ ClientStore(s, ClientMessageAddress(n), Request(0))
        /\ foreign' = (foreign \/ n > ServerCount + MaxClientNumber)
    BY <1>3 DEF ClientWrite
  <2>2. t \notin overwritten
    BY <2>1 DEF Protected
  <2>3. n \in Nat /\ ServerCount \in Nat /\ MaxClientNumber \in Nat
    BY LayoutAssumption, RpcAssumption DEF RpcAssumption
  <2>4. n <= ServerCount + MaxClientNumber \/ Safe(t)
    <3>1. n > ServerCount + MaxClientNumber => foreign'
      BY <2>1, Zenon
    <3>2. n > ServerCount + MaxClientNumber \/ n <= ServerCount + MaxClientNumber
      BY <2>3
    <3> QED BY <3>1, <3>2, Zenon
  <2> QED BY <1>2, <2>1, <2>2, <2>4, MailboxAway, StoredAway
<1>4. ASSUME NEW s \in Servers, NEW n \in ClientIDs, ClientReply(s, n)
      PROVE  t \notin overwritten'
  <2>1. asked[<<s, n>>] > 0 /\ foreign' = foreign
    BY <1>4 DEF ClientReply
  <2>2. t \notin overwritten
    BY <2>1 DEF Protected
  <2>3. n <= ServerCount + MaxClientNumber \/ Safe(t)
    BY <2>1 DEF Answerable
  <2>4. CASE ClientStore(s, ClientMessageAddress(n), Response(0))
    BY <1>2, <2>2, <2>3, <2>4, MailboxAway, StoredAway
  <2> QED BY <1>4, <2>2, <2>4 DEF ClientReply
<1>5. ASSUME NEW s \in Servers, NEW i \in 0..(DataSize - 1), DataWrite(s, i)
      PROVE  t \notin overwritten'
  <2>1. ClientStore(s, DmfsDataOffset + i, Data) /\ Safe(t)
    BY <1>5 DEF DataWrite
  <2>2. t \notin overwritten
    BY <2>1 DEF Protected
  <2> QED BY <1>2, <2>1, <2>2, DataAway, StoredAway
<1>6. CASE UNCHANGED <<foreign, overwritten>>
  BY <1>6 DEF Protected
<1> QED BY <1>3, <1>4, <1>5, <1>6 DEF Next, Call, Post, SeeResponse, Return, Transmit,
     Place, WorkerStep, RequestPoller, ReadTask, Classify, Reply, Repost, clientVars,
     vars

\* Where no client writes: while all of them write into their mailboxes, no thread's
\* call is written over; and once one writes data, or has a mailbox past
\* MAX_CLIENT_NUMBER, still no call of a thread whose row of the receive pool lies
\* before the data area and whose requests lie behind those mailboxes
\* (MemoryManager's layout, Client's data offset).
THEOREM Protection == Spec => []Protected
<1>1. Init => Protected /\ Answerable
  BY DEF Init, Protected, Answerable
<1>2. IInv /\ (Protected /\ Answerable) /\ [Next]_vars => (Protected /\ Answerable)'
  BY AnswerableKept, ProtectedKept DEF IInv
<1> QED BY <1>1, <1>2, Invariance, PTL DEF Spec

\* A step that writes c to one cell changes the slot of t only if it is that cell.
LEMMA SlotStored ==
  ASSUME Typed, NEW t \in Threads, NEW s \in Servers, NEW a, NEW c, Store(s, a, c),
         Here(t)' # Here(t)
  PROVE  s = Home[t] /\ a = MySlot(t) /\ Here(t)' = c
<1>1. Home[t] \in Servers /\ MySlot(t) \in Cells
  BY Addresses, RpcAssumption DEF RpcAssumption
<1>2. mem \in [Servers -> [Cells -> Content]]
  BY DEF Typed
<1>3. mem[s] \in [Cells -> Content] /\ mem[Home[t]] \in [Cells -> Content]
  BY <1>1, <1>2
<1>4. mem'[Home[t]]
        = IF Home[t] = s THEN [mem[s] EXCEPT ![a] = c] ELSE mem[Home[t]]
  BY <1>1, <1>2 DEF Store
<1>5. mem'[Home[t]][MySlot(t)] # mem[Home[t]][MySlot(t)]
  BY DEF Here
<1>6. Home[t] = s
  BY <1>4, <1>5
<1>7. mem'[s] = [mem[s] EXCEPT ![a] = c]
  BY <1>4, <1>6
<1>8. MySlot(t) = a
  BY <1>1, <1>3, <1>5, <1>6, <1>7
<1>9. mem'[s][MySlot(t)] = c
  BY <1>1, <1>3, <1>7, <1>8
<1> QED BY <1>6, <1>8, <1>9 DEF Here

\* What is placed in the slot of t is the reply to it.
LEMMA PlacedHere ==
  ASSUME IInv, NEW p \in Pairs, Place(p), NEW t \in Threads, Undisturbed(t),
         Here(t)' # Here(t)
  PROVE  Here(t).msg = "INVALID" /\ Here(t)' = Response(task[t])
<1>1. Typed /\ Local(t)
  BY DEF IInv
<1>2. PICK x \in Packets(p) :
        x = Head(wire[p]) /\ wire[p] # <<>> /\ Store(p[2], x.to, x.what)
  <2>1. wire[p] # <<>> /\ wire[p] \in Seq(Packets(p))
    BY <1>1 DEF Place, Typed
  <2>2. Head(wire[p]) \in Packets(p)
    BY <2>1
  <2> QED BY <2>1, <2>2 DEF Place
<1>3. p[1] \in Servers /\ p[2] \in Servers /\ p = <<p[1], p[2]>> /\ p[1] # p[2]
  BY DEF Pairs
<1>4. p[2] = Home[t] /\ x.to = MySlot(t) /\ Here(t)' = x.what
  BY <1>1, <1>2, <1>3, SlotStored
<1>5. ASSUME NEW u \in ThreadsOf(p[1]), x \in RequestPackets(u) PROVE FALSE
  <2>1. x.to = MySlot(u) /\ u \in Threads /\ Home[u] = p[1]
    BY <1>5 DEF RequestPackets, ThreadsOf
  <2> QED BY <1>3, <1>4, <2>1, Apart
<1>6. PICK u \in ThreadsOf(p[2]) : x \in ReplyPackets(u)
  BY <1>5 DEF Packets
<1>7. x \in ReplyPackets(t)
  <2>1. x.to = MySlot(u) /\ u \in Threads
    BY <1>6 DEF ReplyPackets, ThreadsOf
  <2> QED BY <1>4, <1>6, <2>1, Apart
<1>8. PICK d \in Servers \ {Home[t]} : d = p[1] /\ p = <<d, Home[t]>>
  BY <1>3, <1>4
<1>9. wire[p] \in Seq(Packets(p)) /\ wire[p] # <<>>
  BY <1>1, <1>2 DEF Typed
<1>10. Replied(t, d) > 0
  <2>1. Matches(wire[p], ReplyPackets(t))
          = Matches(Tail(wire[p]), ReplyPackets(t))
              + (IF Head(wire[p]) \in ReplyPackets(t) THEN 1 ELSE 0)
    BY <1>9, MatchesTail
  <2>2. Matches(Tail(wire[p]), ReplyPackets(t)) \in Nat
    <3>1. Tail(wire[p]) \in Seq(Packets(p))
      BY <1>9
    <3> QED BY <3>1, MatchesType
  <2> QED BY <1>2, <1>7, <1>8, <2>1, <2>2 DEF Replied
<1>11. Load(t, d) > 0
  BY <1>10, UnderWay
<1>12. Here(t).msg = "INVALID" /\ Carried(t, d)
  BY <1>1, <1>11, Alone
<1>13. Carry(wire[p], ReplyPackets(t), Response(task[t]))
  BY <1>8, <1>10, <1>12 DEF Carried
<1>14. x.what = Response(task[t])
  BY <1>2, <1>7, <1>9, <1>13, CarryFacts
<1> QED BY <1>4, <1>12, <1>14

\* No other step changes the slot of a thread that calls.
LEMMA OthersAway ==
  ASSUME IInv, NEW t \in Threads, Undisturbed(t)', pc[t] # "idle",
         Here(t)' # Here(t), Next
  PROVE  \E p \in Pairs : Place(p)
<1>1. Typed /\ Local(t) /\ Home[t] \in Servers /\ MySlot(t) \in Cells
  BY Addresses, RpcAssumption DEF IInv, RpcAssumption
<1>2. mem' # mem
  BY DEF Here
<1>3. ASSUME NEW u \in Threads, NEW d \in Servers, Call(u, d) PROVE FALSE
  <2>1. u # t /\ Home[u] \in Servers
    BY <1>3, RpcAssumption DEF Call, GoTo, RpcAssumption
  <2>2. MySlot(u) # MySlot(t) /\ ServerSendAddress(d, Slot[u]) # MySlot(t)
    BY <2>1, Apart, Pools
  <2>3. mem' = [mem EXCEPT ![Home[u]][MySlot(u)].msg = "INVALID",
                           ![Home[u]][ServerSendAddress(d, Slot[u])]
                              = Request(taskID[Home[u]])]
    BY <1>3 DEF Call
  <2>4. mem \in [Servers -> [Cells -> Content]]
    BY <1>1 DEF Typed
  <2>5. mem'[Home[t]][MySlot(t)] = mem[Home[t]][MySlot(t)]
    BY <1>1, <2>1, <2>2, <2>3, <2>4
  <2> QED BY <2>5 DEF Here
<1>4. ASSUME NEW u \in Threads, Post(u) \/ SeeResponse(u) \/ Return(u) PROVE FALSE
  BY <1>2, <1>4 DEF Post, SeeResponse, Return
<1>5. ASSUME NEW p \in Pairs, Transmit(p) PROVE FALSE
  BY <1>2, <1>5 DEF Transmit
<1>6. ASSUME NEW d \in Servers, WorkerStep(d) PROVE FALSE
  <2>1. CASE Reply(d)
    <3>1. PICK u \in Threads : Home[u] # d /\ Served(d) = MySlot(u)
      BY <1>1, <2>1, ServedThread DEF Reply, WorkerGoTo
    <3>2. Store(d, Served(d), Response(replyTask[d]))
      BY <2>1 DEF Reply
    <3>3. d = Home[t] /\ Served(d) = MySlot(t)
      BY <1>1, <3>2, SlotStored
    <3> QED BY <3>1, <3>3, Apart
  <2>2. CASE RequestPoller(d) \/ ReadTask(d) \/ Classify(d) \/ Repost(d)
    BY <1>2, <2>2 DEF RequestPoller, ReadTask, Classify, Repost
  <2> QED BY <1>6, <2>1, <2>2 DEF WorkerStep
<1>7. ASSUME NEW s \in Servers, NEW a, NEW c, ClientStore(s, a, c) PROVE FALSE
  <2>1. Store(s, a, c) /\ <<s, a>> \notin CallCells(t)
    BY <1>7 DEF ClientStore, Undisturbed
  <2>2. s = Home[t] /\ a = MySlot(t)
    BY <1>1, <2>1, SlotStored
  <2> QED BY <2>1, <2>2 DEF CallCells
<1>8. ASSUME NEW s \in Servers,
             \/ \E n \in ClientIDs : ClientWrite(s, n) \/ ClientReply(s, n)
             \/ \E i \in 0..(DataSize - 1) : DataWrite(s, i)
      PROVE  FALSE
  BY <1>2, <1>7, <1>8 DEF ClientWrite, ClientReply, DataWrite
<1> QED BY <1>3, <1>4, <1>5, <1>6, <1>8 DEF Next

LEMMA DisturbedOnce ==
  ASSUME [Next]_vars, NEW t \in Threads, Undisturbed(t)'
  PROVE  Undisturbed(t)
<1>1. overwritten \subseteq overwritten'
  BY DEF Next, Call, Post, SeeResponse, Return, Transmit, Place, ClientWrite,
         ClientReply, DataWrite, ClientStore, WorkerStep, RequestPoller, ReadTask,
         Classify, Reply, Repost, clientVars, vars
<1> QED BY <1>1 DEF Undisturbed

\* While a thread is in a call, its slot, which the adapter writes and the thread
\* polls and then copies without a lock, changes only once: from the mark that the
\* call put there to the response to it.
THEOREM HandedOver == Spec => SlotHandover
<1> DEFINE Handover ==
      \A t \in Threads :
        LET slot == mem[Home[t]][MySlot(t)] IN
        slot' # slot /\ pc[t] # "idle" /\ Undisturbed(t)'
          => slot.msg = "INVALID" /\ slot' = Response(task[t])
<1>1. IInv /\ [Next]_vars => [Handover]_vars
  <2> SUFFICES ASSUME IInv, Next, NEW t \in Threads, Undisturbed(t)',
                      pc[t] # "idle", Here(t)' # Here(t)
               PROVE  Here(t).msg = "INVALID" /\ Here(t)' = Response(task[t])
    BY DEF Here
  <2>1. Undisturbed(t)
    BY DisturbedOnce
  <2>2. PICK p \in Pairs : Place(p)
    BY OthersAway
  <2> QED BY <2>1, <2>2, PlacedHere
<1> QED BY <1>1, Invariance, PTL DEF Spec, SlotHandover

-----------------------------------------------------------------------------
(***************************************************************************)
(* The servers implement CallService for each other.                       *)
(***************************************************************************)

\* What a step does to the call of t as CallService sees it.
Unseen(t)   == Status(t)' = Status(t) /\ Executions(t)' = Executions(t)
Issued(t)   == Status(t) = "idle" /\ Status(t)' = "issued"
               /\ Executions(t)' = Executions(t)
Executed(t) == Status(t) = "issued" /\ Status(t)' = "executed"
               /\ Executions(t)' = Executions(t) + 1
Returned(t) == Status(t) = "executed" /\ Status(t)' = "idle"
               /\ Executions(t)' = Executions(t)

\* It does so to one thread, unless a client has written over a call of that one.
ServiceStep ==
  \E t \in Threads :
    /\ \A u \in Threads : u # t => Unseen(u)
    /\ Undisturbed(t)' => Unseen(t) \/ Issued(t) \/ Executed(t) \/ Returned(t)

LEMMA NotSeen ==
  ASSUME NEW u \in Threads, task'[u] = task[u], SameAnswered(u),
         pc'[u] = "idle" <=> pc[u] = "idle"
  PROVE  Unseen(u)
BY DEF Unseen, Status, Executions, SameAnswered, Row

\* A step that answers no call, and after which as many threads are in one.
LEMMA NothingSeen ==
  ASSUME UNCHANGED <<task, executed>>,
         \A u \in Threads : pc'[u] = "idle" <=> pc[u] = "idle"
  PROVE  \A u \in Threads : Unseen(u)
<1> SUFFICES ASSUME NEW u \in Threads PROVE Unseen(u)
  OBVIOUS
<1>1. SameAnswered(u)
  BY DEF SameAnswered, Row
<1> QED BY <1>1, NotSeen

LEMMA CallSeen ==
  ASSUME IInv, NEW t \in Threads, NEW d \in Servers, Call(t, d)
  PROVE  ServiceStep
<1>1. /\ Typed /\ Local(t) /\ Home[t] \in Servers /\ task[t] \in Nat
      /\ taskID[Home[t]] \in Nat /\ task[t] < taskID[Home[t]]
  BY RpcAssumption DEF IInv, Typed, Numbered, RpcAssumption
<1>2. /\ pc[t] = "idle" /\ pc' = [pc EXCEPT ![t] = "post"]
      /\ task' = [task EXCEPT ![t] = taskID[Home[t]]]
      /\ overwritten' = overwritten /\ executed' = executed
  BY DEF Call, GoTo, clientVars
<1>3. pc'[t] = "post" /\ task'[t] = taskID[Home[t]]
  BY <1>1, <1>2 DEF Typed
<1>4. ASSUME NEW u \in Threads, u # t PROVE Unseen(u)
  <2>1. pc'[u] = pc[u] /\ task'[u] = task[u] /\ SameAnswered(u)
    BY <1>1, <1>2, <1>4 DEF Typed, SameAnswered, Row
  <2> QED BY <2>1, NotSeen
<1>5. ASSUME Undisturbed(t)' PROVE Issued(t)
  <2>1. Answered(t)
    BY <1>1, <1>2, <1>5 DEF Local, Own, Waiting, Undisturbed
  <2>2. executed'[Row(t)].last # task'[t]
    BY <1>1, <1>2, <1>3, <2>1 DEF Answered
  <2> QED BY <1>2, <1>3, <2>2 DEF Issued, Status, Executions, Row
<1> QED BY <1>4, <1>5 DEF ServiceStep

LEMMA ReturnSeen ==
  ASSUME IInv, NEW t \in Threads, Return(t)
  PROVE  ServiceStep
<1>1. Typed /\ Local(t)
  BY DEF IInv
<1>2. /\ pc[t] = "copy" /\ pc' = [pc EXCEPT ![t] = "idle"]
      /\ UNCHANGED <<task, overwritten, executed>>
  BY DEF Return, GoTo, clientVars
<1>3. pc'[t] = "idle"
  BY <1>1, <1>2 DEF Typed
<1>4. ASSUME NEW u \in Threads, u # t PROVE Unseen(u)
  <2>1. pc'[u] = pc[u] /\ task'[u] = task[u] /\ SameAnswered(u)
    BY <1>1, <1>2, <1>4 DEF Typed, SameAnswered, Row
  <2> QED BY <2>1, NotSeen
<1>5. ASSUME Undisturbed(t)' PROVE Returned(t)
  <2>1. Answered(t)
    BY <1>1, <1>2, <1>5 DEF Local, Own, Waiting, Undisturbed
  <2> QED BY <1>2, <1>3, <2>1 DEF Returned, Status, Executions, Answered, Row
<1> QED BY <1>4, <1>5 DEF ServiceStep

\* A worker answers a call that no worker has answered.
LEMMA ReplySeen ==
  ASSUME IInv, NEW d \in Servers, Reply(d)
  PROVE  ServiceStep
<1>1. Typed /\ \A t \in Threads : Local(t)
  BY DEF IInv
<1>2. PICK t \in Threads : Home[t] # d /\ serving[d] = Row(t)
  BY <1>1, ServedThread DEF Reply, WorkerGoTo
<1>3. wpc[d] = "reply" /\ UNCHANGED <<pc, task, overwritten>>
  BY DEF Reply, WorkerGoTo, callVars, clientVars
<1>4. /\ executed'[Row(t)].last = replyTask[d]
      /\ executed'[Row(t)].count = executed[Row(t)].count + 1
      /\ \A u \in Threads : u # t => SameAnswered(u)
  BY <1>1, <1>2, ReplyAnswers
<1>5. ASSUME NEW u \in Threads, u # t PROVE Unseen(u)
  BY <1>3, <1>4, <1>5, NotSeen
<1>6. ASSUME Undisturbed(t)' PROVE Executed(t)
  <2>1. d \in Servers \ {Home[t]} /\ Busy(t, d) > 0
    BY <1>2, <1>3 DEF Busy
  <2>2. pc[t] = "spin" /\ Load(t, d) > 0
    BY <2>1, UnderWay
  <2>3. Carried(t, d)
    BY <1>1, <1>3, <1>6, <2>1, <2>2, Alone DEF Undisturbed
  <2>4. ~ Answered(t) /\ replyTask[d] = task[t]
    BY <1>3, <2>1, <2>3 DEF Carried
  <2> QED
    BY <1>3, <1>4, <2>2, <2>4 DEF Executed, Status, Executions, Answered, Row
<1> QED BY <1>5, <1>6 DEF ServiceStep

\* All other steps are hidden within a call.
LEMMA OtherSeen ==
  ASSUME IInv, Next,
         ~ \E t \in Threads : Return(t) \/ \E d \in Servers : Call(t, d),
         ~ \E d \in Servers : Reply(d)
  PROVE  \A u \in Threads : Unseen(u)
<1>1. Typed
  BY DEF IInv
<1>2. UNCHANGED <<task, executed>>
  BY DEF Next, Post, SeeResponse, Transmit, Place, ClientWrite, ClientReply,
         DataWrite, WorkerStep, RequestPoller, ReadTask, Classify, Repost, callVars,
         clientVars
<1>3. \/ pc' = pc
      \/ \E t \in Threads : Post(t) \/ SeeResponse(t)
  BY DEF Next, Transmit, Place, ClientWrite, ClientReply, DataWrite, WorkerStep,
         RequestPoller, ReadTask, Classify, Repost, callVars
<1>4. \A u \in Threads : pc'[u] = "idle" <=> pc[u] = "idle"
  <2>1. CASE \E t \in Threads : Post(t) \/ SeeResponse(t)
    <3>1. PICK t \in Threads :
            /\ pc[t] # "idle"
            /\ \E to \in {"spin", "copy"} : pc' = [pc EXCEPT ![t] = to]
      BY <2>1 DEF Post, SeeResponse, GoTo
    <3> QED BY <1>1, <3>1 DEF Typed
  <2> QED BY <1>3, <2>1
<1> QED BY <1>2, <1>4, NothingSeen

LEMMA StepSeen ==
  ASSUME IInv, Next
  PROVE  ServiceStep \/ \A u \in Threads : Unseen(u)
<1>1. CASE \E t \in Threads : Return(t) \/ \E d \in Servers : Call(t, d)
  BY <1>1, CallSeen, ReturnSeen
<1>2. CASE \E d \in Servers : Reply(d)
  BY <1>2, ReplySeen
<1> QED BY <1>1, <1>2, OtherSeen

\* The functions that stand for CallService's variables.
LEMMA ServiceSteps ==
  /\ (\A u \in Threads : Unseen(u)) => UNCHANGED Service!vars
  /\ \A t \in Threads : (\A u \in Threads : u # t => Unseen(u)) =>
       /\ Issued(t)   => Service!Next
       /\ Executed(t) => Service!Next
       /\ Returned(t) => Service!Next
<1>1. (\A u \in Threads : Unseen(u)) => UNCHANGED Service!vars
  BY DEF Unseen, Service!vars
<1>2. ASSUME NEW t \in Threads, \A u \in Threads : u # t => Unseen(u)
      PROVE  /\ Issued(t)   => Service!Issue(t)
             /\ Executed(t) => Service!Execute(t)
             /\ Returned(t) => Service!Return(t)
  BY <1>2 DEF Unseen, Issued, Executed, Returned, Service!Issue, Service!Execute,
         Service!Return, Service!Move
<1> QED BY <1>1, <1>2 DEF Service!Next

\* The refinement: a call of one server's thread to another server is executed by
\* a worker there exactly once, between its issue and its return (Client::RdmaCall,
\* isServer; RequestPoller, ProcessRequest), whatever the number of servers and of
\* threads.  Only the call of a thread over one of whose calls a client has written
\* may be answered for another, more than once or not at all.
THEOREM Implements == Spec => ExactlyOnce
<1> DEFINE Disturbed ==
      \E t \in Threads :
        ~Undisturbed(t)' /\ <<Status(t), Executions(t)>>'
                              # <<Status(t), Executions(t)>>
      Step == Service!Next \/ UNCHANGED Service!vars \/ Disturbed
<1>1. Init => Service!Init
  <2> SUFFICES ASSUME Init PROVE Service!Init
    OBVIOUS
  <2>1. ASSUME NEW t \in Threads PROVE Status(t) = "idle" /\ Executions(t) = 0
    <3>1. Row(t) \in Servers \X Offsets
      BY RowIsImm
    <3> QED BY <3>1 DEF Init, Status, Executions, Row
  <2> QED BY <2>1 DEF Service!Init
<1>2. IInv /\ [Next]_vars => [Step]_vars
  <2> SUFFICES ASSUME IInv, Next PROVE Step
    OBVIOUS
  <2>1. CASE \A u \in Threads : Unseen(u)
    BY <2>1, ServiceSteps
  <2>2. CASE ServiceStep
    <3>1. PICK t \in Threads :
            /\ \A u \in Threads : u # t => Unseen(u)
            /\ Undisturbed(t)' =>
                 Unseen(t) \/ Issued(t) \/ Executed(t) \/ Returned(t)
      BY <2>2 DEF ServiceStep
    <3>2. CASE Unseen(t)
      <4>1. \A u \in Threads : Unseen(u)
        BY <3>1, <3>2
      <4> QED BY <4>1, ServiceSteps
    <3>3. CASE Issued(t) \/ Executed(t) \/ Returned(t)
      BY <3>1, <3>3, ServiceSteps
    <3>4. CASE ~Undisturbed(t)' /\ ~Unseen(t)
      BY <3>4 DEF Unseen
    <3> QED BY <3>1, <3>2, <3>3, <3>4
  <2> QED BY <2>1, <2>2, StepSeen
<1> QED BY <1>1, <1>2, Invariance, PTL DEF Spec, ExactlyOnce

\* As long as every client writes into its mailbox only, as RdmaCall does and the
\* block operations do not, and has one, the servers are CallService for all their
\* threads.
THEOREM ImplementsAlone == Spec /\ [](~foreign) => Service!Spec
<1> DEFINE Disturbed ==
      \E t \in Threads :
        ~Undisturbed(t)' /\ <<Status(t), Executions(t)>>'
                              # <<Status(t), Executions(t)>>
      Step == Service!Next \/ UNCHANGED Service!vars \/ Disturbed
<1>1. (~foreign)' /\ Protected' => ~Disturbed
  BY DEF Protected, Undisturbed
<1>2. UNCHANGED vars => UNCHANGED Service!vars
  BY NothingSeen, ServiceSteps DEF vars, callVars
<1>3. (~foreign)' /\ Protected' /\ [Step]_vars => [Service!Next]_(Service!vars)
  BY <1>1, <1>2
<1> QED BY <1>3, Implements, Protection, PTL DEF ExactlyOnce, Service!Spec
=============================================================================
