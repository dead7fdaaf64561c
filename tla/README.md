# Verification of RDMA Unified Shared Memory

TLA+ models of the protocols in this repository, the TLC runs that check small
instances of them, and proofs that TLAPS checks for every instance.  Paths are
relative to the repository (`src/net/...`, `include/...`).

## 1. The system

A *server* process owns a shared-memory segment that is registered with the
RDMA adapter; *client* processes call it and read and write its memory.

| component | state | operations | code |
|---|---|---|---|
| remote calls | a client's message buffer (`Client::mm`), `taskID`, the send counter of a connection; the server's mailbox per client, posted receives, completion queues | `RdmaCall`, `RequestPoller`, `ProcessRequest`, `_RdmaBatchWrite`, `RdmaReceive` | `client.cpp`, `server.cpp`, `RdmaSocket.cpp` |
| one-sided transfer | one queue and one pool per worker thread, `TransferSignal`, queue pairs 1.., the client's completion queue | `RemoteRead`, `RemoteWrite`, `DataTransferWorker`, `InboundHamal`, `OutboundHamal`, `PollCompletion` | `RdmaSocket.cpp`, `global.h` (Queue) |
| connection | `peers[]`, `MyNodeID`, `MaxNodeID`, `cqPtr`, TCP sockets | `RdmaListen`, `RdmaAccept`, `ServerConnect`, `RdmaConnect`, `ConnectQueuePair`, `DataSyncwithSocket` | `RdmaSocket.cpp` |
| block allocator | bitmap, spinlock | `allocateMemoryBlocks`, `freeMemoryBlocks`, `getAvailableBlocks`, `set`, `clear` | `MemoryManager.cpp`, `BlockBitmap.cpp` |
| memory layout | base addresses, thread slots | `getServerSendAddress`, `getServerRecvAddress`, `getClientMessageAddress` | `MemoryManager.cpp`, `client.cpp` |
| server-to-server calls | slots per thread, `MESSAGE_INVALID` handshake | `RdmaCall` with `isServer` | `client.cpp` |
| block operations of a client | list of block addresses | `BlockAlloc`, `BlockWrite`, `IndexWrite`, `RangeCover` | `client.cpp` |
| send queues | signal counter per connection, send queues, the client's completion queue | `_RdmaBatchWrite`, `_RdmaBatchSend`, `_RdmaBatchRead`, `RdmaSend`, `RdmaRead`, `RdmaWrite`, atomics | `RdmaSocket.cpp` |
| adapter setup and teardown | device, protection domain, memory region, completion queues, queue pairs | `CreateResources`, `CreateQueuePair`, `ModifyQPto...`, `ResourcesDestroy` | `RdmaSocket.cpp` |
| configuration, debug output, example programs | none of interest | | `Configuration.cpp`, `debug.cpp`, `tecli.cpp`, `teser.cpp` |

How they interact.  A client first connects (TCP exchange of IDs and memory
keys; server 1 gives it a NodeID).  A call writes the request into the
mailbox that belongs to the NodeID, with the NodeID as immediate data; the
arrival uses up a posted receive and appears in a completion queue, whose
worker thread looks the sender up in `peers[]`, handles the request and writes
the response over the client's buffer, where the client spins.  A transfer
goes through pools in the client's registered memory; its completions and
those of the client's calls meet in ONE completion queue, the coupling that
several of the results below come from.  Servers call each other too: several threads of
a server, each with a slot in a pool of the shared memory, over one queue pair
per pair of servers; and clients write mailboxes and data into that same memory.

What makes each part hard, and what would make it correct:

* calls: a posted write names a buffer that the adapter reads *later*; a client
  resends after one second whatever the buffer holds; a mailbox is read three
  times while it may be overwritten; two clients share a worker.  A call should
  return its own answer, be executed once, return at all, and lose no receive.
* transfers: threads that poll one anonymous completion queue, and a counter
  that says when all are done.  Data should have arrived on return, nothing be
  outstanding, the parts make up the whole, and no thread wait for ever.
* connections: one Listener thread serves everybody, reads on its side have no
  timeout, peers die or give up half-way.  NodeIDs should be unique, all
  servers agree on them, and the Listener go on.
* allocator: a lock and a search; blocks should be found once and the search end.
* server-to-server calls: no timeout and no resend, so that whatever overwrites a slot
  between two steps leaves a thread spinning.  A slot should change hands once per
  call, an answer reach the thread that asked, and the regions of the memory not
  overlap.
* send queues: entries come free only when a completion is taken, and the completion
  taken may be another queue's.  The loop should never wait for a completion that
  does not come, and a queue not overflow.
* adapter: every library call may fail, the failures are not all looked at, and a
  destructor runs over whatever was made.  A peer that is recorded should be usable,
  a failure leave nothing open, and the destructor give everything back.

The list `hazards` of `PROJECT.json` names the line of each.

## 2. Modules

| module | what it is |
|---|---|
| `CallService` | abstract specification: a call is issued, executed once, returned |
| `RdmaCall` | the call protocol; refines `CallService` when nothing is resent |
| `RdmaCallProofs` | its inductive invariant and theorems |
| `DataTransfer` | small and large transfers of one client, with the completions its calls leave |
| `DataTransferProofs` | its inductive invariant and theorems |
| `Connection` | NodeIDs, the two exchanges, the Listener, `peers[]` |
| `ConnectionProofs` | its inductive invariant and theorems |
| `BlockBitmap` | the allocation of blocks |
| `BlockBitmapProofs` | its inductive invariant and theorems |
| `MemoryLayout` | the addresses in a server's memory, as arithmetic |
| `ServerRpc` | calls between servers over that layout, with clients that write into it (EXTENDS `MemoryLayout`); refines `CallService` for every thread over none of whose calls a client wrote |
| `ServerRpcProofs` | what the address operations promise, for all sizes; the inductive invariant and theorems of `ServerRpc` |
| `SendQueue` | the send queues of a client and the completion queue they share |
| `SendQueueProofs` | its inductive invariants and theorems |
| `Adapter` | creation, use and release of the adapter's resources when any call may fail |
| `AdapterProofs` | its inductive invariant and theorems |
| `FiniteLemmas` | lemmas of several proofs: sums over finite sets, counts in sequences |
| `MC...` | instances of these for TLC; each `.cfg` is one run |

Operators named as mutants in comments are changed forms of a definition (a
missing guard, a lost reset); no specification uses them.  Each shows that a
property can fail: put in place of the definition it makes TLC find the property
violated.

### RdmaCall and the code

* `pc`: a client's thread in `Client::RdmaCall`: `Call` is the code up to the
  post, `Send` the post, `Timeout` the loop test that saw no response together
  with the clock, `Resend` the second post, `SeeResponse` the loop test that saw
  one, `Return` the final copy.  `CallOneWay`: for three messages `RdmaCall`
  fills the buffer and returns (the write is commented out).
* `buffer` and `mailbox` hold a message type and a task ID, all that either side
  looks at.  The adapter steps `Transmit` and `TransmitReply` read them after the
  post, since `max_inline_data` is 0 and send flags have no INLINE.
* `counter`, `placed`: the 64-bit counters appear only in `counter & 31 == 0` and
  `counter > 0`; 0 stands for 0 and 1..SignalPeriod for the residues.
* The server's own signaled completions share the queue with arrivals;
  `RequestPoller` takes and ignores them (wrong opcode), and so they are left out.
* A worker reads the mailbox in `RequestPoller`, `ReadTask` and `Classify`
  separately.  `RAWREAD` and `RAWWRITE` inside the TEST branch cannot be reached.
* A write is placed in one step: that the processor sees `message` before the rest
  of the buffer is left out.
* The link is reliable and in order (RC, Mode 0).  A retransmission reads the
  buffer again, which is a later `Transmit`.  A queue pair that fails after its
  retries is not modelled; nor is the death of either side.
* The loop's `tempCount` is stored outside the modelled fields.
* `INSERT` stands for every message that reaches the last, empty branch.

### DataTransfer and the code

One calling thread per client: `Queue` has no lock and `TransferSignal` is one
counter, so the code supports no more.  A *unit* of memory is as much as never
needs splitting; the values give pool, page and threshold in units.  `step[t]` is
the thread in `InboundHamal` or `OutboundHamal`: `next` (loop head), `post`
(chunk copied to the pool), `poll`, `copy` (completion taken, chunk to be copied
out).  Task 0 is the calling thread itself in a small transfer, as in the code
(`InboundHamal(0, ...)`), with worker 0's pool and queue pair.  `Perform` is the
adapter doing one request: in order on a queue pair, in any order between them.
`Call` is the part of `RdmaCall` that touches this completion queue.
The programs are compiled with -O0 (`CMakeLists.txt`), so that the spin loops on
plain fields do read them again.  A chunk moves in one step.  `Flush` is a request
that fails: it completes, the queue pair is in the error state from then on, and
every later request on it comes back unperformed; `PollCompletion` returns -1 and no
caller looks.

### Connection and the code

`phase` is the thread that runs `RdmaConnect` (client) or `ServerConnect`
(server), `listener` the thread in `RdmaAccept`.  `ReadID` and `ListenID` contain
the rest of `ConnectQueuePair` up to the write of the ExchangeMeta, `ReadMeta`
and `ListenMeta` what follows: `peers[]`, and on a server the posted receives.
The order of the servers other than 1 is that of a hash map, hence any.  The 3
second timeout of the connecting side may expire at any time: nothing bounds how
long the Listener is busy.  A read from a peer that has died gives -1 (reset) or,
when the bytes are used up, 0; TCP may do either.  A write to it succeeds; that
it may also kill the writer (SIGPIPE) is left out, so is the death of servers.
Messages of a few bytes arrive whole.  `NodeIDs` bounds what a run can reach:
each client connects once.

### BlockBitmap and the code

The steps of `getAvailableBlocks`: loop over bytes, loop over bits, take.  `set`
marks the block found; the statement before it marks the mirrored bit
(`1 << pos` where the test was `1 << (7 - pos)`).  `Return` has the lock guard of
both returns.  `MemoryManager` creates a bitmap of one byte (`2/4*1024 + 1`
blocks, BLOCK_SIZE being an unparenthesised `4*1024`).  A request for 0 blocks
reaches the end of a function without a return; the model asks for none.

### MemoryLayout, ServerRpc and the code

`MemoryLayout` has the constructor of `MemoryManager`, its three address operations
and the offset `Client::Client` computes for itself.  `ServerRpc` uses them with
`MessageSize = 1`: a cell of `mem[s]` holds a message or a unit of data.

* `pc[t]` is a calling thread in the branch of `RdmaCall` for servers: `Call` marks
  its slot of the receive pool invalid and copies the request to its slot of the send
  pool, `Post` posts the write, `SeeResponse` is the loop test, `Return` the copy.
* A pair `<<s, d>>` is one direction of the queue pair 0 between two servers; requests
  of `s` to `d` and replies of `s` to `d` share it, in order.  The adapter reads what
  is sent at `Transmit`.  A write with immediate data waits for a receive at `Place`,
  and everything behind it waits too.
* Worker 0 serves all other servers.  It reads the slot for the task ID and for the
  branch at different times, as in `RdmaCall`.
* A thread's number (`th2id`) is `Slot[t]`.  Threads that never called `setID` all have
  number 0; the model assumes different numbers, without which nothing holds.
* `PoolSize <= MetadataSize + DataSize`: the code allocates one of the two pools only
  (`DMFSTotalSize`), so that the receive pool ends in allocated memory only because the
  data area, of some GB, lies over it.
* `RecvDepth` is at least the number of threads of each server: the code posts 128
  receives for each peer and has 8 slots.
* `Init`: the memory is cleared and `FillSize` cells of the data area are filled; the code
  fills `_DataSize` KB of an area of as many GB.
* `ClientWrite` and `DataWrite` are the writes of clients into a server's memory: into
  mailboxes, and into the data area from `DmfsDataOffset`.  `ClientReply` is what the
  answer to a client does there: the worker copies it over the mailbox, if that still
  holds a request, before it is sent.  For a client that has no mailbox of its own this is
  a second write to a slot of the send pool.  The clients' side of it, and what they do
  with the answer, is `RdmaCall`.  The data that clients write never reads as a message
  here: what a thread or worker does with data that does is not modelled.
* The mailboxes end before the receive pool (`RpcAssumption`), which allows for
  24 + 8 per server of the code's clients: a reply to one beyond that would itself be an
  answer in the slot of a server's thread.
* `overwritten` has the threads over a call of which a client's write, or the answer to
  one, went: it was to a cell that a call under way uses (`CallCells`: the slot where it
  waits, the slot its request is prepared in, and the slot it goes to).  `foreign` records
  that a write was outside the mailboxes.
* `executed` records, by the slot of the caller, the task a worker last answered and how
  many it has answered: no step reads it, only the mapping to `CallService` does
  (`Status`, `Executions`).  `ExactlyOnce` lets a thread that is not `Undisturbed`
  (one in `overwritten`, and no other) depart from `CallService`, because the code does:
  its request may be overwritten before the worker reads it, or its slot may show a
  response nobody sent.
* Servers never take the completions of their own writes (`RequestPoller` drops them),
  so the send queues are unbounded here.

### SendQueue and the code

One thread, as in `Client`.  A batch is prepared one request per step, because each turn
may wait for a completion; `list` is `send_wr`.  An entry of a send queue is free
when a completion of it or of a later one of the SAME queue is taken (`PollCompletion`).
`Post` takes as much of a list as fits, which is what `ibv_post_send` does, and the
callers ignore the result.  `counter` is reduced as in `RdmaCall`.  The three batched
operations are the same loop; the five single verbs differ only in who waits for the
completion, and `SingleUnpolled` is `basic_test`, which does not.  A server does not
wait for completions; its counters are left out.

### Adapter and the code

`stage` is where the constructor or destructor is; each stage is one library call, which
succeeds or fails.  `step[p]` is where `ConnectQueuePair` is for peer `p`.  "wild" is
what a pointer is that was never set or that points to something released.  Whether
members that were never set read as null or as anything else is chosen once (`fresh`).
`fault` is a crash: a null pointer given to the library, a wild one used.  `Cleanup` is
the exit of `CreateResources` in its order, and a crash in it leaves what would have been
released after it; `failed` as a stage is a `CreateResources` that returned.  `Width` is
how many queue pairs a connection has: two between servers, three otherwise.
`Die` is `CreateQueuePair` printing `qp_num` of a queue pair that was not made, or
`ExchangeMeta` reading `mr->rkey`.  In the destructor a server goes over queue pairs
it never made and over its own entry of `peers[]`.

## 3. Runs

Each bound is a constant of the `.cfg`.

| run | question | bounds | result |
|---|---|---|---|
| `call_service` | calls that are not resent: own answer, executed once (`CallService`), receives, buffer handover, load; every call returns | 2 clients, 1 worker, 3 calls each, 2 receives, a signaled send in 2 | holds, 18 994 states |
| `call_retry` | the same safety with resends and unanswered messages | 2 clients, 2 calls, 1 resend each | holds, 416 672 states |
| `call_stale` | own answer after a resend | 1 client, 2 calls, 1 resend | **violated** |
| `transfer_returns` | completions balance, nothing outstanding, data arrived on return of a transfer in the calling thread, the parts of a large one, returns; requests may fail | 2 workers, sizes 1, 3, 5 and 6, pool 2, 2 transfers, 3 calls, 1 queue pair breaks | holds, 569 004 states |
| `transfer_mixed` | data arrived on return of a large transfer | 1 transfer | **violated** |
| `connect_peers` | NodeIDs and `peers[]`; a client that connected becomes known; connecting ends | 2 servers, 2 clients, all may time out, one client may die | holds, 81 423 states |
| `connect_listener` | the Listener goes on | one client may die | **violated** |
| `blocks_found` | no block found twice | 2 threads, 1 byte, requests for 1 to 8 | holds, 1 992 states |
| `blocks_returns` | an allocation returns | same | **violated** |
| `send_queue` | the completions balance, how full a send queue gets, posts return | 2 servers, a signaled request in 3, batches of 1 and 2, 12 entries, 1 completion nobody takes | holds, 753 782 states |
| `adapter_failures` | peers in `peers[]` are usable, a failure leaves nothing, a client gives back, what a process crashes of | a server before, a server after, a client; 2 completion queues, 3 queue pairs; every call may fail | holds, 34 743 states |
| `rpc_slots` | whose calls clients cannot write over; own answer, executed once (`CallService`), slot handover, receives, calls return, while clients write | 2 servers, 3 threads, 3 calls of server 1 and 1 of server 2, 2 receives, 2 slots per server, 1 mailbox, 1 message of metadata, 2 clients, 1 write into server 2 | holds, 564 510 states |

Why the bounds are enough.  Two clients on one worker is the least at which the
requests of one can disturb the other; two calls with one resend is the least at
which a late answer can meet a later call; a signal period of 2 makes a client
wait for its own completion from its third write; two receives is the least that
lets one be used while another is to be posted again.  Sizes and pools make a
part of one chunk, of a full and of a broken last chunk, and one unit that is in
no part; two workers is the code's number, and a threshold of 4 leaves sizes on both
sides of it.  Two servers are the least for which "server 1 names, the others
believe" means anything, two clients for uniqueness.  Two completion queues is what
`teser.cpp` creates, and two clients make `cqPtr` wrap.  Two servers are the least at
which a completion may be another queue's; a period of 3 tells the first, the middle
and the signaled request of a period apart, and 12 entries is what `SendQueueBound`
allows for two servers and one completion nobody takes, so that a queue does fill.
With three peers the adapter has a connection of each kind: to a server, from a
server, from a client.  In `rpc_slots` two threads of one server share a queue
pair and worker, two servers call each other at the same time, one thread's slots lie
before the data area and the others' do not, and client 4 has no mailbox.  There
are three calls of server 1 for two receives: a call whose predecessor's receive is not
yet posted again waits, and the reply to server 2 that is sent behind it waits too; and
when a thread is stuck and its receive lost, the other thread of its server has one
left and waits for it at each call.  Clients write into the memory of server 2, where
they can hit a request that arrives, a request that is prepared and the slot of a caller;
the same cells of server 1 play no other part.

`CHECK_DEADLOCK FALSE` is in every run but `send_queue`: the bounded callers stop, a
process that crashed or is gone has nothing left to do, and a call that is not
answered is stated as a liveness property.

Fairness.  `RdmaCall`: the threads spin and the adapters make progress (weak
fairness of their steps); nobody has to call or to time out.  `DataTransfer`: weak
fairness of each thread and of the adapter; nobody has to start a transfer, no
request has to fail.  `Connection`: weak fairness of each connecting thread, its
receive timeout included, and of each Listener; no node has to start.
`BlockBitmap`: weak fairness of each thread; the spinlock is free or not when it
looks.  `SendQueue`: weak fairness of the thread within an operation and of the
adapter.  `ServerRpc`: while a calling thread, an adapter or a worker can take a step, some
step of theirs is taken, which is less than weak fairness of each and enough, for calls
are bounded and each takes so many steps; nobody has to call, no client has to write or
to be answered.
`Adapter` has no liveness property.

### What the code does that its comments do not say

Four runs are violated, each against a comment of the code:

1. **A late answer is taken for another call's** (`call_stale`).  `client.cpp:163`
   waits for MESSAGE_RESPONSE and never compares the task ID that every message
   carries (`global.h:80`).
2. **Workers take each other's completions** (`transfer_mixed`).
3. **One client stops the Listener** (`connect_listener`): end of file is read
   again for ever, `RdmaSocket.cpp:478`; so does a client that timed out and keeps
   its socket, for the Listener's read has no timeout.
4. **An allocation never returns** (`blocks_returns`): a second lock where an
   unlock was meant, and a loop that does not advance at a bit that is taken.

Others are stated by the properties that hold, which say how far the code can be
relied on and no further:

* `EveryCallReturns` of `RdmaCall` speaks of runs without MESSAGE_MALLOC, which
  `server.cpp:105` ignores: `BlockAlloc` never returns, and every resend uses up a
  receive (`ReceivesAccounted` counts them, in `call_retry`).
* `PartsCover`: with two workers the parts leave out what does not divide into equal
  whole pages, because the last part is given the rest only if it is the fourth
  (`i < 3`, `RdmaSocket.cpp:882`).  It is stated, and proved, for one to four workers:
  with more the fourth part would be given everything the later ones have too.
* `TransferredByCaller`: below the threshold and before the first call the calling
  thread is alone with the completion queue, and its data has arrived, whatever the
  workers did before.  A call leaves an entry that the next transfer takes for its
  own.  `CompletionBalance` is the exact measure: before the first call there are as
  many entries present or to come as threads that poll, from then on one more.
* `SendQueueBound`: with a signaled request in 32, 128 entries are enough for a client
  of three servers, and not for one of four.  That is the hypothesis `DeepEnough` of the
  theorems about it: servers and completions nobody takes are three together.
* `Protected`, and `Undisturbed` in the other properties of `ServerRpc`: the data area
  begins inside the receive pool (`MemoryManager.cpp:38`), with the code's sizes behind
  the first slot of server 1, and the 25th client's mailbox is in the send pool.  A thread
  whose slots lie there (`~Safe`) is reached by a client that writes that data or has
  that NodeID, while it has a call under way, and only that thread: a call of another
  gets its own answer and returns, whatever is written elsewhere.
* `Crashes`: what a process can die of.  A failed CreateResources leads to a crash
  later (`RdmaSocket.cpp:33` ignores its result); so does a failed ibv_create_qp; and a
  server's destructor reads entries of `peers[]` that were never set.

## 4. Proofs

TLAPS checks eight modules; each theorem holds for every value of the constants that
satisfies the named assumption of the component's module.

**`RdmaCallProofs`**, for any clients, workers, assignment of clients to
completion queues, set of requests, receive depth, signal period and bounds
(`ConstantsAssumption`):

* `TypeCorrect`: `Spec => []TypeOK`;
* `Invariance`: `Spec => []IInv`, the inductive invariant;
* `InFlightBounded`, `OwnAnswers`, `NoReceiveLost`: the safety properties of
  `call_service` and `call_retry`;
* `HandedOver`: `Spec => BufferHandover`, an action property.
* `Implements`: `Spec /\ []NothingResent => ExactlyOnce`, the refinement of
  `CallService`, and `ImplementsPatiently`: `MaxResends = 0 /\ Spec => ExactlyOnce`, what
  `call_service` checks.

Why a stronger invariant is needed.  `OwnAnswer` speaks of a client that has
returned; that the response is its own depends on what was in the mailbox when
the worker read it, and that on what the adapter read from the client's buffer.
`IInv` follows the one request of a client that has not resent through the
places it can be (posted, on the wire, arrived, in the worker's hands, response
posted, response on the wire) and says for each place what buffer, mailbox, wire
and `replyTask` hold.  The sum of the places is at most one (`InFlight`), so that
a step can find the request in one place only.  With resends the sum is bounded
by their number, and nothing is said of contents.  The number of receives
`Receives` is carried beside it, since every step that takes an arrival out of a
place puts it in the next.  The lemmas come first (what appending, taking the
head and updating a function do to the sums), then one lemma per action, then the
temporal theorems.

The refinement needs one thing more, `Once`: task numbers only grow, and the task the
server answered last is the client's current one exactly when its reply is under way or
has been seen.  With what `IInv` says of the one request in flight, each step then is a
step of `CallService` or leaves its state alone: the call issues, `Reply` executes, the
return returns (`ServiceStep`; one lemma per action).  A resend breaks it, as the code
does: the server executes what arrives.

**`AdapterProofs`**, for any peers and any numbers of completion queues and queue
pairs (`AdapterAssumption`): all five invariants of `adapter_failures`
(`TypeCorrect`, `PeersReady`, `NothingLeft`, `GivesBack`, `CrashCauses`).  The
inductive invariant says of each stage what is open (`Resources`, `Released`), of
each step of a connection in which states its queue pairs can be and that they
belong to an open domain (`Pairs`), that the connecting thread makes one
connection at a time and none when the destructor runs (`Thread`), and what a
client's destructor has left (`Left`).  `ReadyPeers` needs the last link of a chain:
a queue pair that is ready keeps the domain open, the domain is open only if
CreateResources did not fail, and then all completion queues are.  `Crashes` is
proved from that invariant by looking at each call that can be given a null or
wild pointer.

**`ServerRpcProofs`** begins with `MemoryLayout`, for all sizes and numbers of servers,
slots and clients (`LayoutAssumption`): the slots of a pool never overlap
(`SlotsDisjoint`); each pool keeps to its place (`PoolsApart`); the first
MAX_CLIENT_NUMBER mailboxes are apart and before the pools and later ones are not
(`Mailboxes`); client and server agree where the data area begins (`DataArea`); and
exactly which receive slots it covers (`DataOverSlots`).

On these stand the theorems of `ServerRpc`, for any servers, threads, slots, clients,
sizes, receive depth and bounds (`RpcAssumption`): all that `rpc_slots` checks but
liveness (`TypeCorrect`, `Protection`, `OwnAnswers`, `Accounted`, the action property
`HandedOver`, and the refinement `Implements`).  The inductive invariant (`Invariance`) has three
parts.  `Typed` adds to the types who may have put what where: a queue pair carries
requests of its server's threads and replies to those of the other server, and a
completion queue requests of other servers.  `Local` follows one thread.  Its call, or
the answer, is at one of six places (posted, on the wire, arrived, with the worker,
reply posted, reply on the wire), counted by `Load`, which is at most one and none
unless the thread spins; while it is under way the thread's slot shows no response, and
if the thread is `Undisturbed` each place holds what it sent, and then the response to
it (`Carried`).  `Account` says that the receives that are neither posted nor with the
worker are no more than the threads that are lost: `Lost` threads spin with nothing
under way and no response in their slot.  A lost thread stays lost, and the step that
drops a receive, `Classify` of a request that a client has overwritten, is the step that
loses its thread; this ties the second part to the third and is why neither is inductive
alone.  That one thread's writes miss the cells of another is `Apart` and `Pools`, from
the layout.  A client's write misses the cells of a call that is under way, or its thread
is `overwritten` from then on: this is the history variable, and no arithmetic.  The
arithmetic is in `Protection`, which bounds whom that can be: a mailbox that is a
client's own is before the pools (`MailboxBefore`), any mailbox is away from the slots of
a `Safe` thread (`MailboxAway`), and so is the data area (`DataAway`).  A reply to a
client needs one fact about the past (`Answerable`): a mailbox that is not the client's
own and has a request to answer was written by a client, so that `foreign` is set.

`Implements` is the refinement of `CallService`: `Spec => ExactlyOnce`, without a
hypothesis, since servers do not resend.  The invariant says for it whether a worker has
answered the thread's latest task (`Answered`, in `Carried` and `Own`: not while the
request is on its way or with the worker, and always from the reply on), and that a
server's task numbers grow (`Numbered`), so that a new call is unanswered.  Each step
then is one of `CallService` for one thread and is not seen by the others
(`ServiceStep`), or is seen by none.  The exception in `ExactlyOnce` is for the threads
in `overwritten` one by one.  `ImplementsAlone` drops it by `Protection`:
`Spec /\ [](~foreign) => Service!Spec`.

**`ConnectionProofs`**, for any numbers of servers, clients and completion queues
(`ConnectionAssumption`), with any clients dying at any time: all three invariants of
`connect_peers` (`TypeCorrect`, `NodeIDsUnique`, `PeersOwned`), and that worker 0, which
serves the servers, has no client (`QueuesApart`).  None of
them is inductive: what a server enters in `peers[]` was agreed two messages before.
The inductive invariant follows each connection on its own: where it is on either
side, at most in one place (`OnceAt`); which bytes of it the server has not read
(`BytesAt`); and that both sides come to the same NodeID (`AgreedAt`), which for server
1 is the one it offered and for the others the one the client told them, so that it
must have been with server 1 first (`Order`).  Over all connections, no two clients
alive have been given or offered one NodeID, and the next one to be given is claimed
by nobody but the client the Listener of server 1 is talking to (`Unclaimed`).  That
there are no more NodeIDs than clients is an argument about a set (`Named`): each client
named has left the backlog for good.  A step touches one connection; `OtherLinks`
keeps the rest.

**`BlockBitmapProofs`**, for any threads, any bitmap and any requests
(`BitmapAssumption`): both invariants of `blocks_found` (`TypeCorrect`,
`FoundOnceAlways`).  The inductive invariant explains why they hold: the first thread
that gets the lock keeps it, and takes blocks 0, 1, 2, ... each with its mirror image,
so that it stops before block 4, whose bit is then 1 and is tested for ever.
`FirstCallOnly` states what that leaves of the allocator: one call, and at most four
blocks.

**`DataTransferProofs`**, for one to four workers, any sizes, pool, page, threshold and
signal period, any numbers of transfers and calls, and any queue pairs failing at any
time (`TransferAssumption`): all five invariants of `transfer_returns` (`TypeCorrect`,
`Balanced`, `NothingLeft`, `SmallTransfers`, `PartsAreASplit`).  The inductive invariant
has four parts.  `Typed` is `TypeOK` with the bounds that keep a chunk within its pool
and a part within the buffers.  `Scheduled` says who is at work in each mode, and that
`TransferSignal` counts the workers that are done.  `Balance` is `CompletionBalance`: it
is inductive because a completion is taken by a thread that polls, whosesoever it is.
`Working` follows the data of the calling thread's own transfer, chunk by chunk, and
needs `Balance`: before the first `RdmaCall` a single thread polls, so that the one entry
there is, or the one request there is, must be its own.  That step fails as soon as two
threads poll, and `transfer_mixed` shows what happens then.  `PartsAreASplit` is
arithmetic: quotients and remainders of any size by workers and pages.

**`SendQueueProofs`**, for any servers, signal period, batches and completions nobody
takes (`SendQueueAssumption`).  For any depth: the types (`QueueTypeCorrect`), and that
the completion queue has as many entries of a server as signaled requests to it were
performed and not freed (`CompletionsMatch`), so that `PollCompletion` never frees a
request the adapter has not performed.  For send queues that are `DeepEnough`:
`CompletionsBalance` and `QueuesBounded`.  These two need each other: a queue that
overflows refuses a signaled request, whose completion is then missing, and a bound on
the queues needs the count of completions.  What joins them is `Dense`: every last part
of a send queue, with what is prepared behind it, has at most one period of requests for
each signaled one in it and those since the last of a batch.  It survives
`PollCompletion`, which frees a first part.  Without `DeepEnough` both are false (four
servers, with the code's numbers).

**`FiniteLemmas`** has what several of these share: the sum of naturals over a finite set
is the number of pairs below the terms, so that it changes by as much as one term does;
the signaled requests of a queue are counted from a position on (`Since`) and up to one
(`Until`); and what counts in a sequence (`Matches`) grows and shrinks with its ends.
`MapThenSumSet` is recursive, and an induction over sets is out of reach here since it
needs a theorem with an operator as a parameter; the lemmas argue by a least
counterexample instead, a smallest set on which the sum and the count differ.

Every invariant and every action property that a passing run checks is a theorem.  Only
model-checked: the liveness properties (`EveryCallReturns`, `EveryTransferReturns`,
`EveryPostReturns`, `Joined`, `ConnectReturns`), since liveness under fairness needs
ENABLED, which is out of this prover's reach; the runs that are violated, by their
nature.

## 5. Not modelled, and plan

Not modelled, and why:

* block operations of a client (`BlockAlloc`, `BlockWrite`, `IndexWrite`,
  `RangeCover`): `client.cpp` does not compile with them as they are, and `BlockAlloc`
  waits for an answer to MESSAGE_MALLOC that no server sends; the loop in `RdmaCall`
  that it would hang in is modelled;
* `freeMemoryBlocks`: no caller; it passes addresses where the bitmap wants block
  numbers;
* partial reads of the TCP exchange and the death of a server;
* a server's destructor running while its workers poll (`server.cpp:28`), and threads
  of a server that never called `setID`;
* in `ServerRpc`, clients beyond 24 + 8 per server, and data that reads as a message;
* configuration, debug output, the example programs: no state that another part reads
  later, or code of the user.

What the plan has left, most important first: the death of a server and partial reads in
`Connection`; shutdown composed with the workers.
