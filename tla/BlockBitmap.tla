---------------------------- MODULE BlockBitmap ----------------------------
(***************************************************************************)
(* The block allocator of a server: MemoryManager::allocateMemoryBlocks,   *)
(* BlockBitmap::getAvailableBlocks and BlockBitmap::set.                   *)
(*                                                                         *)
(* Block 8 * i + j is bit 0x80 >> j of byte i of the bitmap; it is free    *)
(* when the bit is 0.  getAvailableBlocks runs under a lock that is not    *)
(* recursive.  Between two steps of a thread here, other threads may run.  *)
(***************************************************************************)
EXTENDS Naturals, Sequences, FiniteSets

CONSTANTS
  Threads,     \* threads that allocate
  Bytes,       \* BlockBitmap::N
  MaxAddrNum,  \* MAX_ADDR_NUM
  Nums,        \* how many blocks the threads ask for
  MaxRejected  \* bound: requests of a thread that are refused

\* Nobody asks for 0 blocks: for that getAvailableBlocks has no return at all.
ASSUME BitmapAssumption ==
  /\ Bytes \in Nat \ {0} /\ MaxAddrNum \in Nat /\ MaxRejected \in Nat
  /\ Nums \subseteq Nat \ {0}

Blocks == 0..(8 * Bytes - 1)

VARIABLES
  taken,     \* blocks whose bit is 1
  lock,      \* bits_lock_
  pc,        \* where a thread is in getAvailableBlocks
  num,       \* its argument
  i, pos,    \* its loop variables: the byte and the bit
  lists,     \* the blocks it has found so far; count_ is their number
  rejected   \* history: requests refused so far

vars == <<taken, lock, pc, num, i, pos, lists, rejected>>

Init ==
  /\ taken = {} /\ lock = FALSE
  /\ pc = [t \in Threads |-> "idle"]
  /\ num = [t \in Threads |-> 0]
  /\ i = [t \in Threads |-> 0] /\ pos = [t \in Threads |-> 0]
  /\ lists = [t \in Threads |-> <<>>]
  /\ rejected = [t \in Threads |-> 0]

Goto(t, from, to) == pc[t] = from /\ pc' = [pc EXCEPT ![t] = to]

\* allocateMemoryBlocks returns ERROR.
Refuse(t, n) ==
  /\ pc[t] = "idle" /\ n > MaxAddrNum /\ rejected[t] < MaxRejected
  /\ rejected' = [rejected EXCEPT ![t] = @ + 1]
  /\ UNCHANGED <<taken, lock, pc, num, i, pos, lists>>

Allocate(t, n) ==
  /\ n <= MaxAddrNum
  /\ Goto(t, "idle", "lock")
  /\ num' = [num EXCEPT ![t] = n]
  /\ UNCHANGED <<taken, lock, i, pos, lists, rejected>>

\* Mutant of Acquire: the lock guard is missing.
AcquireNothing(t) == UNCHANGED lock

\* The constructor of lock_guard: wait for the lock, whoever holds it.
Acquire(t) == ~lock /\ lock' = TRUE

Enter(t) ==
  /\ Goto(t, "lock", "byte")
  /\ Acquire(t)
  /\ i' = [i EXCEPT ![t] = 0] /\ pos' = [pos EXCEPT ![t] = 0]
  /\ lists' = [lists EXCEPT ![t] = <<>>]
  /\ UNCHANGED <<taken, num, rejected>>

\* The for loop, over num bytes.  Its test for a full byte never succeeds: a
\* char is signed, so the byte 0xFF is -1 and -1 ^ 0xFF is not 0.
EachByte(t) ==
  /\ Goto(t, "byte", IF i[t] < num[t] THEN "bit" ELSE "relock")
  /\ UNCHANGED <<taken, lock, num, i, pos, lists, rejected>>

\* The while loop.  A bit that is 1 is tested again: pos stays as it is.  (Nor
\* is pos reset for the next byte.)
EachBit(t) ==
  /\ Goto(t, "bit", IF pos[t] = 8 THEN "byte"
                    ELSE IF 8 * i[t] + pos[t] \in taken THEN "bit" ELSE "take")
  /\ i' = [i EXCEPT ![t] = IF pos[t] = 8 THEN @ + 1 ELSE @]
  /\ UNCHANGED <<taken, lock, num, pos, lists, rejected>>

\* Mutant of Mirror: off by one.
MirrorShifted(t) == 8 * i[t] + 8 - pos[t]

Mirror(t) == 8 * i[t] + 7 - pos[t]

\* The bit 1 << pos is set, which is the block mirrored in the byte, and then
\* the block itself, with set.  With the last but one the search is over.
TakeBlock(t) ==
  LET k == 8 * i[t] + pos[t] IN
  /\ taken' = taken \cup {k, Mirror(t)}
  /\ lists' = [lists EXCEPT ![t] = Append(@, k)]
  /\ pos' = [pos EXCEPT ![t] = @ + 1]
  /\ Goto(t, "take", IF Len(lists[t]) + 1 = num[t] - 1 THEN "relock" ELSE "bit")
  /\ UNCHANGED <<lock, num, i, rejected>>

\* Both return statements first lock the lock a second time, meaning to unlock
\* it; only then would the two guards let go of it.
Return(t) ==
  /\ Goto(t, "relock", IF lock THEN "relock" ELSE "idle")
  /\ UNCHANGED <<taken, lock, num, i, pos, lists, rejected>>

Step(t) == Enter(t) \/ EachByte(t) \/ EachBit(t) \/ TakeBlock(t) \/ Return(t)

Next == \E t \in Threads : Step(t) \/ \E n \in Nums : Refuse(t, n) \/ Allocate(t, n)

Spec == Init /\ [][Next]_vars

\* A thread that can go on does.
FairSpec == Spec /\ \A t \in Threads : WF_vars(Step(t))

-----------------------------------------------------------------------------
(***************************************************************************)
(* Properties.                                                             *)
(***************************************************************************)

\* Every variable keeps its type; nothing is found beyond the bitmap or more
\* than is asked for.
TypeOK ==
  /\ taken \subseteq Blocks /\ lock \in BOOLEAN
  /\ pc \in [Threads -> {"idle", "lock", "byte", "bit", "take", "relock"}]
  /\ num \in [Threads -> Nums \cup {0}]
  /\ i \in [Threads -> 0..Bytes] /\ pos \in [Threads -> 0..8]
  /\ lists \in [Threads -> Seq(Blocks)] /\ rejected \in [Threads -> 0..MaxRejected]

\* No block is found twice, by one thread or by two, and what was found is marked
\* in the bitmap.
FoundOnce ==
  LET found == {<<t, n>> : t \in Threads, n \in 1..(8 * Bytes)} IN
  \A f, g \in {x \in found : x[2] <= Len(lists[x[1]])} :
    /\ lists[f[1]][f[2]] \in taken
    /\ f # g => lists[f[1]][f[2]] # lists[g[1]][g[2]]

\* A thread that asks for blocks gets an answer.
AllocateReturns == \A t \in Threads : pc[t] # "idle" ~> pc[t] = "idle"
=============================================================================
