------------------------- MODULE BlockBitmapProofs -------------------------
(***************************************************************************)
(* Proofs about BlockBitmap, for any threads, any bitmap and any requests. *)
(*                                                                         *)
(* The inductive invariant says how little the allocator does: the first   *)
(* thread to lock the bitmap keeps the lock for good (Owned); it takes the *)
(* first blocks of byte 0 in order, each with its mirror image, so that    *)
(* the search stops before block 4 (Searching).                            *)
(***************************************************************************)
EXTENDS BlockBitmap, TLAPS

Waiting(t) == pc[t] \in {"idle", "lock"} /\ lists[t] = <<>>

\* Thread o has found blocks 0, 1, 2, ...
Searching(o) ==
  /\ pc[o] \in {"byte", "bit", "take", "relock"}
  /\ i[o] = 0 /\ pos[o] = Len(lists[o]) /\ pos[o] <= 4
  /\ \A n \in 1..Len(lists[o]) : lists[o][n] = n - 1
  /\ taken = {b \in 0..7 : b < pos[o] \/ 7 - b < pos[o]}
  /\ pc[o] = "take" => pos[o] \notin taken

Owned ==
  /\ ~lock => taken = {} /\ \A t \in Threads : Waiting(t)
  /\ lock => \E o \in Threads :
       Searching(o) /\ \A t \in Threads \ {o} : Waiting(t)

IInv == TypeOK /\ Owned

-----------------------------------------------------------------------------
LEMMA FirstByte == 0..7 \subseteq Blocks /\ Bytes \in Nat \ {0}
BY BitmapAssumption DEF Blocks

LEMMA IInit == Init => IInv
<1> SUFFICES ASSUME Init PROVE IInv
  OBVIOUS
<1>1. TypeOK
  <2>1. 0 \in 0..Bytes /\ 0 \in 0..8 /\ 0 \in 0..MaxRejected /\ <<>> \in Seq(Blocks)
    BY FirstByte, BitmapAssumption
  <2> QED BY <2>1 DEF Init, TypeOK
<1>2. Owned
  BY DEF Init, Owned, Waiting
<1> QED BY <1>1, <1>2 DEF IInv

\* What a step of one thread leaves alone in another.
LEMMA OthersWait ==
  ASSUME NEW t \in Threads, NEW o \in Threads, t # o, Waiting(t),
         pc'[t] = pc[t], lists'[t] = lists[t]
  PROVE  Waiting(t)'
BY DEF Waiting

\* A thread that is past the lock is the one that holds it.
LEMMA TheOwner ==
  ASSUME Owned, NEW t \in Threads, pc[t] \notin {"idle", "lock"}
  PROVE  lock /\ Searching(t) /\ \A u \in Threads \ {t} : Waiting(u)
BY DEF Owned, Waiting

\* A step of the owner that keeps the lock.
LEMMA OwnerStep ==
  ASSUME Owned, NEW t \in Threads, pc[t] \notin {"idle", "lock"},
         Searching(t)', lock' = lock,
         \A u \in Threads \ {t} : pc'[u] = pc[u] /\ lists'[u] = lists[u]
  PROVE  Owned'
BY TheOwner DEF Owned, Waiting

-----------------------------------------------------------------------------
LEMMA RefuseStep ==
  ASSUME IInv, NEW t \in Threads, NEW n \in Nums, Refuse(t, n)  PROVE IInv'
<1>1. rejected' \in [Threads -> 0..MaxRejected]
  BY BitmapAssumption DEF IInv, TypeOK, Refuse
<1>2. TypeOK'
  BY <1>1 DEF IInv, TypeOK, Refuse
<1>3. Owned'
  BY DEF IInv, Owned, Waiting, Searching, Refuse
<1> QED BY <1>2, <1>3 DEF IInv

LEMMA AllocateStep ==
  ASSUME IInv, NEW t \in Threads, NEW n \in Nums, Allocate(t, n)  PROVE IInv'
<1>1. /\ pc[t] = "idle" /\ pc' = [pc EXCEPT ![t] = "lock"]
      /\ UNCHANGED <<taken, lock, i, pos, lists, rejected>>
  BY DEF Allocate, Goto
<1>2. TypeOK'
  BY <1>1 DEF IInv, TypeOK, Allocate
<1>3. pc'[t] = "lock" /\ \A u \in Threads \ {t} : pc'[u] = pc[u]
  BY <1>1 DEF IInv, TypeOK
<1>4. CASE ~lock
  <2>1. taken = {} /\ \A u \in Threads : Waiting(u)
    BY <1>4 DEF IInv, Owned
  <2>2. \A u \in Threads : Waiting(u)'
    BY <1>1, <1>3, <2>1 DEF Waiting
  <2>3. ~lock'
    BY <1>1, <1>4
  <2>4. taken' = {}
    BY <1>1, <2>1
  <2> QED BY <1>2, <2>2, <2>3, <2>4 DEF Owned, IInv
<1>5. CASE lock
  <2>1. PICK o \in Threads : Searching(o) /\ \A u \in Threads \ {o} : Waiting(u)
    BY <1>5 DEF IInv, Owned
  <2>2. o # t
    BY <1>1, <2>1 DEF Searching
  <2>3. Searching(o)'
    BY <1>1, <1>3, <2>1, <2>2 DEF Searching
  <2>4. \A u \in Threads \ {o} : Waiting(u)'
    BY <1>1, <1>3, <2>1 DEF Waiting
  <2>5. lock'
    BY <1>1, <1>5
  <2> QED BY <1>2, <2>3, <2>4, <2>5 DEF Owned, IInv
<1> QED BY <1>4, <1>5

LEMMA EnterStep == ASSUME IInv, NEW t \in Threads, Enter(t) PROVE IInv'
<1>1. /\ pc[t] = "lock" /\ ~lock /\ lock' /\ pc' = [pc EXCEPT ![t] = "byte"]
      /\ i' = [i EXCEPT ![t] = 0] /\ pos' = [pos EXCEPT ![t] = 0]
      /\ lists' = [lists EXCEPT ![t] = <<>>] /\ lock' \in BOOLEAN
      /\ UNCHANGED <<taken, num, rejected>>
  BY DEF Enter, Goto, Acquire
<1>2. TypeOK'
  BY <1>1, FirstByte DEF IInv, TypeOK
<1>3. taken = {} /\ \A u \in Threads : Waiting(u)
  BY <1>1 DEF IInv, Owned
<1>4. /\ pc'[t] = "byte" /\ i'[t] = 0 /\ pos'[t] = 0 /\ lists'[t] = <<>>
      /\ \A u \in Threads \ {t} : pc'[u] = pc[u] /\ lists'[u] = lists[u]
  BY <1>1 DEF IInv, TypeOK
<1>5. Searching(t)'
  <2>1. {b \in 0..7 : b < 0 \/ 7 - b < 0} = {}
    OBVIOUS
  <2>2. taken' = {b \in 0..7 : b < pos'[t] \/ 7 - b < pos'[t]}
    BY <1>1, <1>3, <1>4, <2>1
  <2> QED BY <1>4, <2>2 DEF Searching
<1>6. \A u \in Threads \ {t} : Waiting(u)'
  BY <1>3, <1>4 DEF Waiting
<1> QED BY <1>1, <1>2, <1>5, <1>6 DEF IInv, Owned

LEMMA EachByteStep == ASSUME IInv, NEW t \in Threads, EachByte(t) PROVE IInv'
<1>1. /\ pc[t] = "byte" /\ \E p \in {"bit", "relock"} : pc' = [pc EXCEPT ![t] = p]
      /\ UNCHANGED <<taken, lock, num, i, pos, lists, rejected>>
  BY DEF EachByte, Goto
<1>2. TypeOK'
  BY <1>1 DEF IInv, TypeOK
<1>3. pc'[t] \in {"bit", "relock"} /\ \A u \in Threads \ {t} : pc'[u] = pc[u]
  BY <1>1 DEF IInv, TypeOK
<1>4. Searching(t)'
  BY <1>1, <1>3, TheOwner DEF IInv, Searching
<1> QED BY <1>1, <1>2, <1>3, <1>4, OwnerStep DEF IInv

LEMMA EachBitStep == ASSUME IInv, NEW t \in Threads, EachBit(t) PROVE IInv'
<1>1. pc[t] = "bit" /\ UNCHANGED <<taken, lock, num, pos, lists, rejected>>
  BY DEF EachBit, Goto
<1>2. Searching(t) /\ pos[t] \in 0..4 /\ i[t] = 0
  <2>1. Searching(t)
    BY <1>1, TheOwner DEF IInv
  <2>2. pos[t] \in 0..8
    BY DEF IInv, TypeOK
  <2>3. pos[t] <= 4 /\ i[t] = 0
    BY <2>1 DEF Searching
  <2> QED BY <2>1, <2>2, <2>3
<1>3. /\ i' = i
      /\ pc' = [pc EXCEPT ![t] = IF pos[t] \in taken THEN "bit" ELSE "take"]
  <2>1. pos[t] # 8 /\ 8 * i[t] + pos[t] = pos[t]
    BY <1>2
  <2>2. i' = [i EXCEPT ![t] = i[t]]
    BY <2>1 DEF EachBit
  <2>3. i' = i
    BY <2>2 DEF IInv, TypeOK
  <2> QED BY <2>1, <2>3 DEF EachBit, Goto
<1>4. /\ pc'[t] = IF pos[t] \in taken THEN "bit" ELSE "take"
      /\ \A u \in Threads \ {t} : pc'[u] = pc[u]
  BY <1>3 DEF IInv, TypeOK
<1>5. TypeOK'
  BY <1>1, <1>3 DEF IInv, TypeOK
<1>6. Searching(t)'
  BY <1>1, <1>2, <1>3, <1>4 DEF Searching
<1> QED BY <1>1, <1>4, <1>5, <1>6, OwnerStep DEF IInv

LEMMA TakeBlockStep == ASSUME IInv, NEW t \in Threads, TakeBlock(t) PROVE IInv'
<1> DEFINE p == pos[t]
<1>1. pc[t] = "take" /\ UNCHANGED <<lock, num, i, rejected>>
  BY DEF TakeBlock, Goto
<1>2. Searching(t) /\ i[t] = 0
  BY <1>1, TheOwner DEF IInv, Searching
<1>3. /\ p \in 0..3 /\ p = Len(lists[t])
      /\ taken = {b \in 0..7 : b < p \/ 7 - b < p}
      /\ \A n \in 1..p : lists[t][n] = n - 1
  <2>1. p \in 0..8 /\ p <= 4 /\ p \notin taken
    BY <1>1, <1>2 DEF IInv, TypeOK, Searching
  <2>2. /\ p = Len(lists[t]) /\ taken = {b \in 0..7 : b < p \/ 7 - b < p}
        /\ \A n \in 1..Len(lists[t]) : lists[t][n] = n - 1
    BY <1>2 DEF Searching
  <2> HIDE DEF p
  <2>3. p # 4
    <3> SUFFICES ASSUME p = 4 PROVE FALSE
      OBVIOUS
    <3>1. 4 \in {b \in 0..7 : b < 4 \/ 7 - b < 4}
      OBVIOUS
    <3> QED BY <2>1, <2>2, <3>1
  <2>4. p \in 0..3
    BY <2>1, <2>3
  <2>5. \A n \in 1..p : lists[t][n] = n - 1
    BY <2>2
  <2> QED BY <2>2, <2>4, <2>5
<1>4. Mirror(t) = 7 - p /\ 8 * i[t] + p = p
  BY <1>2, <1>3 DEF Mirror
<1>5. /\ taken' = taken \cup {p, 7 - p}
      /\ lists' = [lists EXCEPT ![t] = Append(@, p)]
      /\ pos' = [pos EXCEPT ![t] = p + 1]
      /\ \E q \in {"relock", "bit"} : pc' = [pc EXCEPT ![t] = q]
  BY <1>4 DEF TakeBlock, Goto
<1> HIDE DEF p
<1>6. p \in 0..3
  BY <1>3
<1>7. /\ pos'[t] = p + 1 /\ lists'[t] = Append(lists[t], p)
      /\ pc'[t] \in {"relock", "bit"}
      /\ \A u \in Threads \ {t} : pc'[u] = pc[u] /\ lists'[u] = lists[u]
  BY <1>5 DEF IInv, TypeOK
<1>8. p \in Blocks /\ 7 - p \in Blocks /\ lists[t] \in Seq(Blocks)
  <2>1. p \in 0..7 /\ 7 - p \in 0..7
    BY <1>6
  <2> QED BY <2>1, FirstByte DEF IInv, TypeOK
<1>9. TypeOK'
  <2>0. p + 1 \in 0..8
    BY <1>6
  <2>1. Append(lists[t], p) \in Seq(Blocks) /\ p + 1 \in 0..8
    BY <1>8, <2>0
  <2>2. lists' \in [Threads -> Seq(Blocks)]
    BY <1>5, <2>1 DEF IInv, TypeOK
  <2>3. taken' \subseteq Blocks
    BY <1>5, <1>8 DEF IInv, TypeOK
  <2> QED BY <1>1, <1>5, <2>1, <2>2, <2>3 DEF IInv, TypeOK
<1>10. Searching(t)'
  <2>1. /\ Len(lists'[t]) = p + 1 /\ lists'[t][p + 1] = p
        /\ \A n \in 1..p : lists'[t][n] = lists[t][n]
    BY <1>3, <1>7, <1>8
  <2>2. \A n \in 1..(p + 1) : lists'[t][n] = n - 1
    BY <1>3, <2>1
  <2>3. taken' = {b \in 0..7 : b < p + 1 \/ 7 - b < p + 1}
    <3>1. p \in 0..3 /\ taken = {b \in 0..7 : b < p \/ 7 - b < p}
      BY <1>3
    <3>2. {b \in 0..7 : b < p \/ 7 - b < p} \cup {p, 7 - p}
            = {b \in 0..7 : b < p + 1 \/ 7 - b < p + 1}
      BY <3>1
    <3> QED BY <1>5, <3>1, <3>2
  <2>4. p + 1 <= 4
    BY <1>6
  <2> QED BY <1>1, <1>2, <1>7, <2>1, <2>2, <2>3, <2>4 DEF Searching
<1> QED BY <1>1, <1>7, <1>9, <1>10, OwnerStep DEF IInv

LEMMA ReturnStep == ASSUME IInv, NEW t \in Threads, Return(t) PROVE IInv'
<1>1. pc[t] = "relock" /\ UNCHANGED <<taken, lock, num, i, pos, lists, rejected>>
  BY DEF Return, Goto
<1>2. lock
  BY <1>1, TheOwner DEF IInv
<1>3. pc' = pc
  BY <1>1, <1>2 DEF Return, Goto, IInv, TypeOK
<1>4. TypeOK'
  BY <1>1, <1>3 DEF IInv, TypeOK
<1>5. Searching(t)'
  BY <1>1, <1>3, TheOwner DEF IInv, Searching
<1> QED BY <1>1, <1>3, <1>4, <1>5, OwnerStep DEF IInv

LEMMA IStep == IInv /\ [Next]_vars => IInv'
<1> SUFFICES ASSUME IInv, [Next]_vars PROVE IInv'
  OBVIOUS
<1>1. ASSUME NEW t \in Threads, Step(t) PROVE IInv'
  BY <1>1, EnterStep, EachByteStep, EachBitStep, TakeBlockStep, ReturnStep DEF Step
<1>2. ASSUME NEW t \in Threads, NEW n \in Nums, Refuse(t, n) \/ Allocate(t, n) PROVE IInv'
  BY <1>2, RefuseStep, AllocateStep
<1>3. CASE UNCHANGED vars
  <2>1. UNCHANGED <<taken, lock, pc, num, i, pos, lists, rejected>>
    BY <1>3 DEF vars
  <2>2. TypeOK'
    BY <2>1 DEF IInv, TypeOK
  <2>3. \A t \in Threads : /\ Waiting(t)' <=> Waiting(t)
                           /\ Searching(t)' <=> Searching(t)
    BY <2>1 DEF Waiting, Searching
  <2>4. Owned'
    BY <2>1, <2>3 DEF IInv, Owned
  <2> QED BY <2>2, <2>4 DEF IInv
<1> QED BY <1>1, <1>2, <1>3 DEF Next

-----------------------------------------------------------------------------
\* The inductive invariant.
THEOREM Invariance == Spec => []IInv
<1>1. Init => IInv
  BY IInit
<1>2. IInv /\ [Next]_vars => IInv'
  BY IStep
<1> QED BY <1>1, <1>2, PTL DEF Spec

\* getAvailableBlocks never looks beyond the bitmap, however many blocks it is
\* asked for and however small the bitmap.
THEOREM TypeCorrect == Spec => []TypeOK
<1>1. IInv => TypeOK
  BY DEF IInv
<1> QED BY <1>1, Invariance, PTL

\* getAvailableBlocks under its lock: no block is found twice, and what was found is
\* marked in the bitmap.
THEOREM FoundOnceAlways == Spec => []FoundOnce
<1>1. IInv => FoundOnce
  <2> SUFFICES ASSUME IInv,
                      NEW t \in Threads, NEW n \in 1..(8 * Bytes), n <= Len(lists[t]),
                      NEW u \in Threads, NEW k \in 1..(8 * Bytes), k <= Len(lists[u])
      PROVE  /\ lists[t][n] \in taken
             /\ <<t, n>> # <<u, k>> => lists[t][n] # lists[u][k]
    BY DEF FoundOnce
  <2>1. ASSUME NEW w \in Threads, NEW m \in 1..(8 * Bytes), m <= Len(lists[w])
        PROVE  pc[w] \notin {"idle", "lock"} /\ m \in Nat \ {0}
    <3>1. m \in Nat \ {0} /\ lists[w] # <<>>
      BY <2>1, FirstByte
    <3>2. ~Waiting(w)
      BY <3>1 DEF Waiting
    <3>3. Searching(w)
      BY <3>2 DEF IInv, Owned
    <3> QED BY <3>1, <3>3 DEF Searching
  <2>2. Searching(t) /\ t = u
    BY <2>1, TheOwner DEF IInv, Waiting
  <2>3. n \in 1..Len(lists[t]) /\ k \in 1..Len(lists[t]) /\ Len(lists[t]) \in Nat
    BY <2>1, <2>2 DEF IInv, TypeOK
  <2>4. lists[t][n] = n - 1 /\ lists[t][k] = k - 1 /\ n - 1 \in 0..7 /\ n - 1 < pos[t]
    BY <2>2, <2>3 DEF Searching
  <2>5. lists[t][n] \in taken
    BY <2>2, <2>4 DEF Searching
  <2> QED BY <2>1, <2>2, <2>4, <2>5
<1> QED BY <1>1, Invariance, PTL

\* One call of allocateMemoryBlocks uses up the allocator: whoever enters it first
\* holds the lock ever after, having found no more than four blocks.
THEOREM FirstCallOnly ==
  Spec => [](\A t \in Threads : lists[t] # <<>> =>
               /\ lock /\ Len(lists[t]) <= 4
               /\ \A u \in Threads \ {t} : lists[u] = <<>>)
<1>1. IInv => \A t \in Threads : lists[t] # <<>> =>
               /\ lock /\ Len(lists[t]) <= 4
               /\ \A u \in Threads \ {t} : lists[u] = <<>>
  BY TheOwner DEF IInv, Owned, Waiting, Searching
<1> QED BY <1>1, Invariance, PTL
=============================================================================
