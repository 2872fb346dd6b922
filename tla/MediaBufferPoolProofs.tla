------------------------ MODULE MediaBufferPoolProofs ------------------------
(***************************************************************************)
(* The safety of MediaBufferPool for any number of buffers and threads.    *)
(* The invariants the runs check are inductive together once two facts are *)
(* added: only the deleters of a pool made by create() lock it, and a plain *)
(* pool is destroyed with all its buffers in it.                           *)
(***************************************************************************)
EXTENDS MediaBufferPool, FunctionTheorems, FiniteSetTheorems, TLAPS

\* TypeOK without its bound, which follows from BufferHasOneOwner; a thread runs
\* one deleter at a time.
Typed ==
  /\ managed \in BOOLEAN
  /\ free \in Seq(Buffers)
  /\ refs \in [Threads -> SUBSET Buffers]
  /\ deleting \in [Threads -> SUBSET Buffers]
  /\ strong \subseteq Threads
  /\ owned \in BOOLEAN /\ alive \in BOOLEAN
  /\ deleted \subseteq Buffers
  /\ \A t \in Threads : \A b, c \in deleting[t] : b = c

PlainPoolOutlivesBuffers ==
  ~managed => strong = {} /\ (~alive => deleted = Buffers)

IInv ==
  /\ Typed
  /\ BufferHasOneOwner
  /\ NoBufferLost
  /\ PoolAliveWhenUsed
  /\ PlainPoolOutlivesBuffers

-----------------------------------------------------------------------------
\* What pushing and popping do to the buffers in the pool.
LEMMA PopFree ==
  ASSUME Typed, free # <<>>, BufferHasOneOwner,
         free' = SubSeq(free, 1, Len(free) - 1)
  PROVE  /\ free' \in Seq(Buffers)
         /\ free[Len(free)] \in Buffers
         /\ InFree(free[Len(free)])
         /\ \A b \in Buffers : InFree(b)' <=> InFree(b) /\ b # free[Len(free)]
         /\ \A i, j \in DOMAIN free' : free'[i] = free'[j] => i = j
<1>1. Len(free) \in Nat \ {0} /\ DOMAIN free = 1 .. Len(free)
  BY DEF Typed
<1>2. /\ Len(free') = Len(free) - 1
      /\ DOMAIN free' = 1 .. Len(free) - 1
      /\ \A i \in 1 .. Len(free) - 1 : free'[i] = free[i]
      /\ free' \in Seq(Buffers)
  BY <1>1 DEF Typed
<1>3. \A i, j \in DOMAIN free : free[i] = free[j] => i = j
  BY DEF BufferHasOneOwner
<1>4. free[Len(free)] \in Buffers /\ InFree(free[Len(free)])
  BY <1>1 DEF Typed, InFree
<1>5. \A b \in Buffers : InFree(b)' <=> InFree(b) /\ b # free[Len(free)]
  <2> TAKE b \in Buffers
  <2>1. InFree(b)' <=> \E i \in 1 .. Len(free) - 1 : free[i] = b
    BY <1>2 DEF InFree
  <2>2. InFree(b) <=> \E i \in 1 .. Len(free) : free[i] = b
    BY <1>1 DEF InFree
  <2> QED
    BY <1>1, <1>3, <2>1, <2>2
<1>6. \A i, j \in DOMAIN free' : free'[i] = free'[j] => i = j
  BY <1>1, <1>2, <1>3
<1> QED
  BY <1>2, <1>4, <1>5, <1>6

LEMMA PushFree ==
  ASSUME Typed, BufferHasOneOwner, NEW b \in Buffers, ~InFree(b),
         free' = Append(free, b)
  PROVE  /\ free' \in Seq(Buffers)
         /\ \A c \in Buffers : InFree(c)' <=> InFree(c) \/ c = b
         /\ \A i, j \in DOMAIN free' : free'[i] = free'[j] => i = j
<1>1. Len(free) \in Nat /\ DOMAIN free = 1 .. Len(free)
  BY DEF Typed
<1>2. /\ DOMAIN free' = 1 .. Len(free) + 1
      /\ \A i \in 1 .. Len(free) : free'[i] = free[i]
      /\ free'[Len(free) + 1] = b
      /\ free' \in Seq(Buffers)
  BY <1>1 DEF Typed
<1>3. \A i, j \in DOMAIN free : free[i] = free[j] => i = j
  BY DEF BufferHasOneOwner
<1> QED
  BY <1>1, <1>2, <1>3 DEF InFree

\* An empty pool holds nothing.
LEMMA EmptyFree ==
  ASSUME free' = <<>>
  PROVE  /\ free' \in Seq(Buffers)
         /\ \A b \in Buffers : ~InFree(b)'
         /\ \A i, j \in DOMAIN free' : free'[i] = free'[j] => i = j
BY DEF InFree

LEMMA InitInv == Init => IInv
<1> SUFFICES ASSUME Init PROVE IInv
  OBVIOUS
<1>1. Cardinality(Buffers) \in Nat /\ IsFiniteSet(Buffers)
  BY PoolAssumption, FS_CardinalityType
<1>2. /\ IsFiniteSet(1 .. Cardinality(Buffers))
      /\ Cardinality(1 .. Cardinality(Buffers)) = Cardinality(Buffers)
  BY <1>1, FS_Interval
<1>3. free \in Surjection(1 .. Cardinality(Buffers), Buffers)
  BY <1>1 DEF Init, InFree, Surjection
<1>4. free \in Injection(1 .. Cardinality(Buffers), Buffers)
  BY <1>1, <1>2, <1>3, FS_SurjSameCardinalityImpliesInj
<1>5. /\ \A i, j \in DOMAIN free : free[i] = free[j] => i = j
      /\ free \in Seq(Buffers)
  BY <1>1, <1>4 DEF Injection, IsInjective, Init
<1> QED
  BY <1>5 DEF Init, IInv, Typed, BufferHasOneOwner, NoBufferLost, PoolAliveWhenUsed,
              PlainPoolOutlivesBuffers, InFree, Referenced, InDeleter

-----------------------------------------------------------------------------
\* The steps that move a buffer.
LEMMA AcquireInv ==
  ASSUME IInv, NEW t \in Threads, acquire(t)
  PROVE  IInv'
<1>1. /\ free' \in Seq(Buffers)
      /\ free[Len(free)] \in Buffers
      /\ InFree(free[Len(free)])
      /\ \A b \in Buffers : InFree(b)' <=> InFree(b) /\ b # free[Len(free)]
      /\ \A i, j \in DOMAIN free' : free'[i] = free'[j] => i = j
  BY PopFree DEF IInv, acquire
<1> DEFINE top == free[Len(free)]
<1>2. /\ refs' = [refs EXCEPT ![t] = @ \cup {top}]
      /\ UNCHANGED <<managed, deleting, strong, owned, alive, deleted>>
      /\ owned /\ free # <<>>
  BY DEF acquire
<1>3. top \in Buffers /\ InFree(top) /\ ~InDeleter(top) /\ top \notin deleted
  BY <1>1 DEF IInv, BufferHasOneOwner, Typed
<1> HIDE DEF top
<1>4. \A b \in Buffers : Referenced(b)' <=> Referenced(b) \/ b = top
  BY <1>2 DEF Referenced, IInv, Typed
<1>5. \A b \in Buffers : InDeleter(b)' <=> InDeleter(b)
  BY <1>2 DEF InDeleter
<1>6. \A b \in Buffers : InFree(b)' <=> InFree(b) /\ b # top
  BY <1>1 DEF top
<1>7. Typed'
  BY <1>1, <1>2, <1>3 DEF IInv, Typed
<1>8. BufferHasOneOwner'
  BY <1>1, <1>2, <1>3, <1>4, <1>5, <1>6 DEF IInv, BufferHasOneOwner, Typed
<1>9. NoBufferLost'
  BY <1>2, <1>4, <1>5, <1>6 DEF IInv, NoBufferLost
<1>10. PoolAliveWhenUsed' /\ PlainPoolOutlivesBuffers'
  BY <1>2 DEF IInv, PoolAliveWhenUsed, PlainPoolOutlivesBuffers, Typed
<1> QED
  BY <1>7, <1>8, <1>9, <1>10 DEF IInv

LEMMA ShareInv ==
  ASSUME IInv, NEW t \in Threads, NEW u \in Threads, NEW b \in Buffers, share(t, u, b)
  PROVE  IInv'
<1>1. /\ refs' = [refs EXCEPT ![u] = @ \cup {b}] /\ b \in refs[t]
      /\ UNCHANGED <<managed, free, deleting, strong, owned, alive, deleted>>
  BY DEF share
<1>2. \A c \in Buffers : Referenced(c)' <=> Referenced(c)
  BY <1>1 DEF Referenced, IInv, Typed
<1>3. \A c \in Buffers : (InDeleter(c)' <=> InDeleter(c)) /\ (InFree(c)' <=> InFree(c))
  BY <1>1 DEF InDeleter, InFree
<1>4. Typed'
  BY <1>1 DEF IInv, Typed
<1>5. BufferHasOneOwner'
  BY <1>1, <1>2, <1>3 DEF IInv, BufferHasOneOwner, Typed
<1>6. NoBufferLost' /\ PoolAliveWhenUsed' /\ PlainPoolOutlivesBuffers'
  BY <1>1, <1>2, <1>3 DEF IInv, NoBufferLost, PoolAliveWhenUsed, PlainPoolOutlivesBuffers
<1> QED
  BY <1>4, <1>5, <1>6 DEF IInv

LEMMA ReleaseInv ==
  ASSUME IInv, NEW t \in Threads, NEW b \in Buffers, release(t, b)
  PROVE  IInv'
<1> DEFINE shared == \E u \in Threads \ {t} : b \in refs[u]
<1>1. /\ refs' = [refs EXCEPT ![t] = @ \ {b}] /\ b \in refs[t]
      /\ deleting[t] = {}
      /\ deleting' = [deleting EXCEPT ![t] = IF shared THEN {} ELSE {b}]
      /\ UNCHANGED <<managed, free, strong, owned, alive, deleted>>
  BY DEF release
<1>2. Referenced(b) /\ ~InDeleter(b) /\ ~InFree(b) /\ b \notin deleted
  BY <1>1 DEF IInv, BufferHasOneOwner, Referenced
<1>3. \A c \in Buffers : Referenced(c)' <=> Referenced(c) /\ (c = b => shared)
  BY <1>1 DEF Referenced, IInv, Typed
<1>4. \A c \in Buffers : InDeleter(c)' <=> InDeleter(c) \/ (c = b /\ ~shared)
  BY <1>1 DEF InDeleter, IInv, Typed
<1>5. \A c \in Buffers : InFree(c)' <=> InFree(c)
  BY <1>1 DEF InFree
<1>6. Typed'
  BY <1>1 DEF IInv, Typed
<1>7. \A u, v \in Threads : u # v => deleting'[u] \cap deleting'[v] = {}
  BY <1>1, <1>2 DEF IInv, BufferHasOneOwner, InDeleter, Typed
<1> HIDE DEF shared
<1>8. BufferHasOneOwner'
  BY <1>1, <1>2, <1>3, <1>4, <1>5, <1>7 DEF IInv, BufferHasOneOwner, Typed
<1>9. NoBufferLost' /\ PoolAliveWhenUsed' /\ PlainPoolOutlivesBuffers'
  BY <1>1, <1>3, <1>4, <1>5 DEF IInv, NoBufferLost, PoolAliveWhenUsed, PlainPoolOutlivesBuffers
<1> QED
  BY <1>6, <1>8, <1>9 DEF IInv

\* The end of a deleter: the buffer t deletes leaves it, and nobody else has it.
LEMMA DeleterEnds ==
  ASSUME IInv, NEW t \in Threads, NEW b \in deleting[t],
         deleting' = [deleting EXCEPT ![t] = {}], refs' = refs
  PROVE  /\ b \in Buffers /\ ~Referenced(b) /\ ~InFree(b) /\ b \notin deleted
         /\ \A c \in Buffers : Referenced(c)' <=> Referenced(c)
         /\ \A c \in Buffers : InDeleter(c)' <=> InDeleter(c) /\ c \notin deleting[t]
         /\ \A u, v \in Threads : u # v => deleting'[u] \cap deleting'[v] = {}
<1>1. InDeleter(b) /\ b \in Buffers
  BY DEF InDeleter, IInv, Typed
<1>2. ~Referenced(b) /\ ~InFree(b) /\ b \notin deleted
  BY <1>1 DEF IInv, BufferHasOneOwner
<1>3. \A u, v \in Threads : u # v => deleting[u] \cap deleting[v] = {}
  BY DEF IInv, BufferHasOneOwner
<1>4. \A c \in Buffers : InDeleter(c)' <=> InDeleter(c) /\ c \notin deleting[t]
  BY <1>3 DEF InDeleter, IInv, Typed
<1>5. \A c \in Buffers : Referenced(c)' <=> Referenced(c)
  BY DEF Referenced
<1>6. \A u, v \in Threads : u # v => deleting'[u] \cap deleting'[v] = {}
  BY <1>3 DEF IInv, Typed
<1> QED
  BY <1>1, <1>2, <1>4, <1>5, <1>6

\* A pool is destroyed when nobody owns it; the buffers in it are freed.
LEMMA DestroyInv ==
  ASSUME IInv, NEW last \in BOOLEAN, destroyIf(last), UNCHANGED <<managed, refs, deleting>>,
         strong' \subseteq Threads, owned' \in BOOLEAN,
         last <=> ~owned' /\ strong' = {},
         alive,
         managed \/ (strong' = {} /\ \A b \in Buffers : InFree(b))
  PROVE  IInv'
<1>1. \A c \in Buffers : (Referenced(c)' <=> Referenced(c)) /\ (InDeleter(c)' <=> InDeleter(c))
  BY DEF Referenced, InDeleter
<1>2. CASE last
  <2>1. /\ alive' = FALSE /\ free' = <<>>
        /\ deleted' = deleted \cup {b \in Buffers : InFree(b)}
    BY <1>2 DEF destroyIf, Available
  <2>2. /\ free' \in Seq(Buffers)
        /\ \A b \in Buffers : ~InFree(b)'
        /\ \A i, j \in DOMAIN free' : free'[i] = free'[j] => i = j
    BY <2>1, EmptyFree
  <2>3. Typed'
    BY <2>1, <2>2 DEF IInv, Typed
  <2>4. BufferHasOneOwner'
    BY <1>1, <2>1, <2>2 DEF IInv, BufferHasOneOwner, Typed
  <2>5. NoBufferLost'
    BY <1>1, <2>1 DEF IInv, NoBufferLost
  <2>6. PoolAliveWhenUsed' /\ PlainPoolOutlivesBuffers'
    BY <1>2, <2>1 DEF IInv, PoolAliveWhenUsed, PlainPoolOutlivesBuffers, Typed
  <2> QED
    BY <2>3, <2>4, <2>5, <2>6 DEF IInv
<1>3. CASE ~last
  <2>1. UNCHANGED <<alive, deleted, free>>
    BY <1>3 DEF destroyIf
  <2>2. \A c \in Buffers : InFree(c)' <=> InFree(c)
    BY <2>1 DEF InFree
  <2>3. Typed'
    BY <2>1 DEF IInv, Typed
  <2>4. BufferHasOneOwner' /\ NoBufferLost'
    BY <1>1, <2>1, <2>2 DEF IInv, BufferHasOneOwner, NoBufferLost, Typed
  <2>5. PoolAliveWhenUsed' /\ PlainPoolOutlivesBuffers'
    BY <1>3, <2>1 DEF IInv, PoolAliveWhenUsed, PlainPoolOutlivesBuffers
  <2> QED
    BY <2>3, <2>4, <2>5 DEF IInv
<1> QED
  BY <1>2, <1>3

LEMMA DeleterInv ==
  ASSUME IInv, NEW t \in Threads, deleterStep(t)
  PROVE  IInv'
<1>1. CASE lockPool(t)
  <2>1. /\ strong' = strong \cup {t} /\ managed /\ alive
        /\ UNCHANGED <<managed, free, refs, deleting, owned, alive, deleted>>
    BY <1>1 DEF lockPool
  <2>2. \A c \in Buffers : /\ InFree(c)' <=> InFree(c)
                           /\ Referenced(c)' <=> Referenced(c)
                           /\ InDeleter(c)' <=> InDeleter(c)
    BY <2>1 DEF InFree, Referenced, InDeleter
  <2>3. Typed' /\ PoolAliveWhenUsed' /\ PlainPoolOutlivesBuffers'
    BY <2>1 DEF IInv, Typed, PoolAliveWhenUsed, PlainPoolOutlivesBuffers
  <2>4. BufferHasOneOwner' /\ NoBufferLost'
    BY <2>1, <2>2 DEF IInv, BufferHasOneOwner, NoBufferLost, Typed
  <2> QED
    BY <2>3, <2>4 DEF IInv
<1>2. CASE deleteBuffer(t)
  <2>1. /\ managed /\ deleting[t] # {} /\ ~alive
        /\ deleted' = deleted \cup deleting[t]
        /\ deleting' = [deleting EXCEPT ![t] = {}]
        /\ UNCHANGED <<managed, free, refs, strong, owned, alive>>
    BY <1>2 DEF deleteBuffer
  <2>2. \A b \in deleting[t] : b \in Buffers /\ ~Referenced(b) /\ ~InFree(b) /\ b \notin deleted
    BY <2>1, DeleterEnds
  <2>3. PICK b \in deleting[t] : TRUE
    BY <2>1
  <2>4. /\ \A c \in Buffers : Referenced(c)' <=> Referenced(c)
        /\ \A c \in Buffers : InDeleter(c)' <=> InDeleter(c) /\ c \notin deleting[t]
        /\ \A u, v \in Threads : u # v => deleting'[u] \cap deleting'[v] = {}
    BY <2>1, <2>3, DeleterEnds
  <2>5. \A c \in Buffers : InFree(c)' <=> InFree(c)
    BY <2>1 DEF InFree
  <2>6. Typed' /\ PoolAliveWhenUsed' /\ PlainPoolOutlivesBuffers'
    BY <2>1 DEF IInv, Typed, PoolAliveWhenUsed, PlainPoolOutlivesBuffers
  <2>7. BufferHasOneOwner'
    BY <2>1, <2>2, <2>4, <2>5 DEF IInv, BufferHasOneOwner, Typed
  <2>8. NoBufferLost'
    BY <2>1, <2>4, <2>5 DEF IInv, NoBufferLost
  <2> QED
    BY <2>6, <2>7, <2>8 DEF IInv
<1>3. CASE recycle(t)
  <2>1. PICK b \in deleting[t] : free' = Append(free, b)
    BY <1>3 DEF recycle
  <2>2. /\ managed => t \in strong
        /\ deleting' = [deleting EXCEPT ![t] = {}]
        /\ UNCHANGED <<managed, refs, strong, owned, alive, deleted>>
    BY <1>3 DEF recycle
  <2>3. /\ b \in Buffers /\ ~Referenced(b) /\ ~InFree(b) /\ b \notin deleted
        /\ \A c \in Buffers : Referenced(c)' <=> Referenced(c)
        /\ \A c \in Buffers : InDeleter(c)' <=> InDeleter(c) /\ c \notin deleting[t]
        /\ \A u, v \in Threads : u # v => deleting'[u] \cap deleting'[v] = {}
    BY <2>2, DeleterEnds
  <2>4. /\ free' \in Seq(Buffers)
        /\ \A c \in Buffers : InFree(c)' <=> InFree(c) \/ c = b
        /\ \A i, j \in DOMAIN free' : free'[i] = free'[j] => i = j
    BY <2>1, <2>3, PushFree DEF IInv
  <2>5. alive
    BY <2>2, <2>3 DEF IInv, PoolAliveWhenUsed, PlainPoolOutlivesBuffers, Typed
  <2>6. deleting[t] = {b}
    BY DEF IInv, Typed
  <2>7. Typed' /\ PoolAliveWhenUsed' /\ PlainPoolOutlivesBuffers'
    BY <2>2, <2>4, <2>5 DEF IInv, Typed, PoolAliveWhenUsed, PlainPoolOutlivesBuffers
  <2>8. BufferHasOneOwner'
    BY <2>1, <2>2, <2>3, <2>4 DEF IInv, BufferHasOneOwner, Typed
  <2>9. NoBufferLost'
    BY <2>2, <2>3, <2>4, <2>6 DEF IInv, NoBufferLost
  <2> QED
    BY <2>7, <2>8, <2>9 DEF IInv
<1>4. CASE unlockPool(t)
  <2>1. /\ t \in strong /\ strong' = strong \ {t}
        /\ destroyIf(~owned /\ strong = {t})
        /\ UNCHANGED <<managed, refs, deleting, owned>>
    BY <1>4 DEF unlockPool
  <2>2. /\ alive /\ managed /\ owned \in BOOLEAN /\ strong \subseteq Threads
    BY <2>1 DEF IInv, Typed, PoolAliveWhenUsed, PlainPoolOutlivesBuffers
  <2>3. ~owned /\ strong = {t} <=> ~owned' /\ strong' = {}
    BY <2>1
  <2> QED
    BY <2>1, <2>2, <2>3, DestroyInv
<1> QED
  BY <1>1, <1>2, <1>3, <1>4 DEF deleterStep

-----------------------------------------------------------------------------
LEMMA NextInv == IInv /\ [Next]_vars => IInv'
<1> SUFFICES ASSUME IInv, [Next]_vars PROVE IInv'
  OBVIOUS
<1>1. CASE UNCHANGED vars
  <2>1. \A b \in Buffers : /\ InFree(b)' <=> InFree(b)
                           /\ Referenced(b)' <=> Referenced(b)
                           /\ InDeleter(b)' <=> InDeleter(b)
    BY <1>1 DEF vars, InFree, Referenced, InDeleter
  <2> QED
    BY <1>1, <2>1 DEF vars, IInv, Typed, BufferHasOneOwner, NoBufferLost,
                      PoolAliveWhenUsed, PlainPoolOutlivesBuffers
<1>2. ASSUME NEW t \in Threads, acquire(t) PROVE IInv'
  BY <1>2, AcquireInv
<1>3. ASSUME NEW t \in Threads, NEW b \in Buffers, release(t, b) PROVE IInv'
  BY <1>3, ReleaseInv
<1>4. ASSUME NEW t \in Threads, NEW u \in Threads, NEW b \in Buffers, share(t, u, b) PROVE IInv'
  BY <1>4, ShareInv
<1>5. ASSUME NEW t \in Threads, deleterStep(t) PROVE IInv'
  BY <1>5, DeleterInv
<1>6. CASE dropPool
  <2>1. /\ owned /\ owned' = FALSE
        /\ managed \/ \A b \in Buffers : InFree(b)
        /\ destroyIf(strong = {})
        /\ UNCHANGED <<managed, refs, deleting, strong>>
    BY <1>6 DEF dropPool
  <2>2. alive /\ strong' \subseteq Threads /\ (~managed => strong' = {})
    BY <2>1 DEF IInv, Typed, PoolAliveWhenUsed, PlainPoolOutlivesBuffers
  <2> QED
    BY <2>1, <2>2, DestroyInv
<1> QED
  BY <1>1, <1>2, <1>3, <1>4, <1>5, <1>6 DEF Next

\* The inductive invariant holds throughout.
THEOREM Invariance == Spec => []IInv
BY InitInv, NextInv, PTL DEF Spec

\* However threads acquire, share and drop buffers and the pool, a buffer has
\* one owner at a time: acquire() never hands out one that is still in use, and
\* nothing freed is used.
THEOREM OneOwner == Spec => []BufferHasOneOwner
<1>1. IInv => BufferHasOneOwner
  BY DEF IInv
<1> QED
  BY Invariance, <1>1, PTL

\* No buffer is lost, and none is freed before the pool is destroyed.
THEOREM NothingLost == Spec => []NoBufferLost
<1>1. IInv => NoBufferLost
  BY DEF IInv
<1> QED
  BY Invariance, <1>1, PTL

\* The pool exists as long as the application or a deleter holds it, and a
\* destroyed pool holds no buffers.
THEOREM PoolOutlivesUse == Spec => []PoolAliveWhenUsed
<1>1. IInv => PoolAliveWhenUsed
  BY DEF IInv
<1> QED
  BY Invariance, <1>1, PTL

\* The types, and with them that _free stays within the capacity the
\* constructor reserved: its entries are distinct buffers.
THEOREM TypeCorrect == Spec => []TypeOK
<1>1. IInv => TypeOK
  <2> SUFFICES ASSUME IInv PROVE TypeOK
    OBVIOUS
  <2>1. free \in [1 .. Len(free) -> Buffers] /\ Len(free) \in Nat
    BY DEF IInv, Typed
  <2>2. free \in Injection(1 .. Len(free), Buffers)
    BY <2>1 DEF IInv, BufferHasOneOwner, Injection, IsInjective
  <2>3. \A n \in Nat : IsFiniteSet(1 .. n) /\ Cardinality(1 .. n) = n
    BY FS_Interval
  <2>4. Cardinality(1 .. Len(free)) <= Cardinality(Buffers)
    BY <2>2, PoolAssumption, FS_Injection
  <2> QED
    BY <2>1, <2>3, <2>4 DEF IInv, Typed, TypeOK
<1> QED
  BY Invariance, <1>1, PTL

=============================================================================
