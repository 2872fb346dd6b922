--------------------------- MODULE MediaBufferPool ---------------------------
(***************************************************************************)
(* iora::codecs::MediaBufferPool                                           *)
(* (include/iora/codecs/core/media_buffer_pool.hpp) with the shared_ptrs   *)
(* that acquire() hands out.  Threads copy and drop references; whoever    *)
(* drops the last one runs the deleter, which takes a strong reference to  *)
(* the pool if it can (weak.lock()), recycles the buffer and gives the     *)
(* pool up again - by then perhaps as its last owner.  The application may *)
(* drop the pool at any time when it was made by create(); a pool that is  *)
(* a plain object has the deleter call recycle() on it without asking, and *)
(* its owner promises to keep it until every buffer is back.               *)
(*                                                                         *)
(* The mutex makes acquire() and recycle() one step each.  The assertion   *)
(* in the destructor is compiled out (NDEBUG), as in a release build.      *)
(***************************************************************************)
EXTENDS Naturals, Sequences, FiniteSets

CONSTANTS
  Buffers,        \* the poolSize buffers
  Threads         \* threads that hold and drop references

ASSUME PoolAssumption == IsFiniteSet(Buffers)

VARIABLES
  managed,        \* the pool was made by create(), not as a plain object
  free,           \* _free, a stack
  refs,           \* refs[t]: the buffers of which thread t has a shared_ptr
  deleting,       \* deleting[t]: the buffer whose deleter t runs, as a set
  strong,         \* threads whose deleter keeps the pool alive
  owned,          \* the application keeps the pool
  alive,          \* the pool has not been destroyed
  deleted         \* buffers whose memory has been freed

vars == <<managed, free, refs, deleting, strong, owned, alive, deleted>>

InFree(b) == \E i \in DOMAIN free : free[i] = b
Available == {b \in Buffers : InFree(b)}
Referenced(b) == \E t \in Threads : b \in refs[t]
InDeleter(b) == \E t \in Threads : b \in deleting[t]

\* The constructor fills _free.
Init ==
  /\ managed \in BOOLEAN
  /\ free \in [1 .. Cardinality(Buffers) -> Buffers]
  /\ \A b \in Buffers : InFree(b)
  /\ refs = [t \in Threads |-> {}]
  /\ deleting = [t \in Threads |-> {}]
  /\ strong = {}
  /\ owned = TRUE /\ alive = TRUE
  /\ deleted = {}

\* acquire() on a pool that has a buffer left; on an exhausted one it returns
\* nullptr and changes nothing.
acquire(t) ==
  /\ owned /\ deleting[t] = {}
  /\ free # <<>>
  /\ refs' = [refs EXCEPT ![t] = @ \cup {free[Len(free)]}]
  /\ free' = SubSeq(free, 1, Len(free) - 1)
  /\ UNCHANGED <<managed, deleting, strong, owned, alive, deleted>>

\* A thread passes a copy of its shared_ptr to another.
share(t, u, b) ==
  /\ b \in refs[t] /\ deleting[t] = {}
  /\ refs' = [refs EXCEPT ![u] = @ \cup {b}]
  /\ UNCHANGED <<managed, free, deleting, strong, owned, alive, deleted>>

\* A thread drops a reference; the last one starts the deleter.
releaseEvery(t, b) ==
  /\ b \in refs[t] /\ deleting[t] = {}
  /\ refs' = [refs EXCEPT ![t] = @ \ {b}]
  /\ deleting' = [deleting EXCEPT ![t] = {b}]
  /\ UNCHANGED <<managed, free, strong, owned, alive, deleted>>

release(t, b) ==
  /\ b \in refs[t] /\ deleting[t] = {}
  /\ refs' = [refs EXCEPT ![t] = @ \ {b}]
  /\ deleting' = [deleting EXCEPT ![t] =
                    IF \E u \in Threads \ {t} : b \in refs[u] THEN {} ELSE {b}]
  /\ UNCHANGED <<managed, free, strong, owned, alive, deleted>>

\* The deleter: weak.lock() succeeds as long as the pool has an owner.
lockPool(t) ==
  /\ managed /\ deleting[t] # {} /\ t \notin strong
  /\ alive
  /\ strong' = strong \cup {t}
  /\ UNCHANGED <<managed, free, refs, deleting, owned, alive, deleted>>

\* Otherwise the buffer is freed.
deleteNothing(t) ==
  /\ managed /\ deleting[t] # {} /\ t \notin strong
  /\ ~alive
  /\ deleting' = [deleting EXCEPT ![t] = {}]
  /\ UNCHANGED <<managed, free, refs, strong, owned, alive, deleted>>

deleteBuffer(t) ==
  /\ managed /\ deleting[t] # {} /\ t \notin strong
  /\ ~alive
  /\ deleted' = deleted \cup deleting[t]
  /\ deleting' = [deleting EXCEPT ![t] = {}]
  /\ UNCHANGED <<managed, free, refs, strong, owned, alive>>

\* recycle(), called on the locked pool, or on the plain object by address.
recycleUnlocked(t) ==
  /\ \E b \in deleting[t] : free' = Append(free, b)
  /\ deleting' = [deleting EXCEPT ![t] = {}]
  /\ UNCHANGED <<managed, refs, strong, owned, alive, deleted>>

recycleManagedOnly(t) ==
  /\ t \in strong
  /\ \E b \in deleting[t] : free' = Append(free, b)
  /\ deleting' = [deleting EXCEPT ![t] = {}]
  /\ UNCHANGED <<managed, refs, strong, owned, alive, deleted>>

recycle(t) ==
  /\ managed => t \in strong
  /\ \E b \in deleting[t] : free' = Append(free, b)
  /\ deleting' = [deleting EXCEPT ![t] = {}]
  /\ UNCHANGED <<managed, refs, strong, owned, alive, deleted>>

\* The pool loses an owner; the last one runs the destructor, which frees the
\* buffers in _free.
destroyIf(last) ==
  IF last
  THEN /\ alive' = FALSE
       /\ deleted' = deleted \cup Available
       /\ free' = <<>>
  ELSE UNCHANGED <<alive, deleted, free>>

\* The deleter's reference to the pool goes out of scope.
unlockPool(t) ==
  /\ t \in strong /\ deleting[t] = {}
  /\ strong' = strong \ {t}
  /\ destroyIf(~owned /\ strong = {t})
  /\ UNCHANGED <<managed, refs, deleting, owned>>

\* The application drops the pool.  A plain object must outlive its buffers.
dropPool ==
  /\ owned
  /\ managed \/ \A b \in Buffers : InFree(b)
  /\ owned' = FALSE
  /\ destroyIf(strong = {})
  /\ UNCHANGED <<managed, refs, deleting, strong>>

deleterStep(t) == lockPool(t) \/ deleteBuffer(t) \/ recycle(t) \/ unlockPool(t)

Next ==
  \/ \E t \in Threads :
       \/ acquire(t)
       \/ \E b \in Buffers : release(t, b)
       \/ \E u \in Threads, b \in Buffers : share(t, u, b)
       \/ deleterStep(t)
  \/ dropPool

Spec == Init /\ [][Next]_vars

\* A deleter that has begun goes on: its code is the pool's own, and it waits for
\* nothing but the mutex, which acquire() and recycle() hold for a few instructions.
FairSpec == Spec /\ \A t \in Threads : WF_vars(deleterStep(t))

-----------------------------------------------------------------------------
\* Every variable has its type, and _free never outgrows what was reserved.
TypeOK ==
  /\ managed \in BOOLEAN
  /\ free \in Seq(Buffers) /\ Len(free) <= Cardinality(Buffers)
  /\ refs \in [Threads -> SUBSET Buffers]
  /\ deleting \in [Threads -> SUBSET Buffers]
  /\ strong \subseteq Threads
  /\ owned \in BOOLEAN /\ alive \in BOOLEAN
  /\ deleted \subseteq Buffers

\* A buffer that a thread refers to, or whose deleter runs, is not in the pool,
\* and its memory has not been freed; a buffer in the pool is there once, and
\* nobody runs two deleters for one buffer.
BufferHasOneOwner ==
  /\ \A i, j \in DOMAIN free : free[i] = free[j] => i = j
  /\ \A b \in Buffers : Referenced(b) => ~InDeleter(b)
  /\ \A b \in Buffers : Referenced(b) \/ InDeleter(b) => ~InFree(b) /\ b \notin deleted
  /\ \A b \in deleted : ~InFree(b)
  /\ \A t, u \in Threads : t # u => deleting[t] \cap deleting[u] = {}

\* No buffer is lost: each is in the pool, in use, on its way back, or freed,
\* and the last only after the pool was destroyed.
NoBufferLost ==
  /\ \A b \in Buffers : InFree(b) \/ Referenced(b) \/ InDeleter(b) \/ b \in deleted
  /\ alive => deleted = {}

\* recycle() only ever runs on a pool that exists; a destroyed pool is empty.
PoolAliveWhenUsed ==
  /\ ~alive => free = <<>>
  /\ alive <=> owned \/ strong # {}

\* An exhausted pool, of either kind, recovers: when threads that hold buffers drop
\* references again and again and copies stop being made, the last reference to
\* some buffer goes, and its deleter puts it back - unless the pool is destroyed.
HoldersRelease == \A t \in Threads : WF_vars(\E b \in Buffers : release(t, b))
CopyingStops == <>[][\A t, u \in Threads, b \in Buffers : ~share(t, u, b)]_vars
PoolRecovers ==
  HoldersRelease /\ CopyingStops => (free = <<>> ~> free # <<>> \/ ~alive)

=============================================================================
