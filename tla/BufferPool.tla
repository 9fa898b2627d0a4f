----------------------------- MODULE BufferPool -----------------------------
(***************************************************************************)
(* The packet buffer pool (packet-bus/src/pool.rs) and the buffers it     *)
(* hands out (buffer.rs).                                                  *)
(*                                                                         *)
(* The idle buffers are kept in a vector behind a mutex; the two counters  *)
(* `allocated` and `in_use` are atomics outside it, so an acquire or a     *)
(* release is several steps of its thread.  A thread of the model holds at *)
(* most one buffer: a program thread with several buffers is several       *)
(* threads here, because operations on different buffers are independent.  *)
(*                                                                         *)
(* Every call takes &self, so any of them may meet any other, and release  *)
(* takes any buffer of the right capacity.  What the counters cannot stand *)
(* is counted in `upsets`.                                                 *)
(***************************************************************************)
EXTENDS Integers, FiniteSets, SequencesExt

CONSTANTS
    Callers,      \* callers of the pool
    MaxSize,      \* max_size
    Capacity,     \* buffer_capacity, the most bytes a buffer holds
    Word,         \* 2^64: the atomics wrap
    MaxUpsets,    \* bound: calls that the counters cannot stand
    None

Buffer == [released : BOOLEAN, length : 0 .. Capacity]

ASSUME PoolAssumption ==
    /\ IsFiniteSet(Callers)
    /\ MaxSize \in Nat \ {0}
    /\ Capacity \in Nat \ {0}
    /\ MaxUpsets \in Nat /\ Word \in Nat /\ Word > MaxSize + Cardinality(Callers)
    /\ None \notin Callers \cup Buffer

VARIABLES
    idle,        \* buffers: the vector, a stack
    lock,        \* the thread that holds its mutex across steps, or None
    allocated,   \* the two atomics
    inUse,
    hold,        \* hold[t]: the buffer thread t owns, or None
    at,          \* at[t]: where thread t is inside a call
    cur,         \* cur[t]: what the call under way has read or was asked
    lost,        \* history: buffers dropped that `allocated` still counts
    escaped,     \* history: buffers their holder dropped, in use for ever
    upsets,      \* history: calls that met a clear, clears that met a call, and
                 \* releases of buffers the pool did not hand out
    refused      \* history: acquire dropped an idle buffer it could not reset

poolVars == <<idle, lock, allocated, inUse, hold, at, cur, lost, escaped, upsets, refused>>

history == <<lost, escaped, upsets, refused>>

\* The first two histories explain the counters until these are upset.
Book(l, e, n) ==
    /\ upsets + n <= MaxUpsets /\ upsets' = upsets + n
    /\ lost' = IF upsets' = 0 THEN l ELSE 0
    /\ escaped' = IF upsets' = 0 THEN e ELSE 0

\* PacketBuffer::new: empty, and not marked released.
NewBuffer == [released |-> FALSE, length |-> 0]

\* reset_for_reuse succeeds on a released buffer only, and empties it.
CanReset(b) == b.released

\* Bug: the buffer is handed out with what it held.
Reset_Kept(b) == [b EXCEPT !.released = FALSE]

Reset(b) == [released |-> FALSE, length |-> 0]

\* release sets the flag once.
Released(b) == [b EXCEPT !.released = TRUE]

\* write replaces the contents, append extends them; both refuse a released
\* buffer and more than the capacity.
Written(b, n) == IF b.released \/ n > Capacity THEN b ELSE [b EXCEPT !.length = n]

Appended(b, n) ==
    IF b.released \/ b.length + n > Capacity THEN b ELSE [b EXCEPT !.length = b.length + n]

\* clear leaves a released buffer alone.
Emptied(b) == IF b.released THEN b ELSE [b EXCEPT !.length = 0]

PoolTypeOK ==
    /\ idle \in Seq(Buffer)
    /\ lock \in Callers \cup {None}
    /\ allocated \in 0 .. Word - 1
    /\ inUse \in 0 .. Word - 1
    /\ hold \in [Callers -> Buffer \cup {None}]
    /\ at \in [Callers -> {"rest", "load", "cas", "count", "uncount", "shrink",
                           "prealloc", "fill", "cleared", "trim"}]
    /\ cur \in [Callers -> 0 .. Word - 1]
    /\ lost \in Nat /\ escaped \in Nat /\ upsets \in Nat /\ refused \in BOOLEAN

PoolInit ==
    /\ idle = <<>> /\ lock = None
    /\ allocated = 0 /\ inUse = 0
    /\ hold = [t \in Callers |-> None]
    /\ at = [t \in Callers |-> "rest"]
    /\ cur = [t \in Callers |-> 0]
    /\ lost = 0 /\ escaped = 0 /\ upsets = 0 /\ refused = FALSE

Clearing(t) == at[t] \in {"cleared", "trim"}

\* A call that begins while somebody clears.
Overlap == IF \E u \in Callers : Clearing(u) THEN 1 ELSE 0

Wrapped(n) == n % Word

-----------------------------------------------------------------------------
(* acquire *)

\* The last idle buffer is popped under the lock.  It is reset outside it;
\* when that fails acquire answers Exhausted and the buffer is dropped.
AcquirePop(t) ==
    /\ at[t] = "rest" /\ hold[t] = None
    /\ lock = None /\ idle # <<>>
    /\ idle' = Front(idle)
    /\ IF CanReset(Last(idle))
       THEN /\ hold' = [hold EXCEPT ![t] = Reset(Last(idle))]
            /\ at' = [at EXCEPT ![t] = "count"]
            /\ Book(lost, escaped, Overlap)
            /\ UNCHANGED refused
       ELSE /\ Book(lost + 1, escaped, Overlap)
            /\ refused' = TRUE
            /\ UNCHANGED <<hold, at>>
    /\ UNCHANGED <<lock, allocated, inUse, cur>>

\* Nothing idle: the lock is dropped before `allocated` is read.
AcquireEmpty(t) ==
    /\ at[t] = "rest" /\ hold[t] = None
    /\ lock = None /\ idle = <<>>
    /\ at' = [at EXCEPT ![t] = "load"]
    /\ Book(lost, escaped, Overlap)
    /\ UNCHANGED <<idle, lock, allocated, inUse, hold, cur, refused>>

AcquireLoad(t) ==
    /\ at[t] = "load"
    /\ cur' = [cur EXCEPT ![t] = allocated]
    /\ at' = [at EXCEPT ![t] = "cas"]
    /\ UNCHANGED <<idle, lock, allocated, inUse, hold, history>>

\* At the limit: Exhausted.
AcquireExhausted(t) ==
    /\ at[t] = "cas" /\ cur[t] >= MaxSize
    /\ at' = [at EXCEPT ![t] = "rest"]
    /\ cur' = [cur EXCEPT ![t] = 0]
    /\ UNCHANGED <<idle, lock, allocated, inUse, hold, history>>

\* Bug: a load and a store in place of the compare-exchange.
AcquireGrow_Torn(t) ==
    /\ at[t] = "cas" /\ cur[t] < MaxSize
    /\ allocated' = cur[t] + 1
    /\ hold' = [hold EXCEPT ![t] = NewBuffer]
    /\ at' = [at EXCEPT ![t] = "count"]
    /\ cur' = [cur EXCEPT ![t] = 0]
    /\ UNCHANGED <<idle, lock, inUse, history>>

\* The compare-exchange succeeds: a new buffer.
AcquireGrow(t) ==
    /\ at[t] = "cas" /\ cur[t] < MaxSize /\ cur[t] = allocated
    /\ allocated' = allocated + 1
    /\ hold' = [hold EXCEPT ![t] = NewBuffer]
    /\ at' = [at EXCEPT ![t] = "count"]
    /\ cur' = [cur EXCEPT ![t] = 0]
    /\ UNCHANGED <<idle, lock, inUse, history>>

\* It fails: somebody else changed the counter, which is read again.
AcquireRetry(t) ==
    /\ at[t] = "cas" /\ cur[t] < MaxSize /\ cur[t] # allocated
    /\ cur' = [cur EXCEPT ![t] = allocated]
    /\ UNCHANGED <<idle, lock, allocated, inUse, hold, at, history>>

AcquireCount(t) ==
    /\ at[t] = "count"
    /\ inUse' = Wrapped(inUse + 1)
    /\ at' = [at EXCEPT ![t] = "rest"]
    /\ UNCHANGED <<idle, lock, allocated, hold, cur, history>>

-----------------------------------------------------------------------------
(* What a holder does with its buffer *)

Modify(t, b) ==
    /\ at[t] = "rest"
    /\ hold' = [hold EXCEPT ![t] = b]
    /\ UNCHANGED <<idle, lock, allocated, inUse, at, cur, history>>

BufferWrite(t) == hold[t] # None /\ \E n \in 1 .. Capacity + 1 : Modify(t, Written(hold[t], n))

Extend(t) == hold[t] # None /\ \E n \in 1 .. Capacity : Modify(t, Appended(hold[t], n))

Empty(t) == hold[t] # None /\ Modify(t, Emptied(hold[t]))

\* PacketBuffer::release called on the buffer, not on the pool.
MarkReleased(t) == hold[t] # None /\ Modify(t, Released(hold[t]))

\* into_vec, or simply dropping the buffer: the pool is not told.
Escape(t) ==
    /\ at[t] = "rest" /\ hold[t] # None
    /\ hold' = [hold EXCEPT ![t] = None]
    /\ Book(lost, escaped + 1, 0)
    /\ UNCHANGED <<idle, lock, allocated, inUse, at, cur, refused>>

-----------------------------------------------------------------------------
(* release *)

\* The flag is set first; a full vector drops the buffer instead.
GiveBack(t, b) ==
    /\ at[t] = "rest" /\ lock = None
    /\ hold' = [hold EXCEPT ![t] = None]
    /\ IF Len(idle) >= MaxSize
       THEN /\ cur' = [cur EXCEPT ![t] = 1]
            /\ UNCHANGED idle
       ELSE /\ idle' = Append(idle, Released(b))
            /\ cur' = [cur EXCEPT ![t] = 0]
    /\ at' = [at EXCEPT ![t] = "uncount"]
    /\ UNCHANGED <<lock, allocated, inUse, refused>>

Release(t) == hold[t] # None /\ GiveBack(t, hold[t]) /\ Book(lost, escaped, Overlap)

\* A buffer that its owner made itself: only its capacity is looked at.
ReleaseForeign(t) ==
    hold[t] = None /\ GiveBack(t, NewBuffer) /\ Book(lost, escaped, Overlap + 1)

\* The counters follow outside the lock: in_use, and for a dropped buffer
\* allocated after it.
ReleaseUncount(t) ==
    /\ at[t] \in {"uncount", "shrink"}
    /\ IF at[t] = "uncount"
       THEN inUse' = Wrapped(inUse - 1) /\ UNCHANGED allocated
       ELSE allocated' = Wrapped(allocated - 1) /\ UNCHANGED inUse
    /\ at' = [at EXCEPT ![t] = IF at[t] = "uncount" /\ cur[t] = 1 THEN "shrink" ELSE "rest"]
    /\ UNCHANGED <<idle, lock, hold, cur, history>>

-----------------------------------------------------------------------------
(* clear and preallocate *)

\* The vector is emptied under the lock ...
PoolClear(t) ==
    /\ at[t] = "rest" /\ lock = None
    /\ idle' = <<>>
    /\ Book(lost + Len(idle), escaped, IF \E u \in Callers : at[u] # "rest" THEN 1 ELSE 0)
    /\ at' = [at EXCEPT ![t] = "cleared"]
    /\ UNCHANGED <<lock, allocated, inUse, hold, cur, refused>>

\* ... then in_use is read ...
ClearLoad(t) ==
    /\ at[t] = "cleared"
    /\ cur' = [cur EXCEPT ![t] = inUse]
    /\ at' = [at EXCEPT ![t] = "trim"]
    /\ UNCHANGED <<idle, lock, allocated, inUse, hold, history>>

\* ... and becomes `allocated`.
ClearStore(t) ==
    /\ at[t] = "trim"
    /\ allocated' = cur[t]
    /\ Book(0, escaped, 0)
    /\ at' = [at EXCEPT ![t] = "rest"]
    /\ cur' = [cur EXCEPT ![t] = 0]
    /\ UNCHANGED <<idle, lock, inUse, hold, refused>>

\* preallocate keeps the lock for its whole loop; acquire's compare-exchange
\* needs no lock and may run in between.
Preallocate(t, count) ==
    /\ at[t] = "rest" /\ lock = None
    /\ lock' = t
    /\ cur' = [cur EXCEPT ![t] = IF count < MaxSize THEN count ELSE MaxSize]
    /\ at' = [at EXCEPT ![t] = "prealloc"]
    /\ Book(lost, escaped, Overlap)
    /\ UNCHANGED <<idle, allocated, inUse, hold, refused>>

\* The target is compared first ...
PreallocateMore(t) ==
    /\ at[t] = "prealloc" /\ allocated < cur[t]
    /\ at' = [at EXCEPT ![t] = "fill"]
    /\ UNCHANGED <<idle, lock, allocated, inUse, hold, cur, history>>

\* ... and only the limit is compared again before the compare-exchange, which
\* succeeds, ...
PreallocateOne(t) ==
    /\ at[t] = "fill" /\ allocated < MaxSize
    /\ allocated' = allocated + 1
    /\ idle' = Append(idle, NewBuffer)
    /\ at' = [at EXCEPT ![t] = "prealloc"]
    /\ UNCHANGED <<lock, inUse, hold, cur, history>>

\* ... or fails.
PreallocateRetry(t) ==
    /\ at[t] = "fill"
    /\ at' = [at EXCEPT ![t] = "prealloc"]
    /\ UNCHANGED <<idle, lock, allocated, inUse, hold, cur, history>>

PreallocateDone(t) ==
    /\ \/ at[t] = "prealloc" /\ allocated >= cur[t]
       \/ at[t] = "fill" /\ allocated >= MaxSize
    /\ lock' = None
    /\ at' = [at EXCEPT ![t] = "rest"]
    /\ cur' = [cur EXCEPT ![t] = 0]
    /\ UNCHANGED <<idle, allocated, inUse, hold, history>>

Acquire(t) ==
    \/ AcquirePop(t) \/ AcquireEmpty(t) \/ AcquireLoad(t) \/ AcquireExhausted(t)
    \/ AcquireGrow(t) \/ AcquireRetry(t) \/ AcquireCount(t)

BufferUse(t) == BufferWrite(t) \/ Extend(t) \/ Empty(t) \/ MarkReleased(t) \/ Escape(t)

Manage(t) ==
    \/ PoolClear(t) \/ ClearLoad(t) \/ ClearStore(t)
    \/ (\E count \in 1 .. MaxSize + 1 : Preallocate(t, count))
    \/ PreallocateMore(t) \/ PreallocateOne(t) \/ PreallocateRetry(t) \/ PreallocateDone(t)

PoolNext ==
    \E t \in Callers :
        \/ Acquire(t) \/ BufferUse(t) \/ Manage(t)
        \/ Release(t) \/ ReleaseForeign(t) \/ ReleaseUncount(t)

PoolSpec == PoolInit /\ [][PoolNext]_poolVars

-----------------------------------------------------------------------------
(* Properties *)

CallersAt(where) == {t \in Callers : at[t] = where}

Holders == {t \in Callers : hold[t] # None}

\* Every buffer `allocated` counts is idle, held, about to be uncounted, or
\* dropped for good.
AllocatedAccounted ==
    allocated = Len(idle) + Cardinality(Holders) + lost + escaped
                + Cardinality({t \in CallersAt("uncount") : cur[t] = 1}) + Cardinality(CallersAt("shrink"))

\* Every buffer `in_use` counts is held and counted, given back and not yet
\* uncounted, or was dropped by its holder.
InUseAccounted ==
    inUse + Cardinality(CallersAt("count")) = Cardinality(Holders) + Cardinality(CallersAt("uncount")) + escaped

\* The limit: the counter never passes max_size, so neither do the buffers
\* that exist.
WithinLimit == allocated <= MaxSize

\* No buffer is handed out with the previous packet's bytes in it.
HandedOutEmpty == \A t \in CallersAt("count") : hold[t] = NewBuffer

\* Until a clear meets another call or a foreign buffer is released, the pool
\* never loses count: at every step of every thread, between the vector's lock and
\* the two atomics, both counters are explained by the buffers that are idle, held
\* or dropped, and the limit holds.  Whatever happened, a buffer is handed out
\* empty (pool.rs:63-152).
PoolInv ==
    /\ PoolTypeOK
    /\ upsets = 0 => AllocatedAccounted /\ InUseAccounted /\ WithinLimit
    /\ HandedOutEmpty

\* A buffer is out while a thread holds it, and for ever once its holder
\* has dropped it.
Out == Cardinality(Holders) + escaped

Store == INSTANCE BoundedPool
         WITH Limit <- MaxSize, free <- Len(idle), out <- Out, kept <- (upsets = 0 /\ ~refused)

\* Until a clear meets another call, a foreign buffer is released or acquire
\* drops an idle buffer it cannot reset: although acquire and release touch the
\* vector and the two counters in separate steps, every call takes effect at one
\* instant, and the buffers that exist never exceed max_size (pool.rs:63-152).
RefinesBoundedPool == Store!Spec

\* The test of pool.rs:332-347: acquire gets a buffer that was made in advance,
\* as it gets any idle buffer.
IdleBuffersServe == [][\A t \in Callers : AcquirePop(t) => hold'[t] # None]_poolVars
=============================================================================
