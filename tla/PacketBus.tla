----------------------------- MODULE PacketBus -----------------------------
(***************************************************************************)
(* The Packet Bus (crates/packet-bus/src/bus.rs): a bounded queue of       *)
(* observations and, beside it, one ownership record per observation.      *)
(*                                                                         *)
(* The two live under two different mutexes.  `publish` holds the          *)
(* ownership mutex across its enqueue; every other operation takes one     *)
(* mutex at a time, so a dequeue and the ownership transfer that belongs   *)
(* to it are separate steps that other threads interleave with.  One       *)
(* action below is one critical section.                                   *)
(***************************************************************************)
EXTENDS Naturals, Sequences, TLC

-----------------------------------------------------------------------------
(* The ownership lifecycle of one packet: the states of OwnershipState and   *)
(* Owner and the authoritative table transition_ownership of                 *)
(* crates/network-core/src/ownership.rs, which the bus consults before every *)
(* compare-and-exchange.                                                     *)

Owners == {"Allocated", "Backend", "Engine", "Bus", "Processing", "Host", "Released"}

IsActive(o) == o # "Released"

\* The hand-offs the table names; everything else is illegal unless it is a
\* self-transition or a clean-up of an active packet.
Handoffs == { <<"Allocated",  "Backend">>,
              <<"Backend",    "Engine">>,
              <<"Engine",     "Bus">>,
              <<"Bus",        "Processing">>,
              <<"Processing", "Host">>,
              <<"Processing", "Engine">>,
              <<"Host",       "Released">> }

TransitionOwnership(current, target) ==
    \/ current = target /\ IsActive(current)
    \/ <<current, target>> \in Handoffs
    \/ target = "Released" /\ IsActive(current)

-----------------------------------------------------------------------------
CONSTANTS Threads,    \* threads calling into clones of one PacketBus
          Ids,        \* observation ids
          Capacity,   \* capacity of the ObservationQueue
          Ops,        \* the operations the callers use, a subset of AllOps
          None        \* no thread

AllOps == {"publish", "read", "read_into", "requeue", "to_host", "release", "close", "clear"}

ASSUME BusAssumption ==
    /\ Capacity \in Nat
    /\ Ops \subseteq AllOps
    /\ None \notin Threads

NoRecord == "absent"   \* the id has no entry in the ownership map

VARIABLES
    queue,    \* items of the ObservationQueue, oldest first
    closed,   \* QueueState.closed
    own,      \* the ownership map: id -> owner of its tracker, or NoRecord
    olock,    \* holder of the ownership mutex while it is kept across a step
    pc,       \* what each thread is doing
    held,     \* the observation each thread works on
    host,     \* observations parked in the Host's handle table
    cleared   \* history: some caller has used `clear`

vars == <<queue, closed, own, olock, pc, held, host, cleared>>

\* Program points.  "dequeued" .. "in_engine" own the observation value itself.
PCs == {"idle", "pub_locked", "pub_enqueued", "dequeued", "processing",
        "rq_engine", "rq_enqueued", "rq_failed", "in_engine", "clearing"}

HasValue == {"dequeued", "processing", "rq_engine", "in_engine"}

Init ==
    /\ queue = <<>>
    /\ closed = FALSE
    /\ own = [id \in Ids |-> NoRecord]
    /\ olock = None
    /\ pc = [t \in Threads |-> "idle"]
    /\ held \in [Threads -> Ids]
    /\ host = {}
    /\ cleared = FALSE

-----------------------------------------------------------------------------
\* Bug: the record is moved without asking the transition table.
CanMove_NoTable(id, expected, target) == own[id] = expected

\* OwnershipTracker::transfer succeeds: legal by the table, and the
\* compare-and-exchange finds the expected owner.
CanMove(id, expected, target) ==
    /\ TransitionOwnership(expected, target)
    /\ own[id] = expected

\* PacketBus::transfer: the record after an attempted transfer.
Transferred(id, expected, target) ==
    IF CanMove(id, expected, target) THEN [own EXCEPT ![id] = target] ELSE own

\* PacketBus::release_from: a released tracker leaves the map at once.
ReleasedFrom(id, owner) ==
    IF CanMove(id, owner, "Released") THEN [own EXCEPT ![id] = NoRecord] ELSE own

\* ObservationQueue::try_enqueue accepts an item.
Accepts == ~closed /\ Capacity # 0 /\ Len(queue) < Capacity

Goto(t, label) == pc' = [pc EXCEPT ![t] = label]

-----------------------------------------------------------------------------
\* Bug: no test for an existing ownership entry.
PublishLock_NoDuplicateTest(t, id) ==
    /\ "publish" \in Ops
    /\ pc[t] = "idle" /\ olock = None
    /\ olock' = t
    /\ held' = [held EXCEPT ![t] = id]
    /\ Goto(t, "pub_locked")
    /\ UNCHANGED <<queue, closed, own, host, cleared>>

\* publish_engine_owned.  The tracker is walked Allocated -> Backend ->
\* Engine -> Bus before it becomes visible, so only "Bus" is ever inserted.
PublishLock(t, id) ==
    /\ "publish" \in Ops
    /\ pc[t] = "idle" /\ olock = None
    /\ own[id] = NoRecord              \* else "duplicate observation ownership entry"
    /\ olock' = t
    /\ held' = [held EXCEPT ![t] = id]
    /\ Goto(t, "pub_locked")
    /\ UNCHANGED <<queue, closed, own, host, cleared>>

\* Bug: the ownership mutex is not kept from the enqueue to the insertion.
PublishEnqueue_Unlocked(t) ==
    /\ pc[t] = "pub_locked"
    /\ olock' = None
    /\ \/ Accepts /\ queue' = Append(queue, held[t]) /\ Goto(t, "pub_enqueued")
       \/ ~Accepts /\ Goto(t, "idle") /\ UNCHANGED queue
    /\ UNCHANGED <<closed, own, held, host, cleared>>

PublishEnqueue(t) ==
    /\ pc[t] = "pub_locked"
    /\ \/ /\ Accepts
          /\ queue' = Append(queue, held[t])
          /\ Goto(t, "pub_enqueued")
          /\ UNCHANGED olock
       \/ /\ ~Accepts                  \* QueueFull or Closed is returned
          /\ olock' = None
          /\ Goto(t, "idle")
          /\ UNCHANGED queue
    /\ UNCHANGED <<closed, own, held, host, cleared>>

PublishInsert(t) ==
    /\ pc[t] = "pub_enqueued"
    /\ own' = [own EXCEPT ![held[t]] = "Bus"]
    /\ olock' = None
    /\ Goto(t, "idle")
    /\ UNCHANGED <<queue, closed, held, host, cleared>>

\* try_read / read: pop the oldest item under the queue mutex ...
Dequeue(t) ==
    /\ "read" \in Ops
    /\ pc[t] = "idle" /\ queue # <<>>
    /\ held' = [held EXCEPT ![t] = Head(queue)]
    /\ queue' = Tail(queue)
    /\ Goto(t, "dequeued")
    /\ UNCHANGED <<closed, own, olock, host, cleared>>

\* ... then Bus -> Processing under the ownership mutex.  On failure the error
\* is returned and the observation value is dropped.
TakeProcessing(t) ==
    /\ pc[t] = "dequeued" /\ olock = None
    /\ own' = Transferred(held[t], "Bus", "Processing")
    /\ Goto(t, IF CanMove(held[t], "Bus", "Processing") THEN "processing" ELSE "idle")
    /\ UNCHANGED <<queue, closed, olock, held, host, cleared>>

\* Bug: the consumer forgets to release what it processed.
ReleaseProcessing_Forgotten(t) ==
    /\ "release" \in Ops
    /\ pc[t] = "processing" /\ olock = None
    /\ Goto(t, "idle")
    /\ UNCHANGED <<queue, closed, own, olock, held, host, cleared>>

\* release_processing by the consumer; the value is dropped either way.
ReleaseProcessing(t) ==
    /\ "release" \in Ops
    /\ pc[t] = "processing" /\ olock = None
    /\ own' = ReleasedFrom(held[t], "Processing")
    /\ Goto(t, "idle")
    /\ UNCHANGED <<queue, closed, olock, held, host, cleared>>

\* transfer_to_host: the value moves to the Host's handle table.
TransferToHost(t) ==
    /\ "to_host" \in Ops
    /\ pc[t] = "processing" /\ olock = None
    /\ own' = Transferred(held[t], "Processing", "Host")
    /\ host' = IF CanMove(held[t], "Processing", "Host") THEN host \cup {held[t]} ELSE host
    /\ Goto(t, "idle")
    /\ UNCHANGED <<queue, closed, olock, held, cleared>>

ReleaseHost(id) ==
    /\ id \in host /\ olock = None
    /\ CanMove(id, "Host", "Released")
    /\ own' = ReleasedFrom(id, "Host")
    /\ host' = host \ {id}
    /\ UNCHANGED <<queue, closed, olock, pc, held, cleared>>

\* requeue_processing: Processing -> Engine, enqueue, Engine -> Bus.
RequeueToEngine(t) ==
    /\ "requeue" \in Ops
    /\ pc[t] = "processing" /\ olock = None
    /\ own' = Transferred(held[t], "Processing", "Engine")
    /\ Goto(t, IF CanMove(held[t], "Processing", "Engine") THEN "rq_engine" ELSE "idle")
    /\ UNCHANGED <<queue, closed, olock, held, host, cleared>>

\* The value is moved into try_enqueue: a refused enqueue drops it.
RequeueEnqueue(t) ==
    /\ pc[t] = "rq_engine"
    /\ \/ /\ Accepts
          /\ queue' = Append(queue, held[t])
          /\ Goto(t, "rq_enqueued")
       \/ /\ ~Accepts
          /\ Goto(t, "rq_failed")
          /\ UNCHANGED queue
    /\ UNCHANGED <<closed, own, olock, held, host, cleared>>

RequeueToBus(t) ==
    /\ pc[t] = "rq_enqueued" /\ olock = None
    /\ own' = Transferred(held[t], "Engine", "Bus")
    /\ Goto(t, "idle")
    /\ UNCHANGED <<queue, closed, olock, held, host, cleared>>

\* The rollback after a refused enqueue: its result is discarded (`let _ =`).
RequeueUndo(t) ==
    /\ pc[t] = "rq_failed" /\ olock = None
    /\ own' = Transferred(held[t], "Engine", "Processing")
    /\ Goto(t, "idle")
    /\ UNCHANGED <<queue, closed, olock, held, host, cleared>>

\* try_read_into after a successful copy: Processing -> Engine -> Released.
\* (A packet larger than the buffer takes the requeue path above.)
IntoEngine(t) ==
    /\ "read_into" \in Ops
    /\ pc[t] = "processing" /\ olock = None
    /\ own' = Transferred(held[t], "Processing", "Engine")
    /\ Goto(t, IF CanMove(held[t], "Processing", "Engine") THEN "in_engine" ELSE "idle")
    /\ UNCHANGED <<queue, closed, olock, held, host, cleared>>

IntoRelease(t) ==
    /\ pc[t] = "in_engine" /\ olock = None
    /\ own' = ReleasedFrom(held[t], "Engine")
    /\ Goto(t, "idle")
    /\ UNCHANGED <<queue, closed, olock, held, host, cleared>>

Close ==
    /\ "close" \in Ops /\ ~closed
    /\ closed' = TRUE
    /\ UNCHANGED <<queue, own, olock, pc, held, host, cleared>>

\* clear: the queue first, the ownership map in a second critical section.
ClearQueue(t) ==
    /\ "clear" \in Ops
    /\ pc[t] = "idle"
    /\ queue' = <<>>
    /\ cleared' = TRUE
    /\ Goto(t, "clearing")
    /\ UNCHANGED <<closed, own, olock, held, host>>

ClearOwnership(t) ==
    /\ pc[t] = "clearing" /\ olock = None
    /\ own' = [id \in Ids |-> NoRecord]
    /\ Goto(t, "idle")
    /\ UNCHANGED <<queue, closed, olock, held, host, cleared>>

-----------------------------------------------------------------------------
Step(t) ==
    \/ \E id \in Ids : PublishLock(t, id)
    \/ PublishEnqueue(t)
    \/ PublishInsert(t)
    \/ Dequeue(t)
    \/ TakeProcessing(t)
    \/ ReleaseProcessing(t)
    \/ TransferToHost(t)
    \/ RequeueToEngine(t)
    \/ RequeueEnqueue(t)
    \/ RequeueToBus(t)
    \/ RequeueUndo(t)
    \/ IntoEngine(t)
    \/ IntoRelease(t)
    \/ ClearQueue(t)
    \/ ClearOwnership(t)

Next ==
    \/ \E t \in Threads : Step(t)
    \/ \E id \in Ids : ReleaseHost(id)
    \/ Close

Spec == Init /\ [][Next]_vars

-----------------------------------------------------------------------------
(* Properties *)

Queued(id) == \E i \in 1..Len(queue) : queue[i] = id

TypeOK ==
    /\ queue \in Seq(Ids) /\ Len(queue) <= Capacity
    /\ closed \in BOOLEAN
    /\ own \in [Ids -> Owners \cup {NoRecord}]
    /\ olock \in Threads \cup {None}
    /\ pc \in [Threads -> PCs]
    /\ held \in [Threads -> Ids]
    /\ host \subseteq Ids
    /\ cleared \in BOOLEAN

\* An observation value is in at most one place: one queue slot, one thread,
\* or the Host's table.
OneCopy ==
    /\ \A i, j \in 1..Len(queue) : queue[i] = queue[j] => i = j
    /\ \A t, u \in Threads :
         pc[t] \in HasValue /\ pc[u] \in HasValue /\ held[t] = held[u] => t = u
    /\ \A t \in Threads : pc[t] \in HasValue => ~Queued(held[t]) /\ held[t] \notin host
    /\ \A id \in host : ~Queued(id)

\* A consumer working on an observation, and the Host, are its recorded owners.
OwnerMatches ==
    /\ \A t \in Threads : pc[t] = "processing" => own[held[t]] = "Processing"
    /\ \A t \in Threads : pc[t] \in {"rq_engine", "in_engine"} => own[held[t]] = "Engine"
    /\ \A id \in host : own[id] = "Host"

\* A consumer that has popped an observation and gets the ownership mutex for
\* its transfer finds the Bus record, unless that very observation is being
\* requeued and the requeuer has yet to make its last transfer.
PoppedIsOnBus ==
    \A t \in Threads : pc[t] = "dequeued" /\ olock = None =>
        \/ CanMove(held[t], "Bus", "Processing")
        \/ \E u \in Threads : pc[u] = "rq_enqueued" /\ held[u] = held[t]

\* The three above are inductive only together with the reason why a queued value
\* may lack a Bus record: its publisher still holds the ownership mutex, or its
\* requeuer has not yet made the last transfer.
BusSide(id) ==
    \/ own[id] = "Bus"
    \/ own[id] = NoRecord /\ \E t \in Threads : pc[t] = "pub_enqueued" /\ held[t] = id
    \/ own[id] = "Engine" /\ \E t \in Threads : pc[t] = "rq_enqueued" /\ held[t] = id

LockInv ==
    /\ \A t \in Threads : pc[t] \in {"pub_locked", "pub_enqueued"} <=> olock = t
    /\ \A t \in Threads : pc[t] \in {"pub_locked", "pub_enqueued"} => own[held[t]] = NoRecord

BusSideInv ==
    /\ \A id \in Ids : Queued(id) => BusSide(id)
    /\ \A t \in Threads : pc[t] = "dequeued" => BusSide(held[t])

EngineSide == {"rq_engine", "rq_enqueued", "rq_failed", "in_engine"}

EngineSideInv ==
    /\ \A t \in Threads : pc[t] \in EngineSide => own[held[t]] = "Engine"
    /\ \A t, u \in Threads :
         pc[t] \in EngineSide /\ pc[u] \in EngineSide /\ held[t] = held[u] => t = u

LiveInv ==
    /\ TypeOK
    /\ \A t \in Threads : pc[t] # "clearing"
    /\ LockInv
    /\ BusSideInv
    /\ EngineSideInv
    /\ OwnerMatches
    /\ OneCopy

\* The inductive invariant of the bus: until some caller uses `clear`, a queued
\* or just-dequeued value is accounted for by its Bus record or by the one
\* thread that is about to write it, and an Engine record by exactly one thread.
BusInv == TypeOK /\ LockInv /\ (~cleared => LiveInv)

\* Duplicate ownership is prevented: until `clear` is used there is never a
\* second copy of an observation, whatever the interleaving of publishers,
\* consumers and requeues (publish_engine_owned, requeue_processing).
SingleLiveCopy == ~cleared => OneCopy

\* Until `clear` is used the ownership record agrees with where the value is, so
\* a consumer's transfers succeed, with two exceptions.  Bus -> Processing is
\* refused in the window that requeue_processing leaves between its enqueue and
\* its transfer to the Bus; the rollback of a refused requeue always is, by the
\* table.  In particular a pop between publish's enqueue and its insertion is
\* harmless: publish keeps the ownership mutex, and the transfer waits for it.
HolderIsOwner == ~cleared => OwnerMatches /\ EngineSideInv /\ PoppedIsOnBus

\* Conversely a Processing or Host record is never left behind by its consumer:
\* some thread is processing that very observation, or it is parked with the
\* Host.  (Engine and Bus records can be left behind: see NoOrphanOwnership.)
ConsumerRecordsAreLive ==
    ~cleared =>
    \A id \in Ids :
        /\ own[id] = "Processing" => \E t \in Threads : pc[t] = "processing" /\ held[t] = id
        /\ own[id] = "Host" => id \in host

\* No orphan ownership (test full_bus_does_not_create_orphan_ownership): a
\* record always belongs to a value that is queued or held by the Host, or some
\* thread is still in the middle of an operation on it.
NoOrphanOwnership ==
    \A id \in Ids : own[id] # NoRecord =>
        \/ Queued(id)
        \/ id \in host
        \/ \E t \in Threads : pc[t] # "idle" /\ held[t] = id

\* A record only moves along the authoritative table: it appears as Bus, goes
\* from one owner to a legal next one, and disappears by a release.  In
\* particular no interleaving lets a failed or late transfer revive a packet.
FollowsTable(old, new) ==
    \/ old = NoRecord /\ new = "Bus"
    \/ old # NoRecord /\ new = NoRecord
    \/ old # NoRecord /\ new # NoRecord /\ TransitionOwnership(old, new)

OwnershipFollowsTable ==
    [][\A id \in Ids : own'[id] # own[id] => FollowsTable(own[id], own'[id])]_vars

-----------------------------------------------------------------------------
(* For the instances TLC checks.                                            *)

NeverClosed == AllOps \ {"clear", "close"}
Perms       == Permutations(Threads) \cup Permutations(Ids)
=============================================================================
