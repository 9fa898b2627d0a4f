--------------------------- MODULE PacketHandles ---------------------------
(***************************************************************************)
(* The data path of the Engine: the capture worker, packet_inject,         *)
(* packet_read, capture_process, the packet actions over the handle table, *)
(* the processing worker, capture start and stop, and what shutdown does   *)
(* to packets (crates/ffi/src: api.rs, capture.rs, processing.rs,          *)
(* handles.rs, shutdown.rs), composed with the Packet Bus.                 *)
(*                                                                         *)
(* Every step that touches the bus is an action of PacketBus.  C-ABI calls *)
(* hold GLOBAL_ENGINE, except that a packet action removes its handle from *)
(* the table before it asks for that mutex; the two workers never hold it. *)
(***************************************************************************)
EXTENDS PacketBus, FiniteSets

CONSTANTS Hosts,       \* Host threads inside the C ABI
          Capturer,    \* the capture worker thread
          Processor,   \* the processing worker thread
          MaxId,       \* bound: observation ids are 1..MaxId
          MaxHandle,   \* bound: handles are 1..MaxHandle
          MaxStarts    \* bound: calls of capture_start

DataOps == {"publish", "read", "to_host", "release", "close"}

ASSUME HandlesAssumption ==
    /\ MaxId \in Nat /\ MaxHandle \in Nat /\ MaxStarts \in Nat
    /\ Ids = 1..MaxId
    /\ Threads = Hosts \cup {Capturer, Processor}
    /\ Capturer \notin Hosts /\ Processor \notin Hosts /\ Capturer # Processor
    /\ Ops = DataOps

VARIABLES
    running,     \* EngineState is Running (otherwise it is ShuttingDown)
    glock,       \* holder of the GLOBAL_ENGINE mutex
    call, stage, \* the call or loop each thread is in, and how far it is
    wanted,      \* id of the observation a publisher is about to offer, or 0
    table,       \* keys of PACKET_HANDLES
    obs,         \* the observation each issued handle stands for
    taken,       \* the handle a packet action has removed from the table, or 0
    nextHandle, nextInject, nextCapture,    \* the three id counters
    captured,    \* ids whose present packet has a WinDivert action context
    capThread, capStop, procThread, procStop,   \* join handles and stop flags
    stats,       \* the counters of EngineStatistics
    starts,      \* captures started so far (bounded by MaxStarts)
    offered, ended,   \* history: publications tried; packets let go uncounted
    sent         \* history: how often each id's present packet was sent

engineVars == <<running, glock>>
slotVars   == <<capThread, capStop, procThread, procStop>>
handleVars == <<table, obs, taken, nextHandle, sent>>
sourceVars == <<wanted, nextInject, nextCapture, captured, starts, offered>>
countVars  == <<stats, ended>>
dataVars   == <<vars, engineVars, call, stage, slotVars, handleVars, sourceVars, countVars>>

HandleIds == 1..MaxHandle
Actions   == {"release", "drop", "pass"}
Calls     == Actions \cup {"none", "draw", "inject", "read", "process", "stop", "shutdown"}
Loops     == {"none", "capture", "worker"}
Stages    == {"start", "publishing", "counting", "busy", "done", "taken", "acting",
              "join_capture", "join_worker", "draining", "test", "recv"}
Counters  == {"received", "processed", "forwarded", "dropped", "saturated", "errors"}

DataInit ==
    /\ Init /\ held = [t \in Threads |-> CHOOSE id \in Ids : TRUE]
    /\ running = TRUE /\ glock = None
    /\ call = [t \in Threads |-> "none"] /\ stage = [t \in Threads |-> "start"]
    /\ wanted = [t \in Threads |-> 0]
    /\ table = {} /\ obs = [h \in HandleIds |-> 0] /\ taken = [t \in Hosts |-> 0]
    /\ nextHandle = 1 /\ nextInject = 1 /\ nextCapture = 1
    /\ captured = {}
    /\ capThread = FALSE /\ capStop = FALSE /\ procThread = FALSE /\ procStop = FALSE
    /\ stats = [c \in Counters |-> 0]
    /\ starts = 0 /\ offered = 0 /\ ended = 0
    /\ sent = [id \in Ids |-> 0]

-----------------------------------------------------------------------------
At(t, c, s) == call[t] = c /\ stage[t] = s

MoveTo(t, s) == stage' = [stage EXCEPT ![t] = s] /\ UNCHANGED call

\* Bug: calls are not serialised by GLOBAL_ENGINE.
Enter_NoLock(t, c, s) ==
    /\ call[t] = "none"
    /\ glock' = t
    /\ call' = [call EXCEPT ![t] = c] /\ stage' = [stage EXCEPT ![t] = s]

\* A Host thread enters a call: global_engine().lock().
Enter(t, c, s) ==
    /\ call[t] = "none" /\ glock = None
    /\ glock' = t
    /\ call' = [call EXCEPT ![t] = c] /\ stage' = [stage EXCEPT ![t] = s]

\* The end of a call, with the guard of GLOBAL_ENGINE dropped, or of one
\* iteration of a worker's loop.
Return(t) ==
    IF t \in Hosts
      THEN /\ glock' = None
           /\ call' = [call EXCEPT ![t] = "none"] /\ stage' = [stage EXCEPT ![t] = "start"]
      ELSE MoveTo(t, "test") /\ UNCHANGED glock

Count(cs) == stats' = [c \in Counters |-> IF c \in cs THEN stats[c] + 1 ELSE stats[c]]

-----------------------------------------------------------------------------
(* Publishing: packet_inject under GLOBAL_ENGINE, the capture worker outside *)

\* packet_inject draws its id before it asks for GLOBAL_ENGINE.
Inject(t) ==
    /\ call[t] = "none" /\ nextInject <= MaxId
    /\ wanted' = [wanted EXCEPT ![t] = nextInject] /\ nextInject' = nextInject + 1
    /\ call' = [call EXCEPT ![t] = "draw"] /\ UNCHANGED stage
    /\ UNCHANGED <<vars, engineVars, slotVars, handleVars, nextCapture, captured, starts,
                   offered, countVars>>

\* ingest_observation under GLOBAL_ENGINE; an id that is refused is not given back.
IngestObservation(t) ==
    /\ At(t, "draw", "start") /\ glock = None
    /\ IF running
         THEN /\ glock' = t
              /\ call' = [call EXCEPT ![t] = "inject"]
              /\ offered' = offered + 1
              /\ UNCHANGED wanted
         ELSE /\ call' = [call EXCEPT ![t] = "none"]
              /\ wanted' = [wanted EXCEPT ![t] = 0]
              /\ UNCHANGED <<glock, offered>>
    /\ UNCHANGED <<vars, running, stage, slotVars, handleVars, nextInject, nextCapture,
                   captured, starts, countVars>>

\* WinDivertRecv returns a packet: its id comes from the worker's own counter.
CaptureRecv ==
    /\ At(Capturer, "capture", "recv") /\ nextCapture <= MaxId
    /\ wanted' = [wanted EXCEPT ![Capturer] = nextCapture]
    /\ nextCapture' = nextCapture + 1 /\ offered' = offered + 1
    /\ MoveTo(Capturer, "start")
    /\ UNCHANGED <<vars, engineVars, slotVars, handleVars, nextInject, captured, starts, countVars>>

CaptureRecvError ==
    /\ At(Capturer, "capture", "recv")
    /\ MoveTo(Capturer, "test")
    /\ UNCHANGED <<vars, engineVars, slotVars, handleVars, sourceVars, countVars>>

Publishing(t) == call[t] \in {"inject", "capture"}

\* publish_engine_owned, one action per critical section of the bus.
Publish(t) ==
    /\ Publishing(t) /\ stage[t] = "start"
    /\ \/ /\ PublishLock(t, wanted[t])
          /\ MoveTo(t, "publishing")
          /\ UNCHANGED <<glock, stats>>
       \/ /\ olock = None /\ own[wanted[t]] # NoRecord    \* duplicate id
          /\ Count({"errors"}) /\ Return(t)
          /\ UNCHANGED vars
    /\ wanted' = [wanted EXCEPT ![t] = 0]
    /\ UNCHANGED <<running, slotVars, handleVars, nextInject, nextCapture, captured,
                   starts, offered, ended>>

\* Bug: a refused packet is dropped without a word.
PublishQueue_Silent(t) ==
    /\ Publishing(t) /\ stage[t] = "publishing"
    /\ PublishEnqueue(t)
    /\ IF Accepts
         THEN /\ captured' = IF t = Capturer THEN captured \cup {held[t]}
                                             ELSE captured \ {held[t]}
              /\ sent' = [sent EXCEPT ![held[t]] = 0]
              /\ MoveTo(t, "counting")
              /\ UNCHANGED glock
         ELSE Return(t) /\ UNCHANGED <<captured, sent>>
    /\ UNCHANGED <<running, slotVars, table, obs, taken, nextHandle,
                   wanted, nextInject, nextCapture, starts, offered, countVars>>

PublishQueue(t) ==
    /\ Publishing(t) /\ stage[t] = "publishing"
    /\ PublishEnqueue(t)
    /\ IF Accepts
         THEN /\ captured' = IF t = Capturer THEN captured \cup {held[t]}
                                             ELSE captured \ {held[t]}
              /\ sent' = [sent EXCEPT ![held[t]] = 0]
              /\ MoveTo(t, "counting")
              /\ UNCHANGED <<glock, stats>>
         ELSE /\ Count({IF closed THEN "errors" ELSE "saturated"}) /\ Return(t)
              /\ UNCHANGED <<captured, sent>>
    /\ UNCHANGED <<running, slotVars, table, obs, taken, nextHandle,
                   wanted, nextInject, nextCapture, starts, offered, ended>>

PublishRecord(t) ==
    /\ Publishing(t) /\ stage[t] = "counting"
    /\ PublishInsert(t)
    /\ UNCHANGED <<engineVars, call, stage, slotVars, handleVars, sourceVars, countVars>>

\* total_packets_received is counted after the packet became readable.
CountReceived(t) ==
    /\ Publishing(t) /\ stage[t] = "counting" /\ pc[t] = "idle"
    /\ Count({"received"}) /\ Return(t)
    /\ UNCHANGED <<vars, running, slotVars, handleVars, sourceVars, ended>>

-----------------------------------------------------------------------------
(* Consuming: packet_read and capture_process under GLOBAL_ENGINE, the       *)
(* processing worker outside, shutdown's drain                               *)

\* packet_read does not ask for a running Engine; process_one does.  An empty
\* queue ends the call without any change.
Read(t, c) ==
    /\ c = "process" => running
    /\ c = "read" => nextHandle <= MaxHandle
    /\ Enter(t, c, "busy")
    /\ Dequeue(t)
    /\ UNCHANGED <<running, slotVars, handleVars, sourceVars, countVars>>

WorkerRead ==
    /\ At(Processor, "worker", "start")
    /\ \/ Dequeue(Processor) /\ MoveTo(Processor, "busy")
       \/ queue = <<>> /\ MoveTo(Processor, "test") /\ UNCHANGED vars
    /\ UNCHANGED <<engineVars, slotVars, handleVars, sourceVars, countVars>>

DrainRead(t) ==
    /\ At(t, "shutdown", "draining")
    /\ Dequeue(t)
    /\ MoveTo(t, "busy")
    /\ UNCHANGED <<engineVars, slotVars, handleVars, sourceVars, countVars>>

\* The second half of try_read.  A refused transfer would end the read and drop
\* the packet.
TakeForProcessing(t) ==
    /\ stage[t] = "busy"
    /\ TakeProcessing(t)
    /\ IF CanMove(held[t], "Bus", "Processing")
         THEN UNCHANGED <<glock, call, stage>> ELSE Return(t)
    /\ UNCHANGED <<running, slotVars, handleVars, sourceVars, countVars>>

\* process_observation_shared: parse, deduplicate, record flow and metadata
\* (their own tables), then count.  The Host's path asks for a running Engine
\* first; shutdown's drain does not process.
Process(t) ==
    /\ stage[t] = "busy" /\ pc[t] = "processing"
    /\ call[t] # "shutdown"
    /\ call[t] = "read" => running
    /\ Count({"processed"}) /\ MoveTo(t, "done")
    /\ UNCHANGED <<vars, engineVars, slotVars, handleVars, sourceVars, ended>>

\* release_processing by process_one, the worker and the drain.
Consume(t) ==
    /\ \/ call[t] \in {"process", "worker"} /\ stage[t] = "done"
       \/ At(t, "shutdown", "busy")
    /\ ReleaseProcessing(t)
    /\ ended' = ended + 1
    /\ IF call[t] = "shutdown" THEN MoveTo(t, "draining") /\ UNCHANGED glock ELSE Return(t)
    /\ UNCHANGED <<running, slotVars, handleVars, sourceVars, stats>>

\* packet_read: handle and Host ownership together, under the table's mutex.
\* When the transfer is refused the handle is withdrawn.
HandToHost(t) ==
    /\ At(t, "read", "done")
    /\ TransferToHost(t)
    /\ nextHandle' = nextHandle + 1
    /\ IF CanMove(held[t], "Processing", "Host")
         THEN /\ table' = table \cup {nextHandle}
              /\ obs' = [obs EXCEPT ![nextHandle] = held[t]]
         ELSE UNCHANGED <<table, obs>>
    /\ Return(t)
    /\ UNCHANGED <<running, slotVars, taken, sent, sourceVars, countVars>>

-----------------------------------------------------------------------------
(* Packet actions: packet_release, packet_drop, packet_pass.  packet_reinject *)
(* is the same code as packet_pass; packet_modify sends other bytes and       *)
(* bumps modifications_applied as well.                                       *)

\* take_packet_handle, before GLOBAL_ENGINE is asked for.
Take(t, h, a) ==
    /\ call[t] = "none" /\ h \in table
    /\ table' = table \ {h}
    /\ taken' = [taken EXCEPT ![t] = h]
    /\ call' = [call EXCEPT ![t] = a] /\ stage' = [stage EXCEPT ![t] = "taken"]
    /\ UNCHANGED <<vars, engineVars, slotVars, obs, nextHandle, sent, sourceVars, countVars>>

HasContext(t) == obs[taken[t]] \in captured

\* Bug: the error return forgets the handle.
Restore_Lost(t) ==
    /\ taken' = [taken EXCEPT ![t] = 0]
    /\ call' = [call EXCEPT ![t] = "none"] /\ stage' = [stage EXCEPT ![t] = "start"]
    /\ UNCHANGED table

\* restore_packet_handle and the error return.
Restore(t) ==
    /\ table' = table \cup {taken[t]}
    /\ taken' = [taken EXCEPT ![t] = 0]
    /\ call' = [call EXCEPT ![t] = "none"] /\ stage' = [stage EXCEPT ![t] = "start"]

\* Without a WinDivert context the handle goes back at once; after a failed
\* reinjection it goes back under GLOBAL_ENGINE, which is free again afterwards.
RefuseAction(t) ==
    /\ At(t, "pass", "taken")
    /\ HasContext(t) => glock = None
    /\ Restore(t)
    /\ UNCHANGED <<vars, engineVars, slotVars, obs, nextHandle, sent, sourceVars, countVars>>

\* GLOBAL_ENGINE, then the native send of a forwarding action succeeds.
Act(t) ==
    /\ call[t] \in Actions /\ stage[t] = "taken" /\ glock = None
    /\ call[t] = "pass" => running /\ HasContext(t)
    /\ sent' = IF call[t] = "pass" THEN [sent EXCEPT ![obs[taken[t]]] = @ + 1] ELSE sent
    /\ glock' = t /\ MoveTo(t, "acting")
    /\ UNCHANGED <<vars, running, slotVars, table, obs, taken, nextHandle, sourceVars, countVars>>

\* Bug: the release names the wrong owner, so the bus refuses it every time.
Release_WrongOwner(t) ==
    /\ call[t] \in Actions /\ stage[t] = "acting" /\ olock = None
    /\ ~CanMove(obs[taken[t]], "Processing", "Released")
    /\ Restore(t)
    /\ glock' = None
    /\ UNCHANGED <<vars, running, slotVars, obs, nextHandle, sent, sourceVars, countVars>>

\* release_host, the counters, and the return.  If the bus refused the release
\* the handle would be restored, although the packet may have been sent.
Release(t) ==
    /\ call[t] \in Actions /\ stage[t] = "acting" /\ olock = None
    /\ IF CanMove(obs[taken[t]], "Host", "Released")
         THEN /\ ReleaseHost(obs[taken[t]])
              /\ Count(CASE call[t] = "drop" -> {"dropped"}
                         [] call[t] = "pass" -> {"forwarded"}
                         [] OTHER            -> {})
              /\ ended' = IF call[t] = "release" THEN ended + 1 ELSE ended
              /\ obs' = [obs EXCEPT ![taken[t]] = 0]
              /\ taken' = [taken EXCEPT ![t] = 0]
              /\ call' = [call EXCEPT ![t] = "none"]
              /\ stage' = [stage EXCEPT ![t] = "start"]
              /\ UNCHANGED table
         ELSE Restore(t) /\ UNCHANGED <<vars, obs, countVars>>
    /\ glock' = None
    /\ UNCHANGED <<running, slotVars, nextHandle, sent, sourceVars>>

-----------------------------------------------------------------------------
(* The worker threads *)

CaptureStart(t) ==
    /\ call[t] = "none" /\ glock = None
    /\ running /\ ~capThread /\ starts < MaxStarts
    /\ capThread' = TRUE /\ capStop' = FALSE
    /\ nextCapture' = 1 /\ starts' = starts + 1
    /\ call' = [call EXCEPT ![Capturer] = "capture"]
    /\ stage' = [stage EXCEPT ![Capturer] = "test"]
    /\ UNCHANGED <<vars, engineVars, procThread, procStop, handleVars, wanted, nextInject,
                   captured, offered, countVars>>

\* The loop condition; the worker closes its WinDivert handle when it leaves.
CaptureTest ==
    /\ At(Capturer, "capture", "test")
    /\ IF capStop \/ ~running
         THEN call' = [call EXCEPT ![Capturer] = "none"] /\ stage' = [stage EXCEPT ![Capturer] = "start"]
         ELSE MoveTo(Capturer, "recv")
    /\ UNCHANGED <<vars, engineVars, slotVars, handleVars, sourceVars, countVars>>

\* Bug: capture_stop joins without raising the stop flag.
CaptureStop_NoFlag(t) ==
    /\ Enter(t, "stop", "join_capture")
    /\ UNCHANGED <<vars, running, slotVars, handleVars, sourceVars, countVars>>

\* capture_stop keeps GLOBAL_ENGINE while it joins the worker.
CaptureStop(t) ==
    /\ Enter(t, "stop", "join_capture")
    /\ capStop' = TRUE
    /\ UNCHANGED <<vars, running, capThread, procThread, procStop,
                   handleVars, sourceVars, countVars>>

CaptureJoined(t) ==
    /\ At(t, "stop", "join_capture") /\ call[Capturer] = "none"
    /\ capThread' = FALSE
    /\ Return(t)
    /\ UNCHANGED <<vars, running, capStop, procThread, procStop,
                   handleVars, sourceVars, countVars>>

StartProcessingWorker(t) ==
    /\ call[t] = "none" /\ glock = None
    /\ running /\ ~procThread
    /\ procThread' = TRUE /\ procStop' = FALSE
    /\ call' = [call EXCEPT ![Processor] = "worker"]
    /\ stage' = [stage EXCEPT ![Processor] = "test"]
    /\ UNCHANGED <<vars, engineVars, capThread, capStop, handleVars, sourceVars, countVars>>

WorkerTest ==
    /\ At(Processor, "worker", "test")
    /\ IF procStop \/ ~running
         THEN call' = [call EXCEPT ![Processor] = "none"] /\ stage' = [stage EXCEPT ![Processor] = "start"]
         ELSE MoveTo(Processor, "start")
    /\ UNCHANGED <<vars, engineVars, slotVars, handleVars, sourceVars, countVars>>

-----------------------------------------------------------------------------
(* Shutdown, as far as it concerns packets: stop the producer, stop the      *)
(* worker, begin the shutdown, close the bus, drain it                       *)

Shutdown(t) ==
    /\ running
    /\ Enter(t, "shutdown", "join_capture")
    /\ capStop' = TRUE
    /\ UNCHANGED <<vars, running, capThread, procThread, procStop,
                   handleVars, sourceVars, countVars>>

\* Bug: the capture worker is told to stop but not waited for.
ShutdownCapture_NoJoin(t) ==
    /\ At(t, "shutdown", "join_capture")
    /\ capThread' = FALSE /\ procStop' = TRUE
    /\ MoveTo(t, "join_worker")
    /\ UNCHANGED <<vars, engineVars, capStop, procThread, handleVars, sourceVars, countVars>>

ShutdownCapture(t) ==
    /\ At(t, "shutdown", "join_capture") /\ call[Capturer] = "none"
    /\ capThread' = FALSE /\ procStop' = TRUE
    /\ MoveTo(t, "join_worker")
    /\ UNCHANGED <<vars, engineVars, capStop, procThread, handleVars, sourceVars, countVars>>

ShutdownWorker(t) ==
    /\ At(t, "shutdown", "join_worker") /\ call[Processor] = "none"
    /\ procThread' = FALSE
    /\ running' = FALSE
    /\ Close
    /\ MoveTo(t, "draining")
    /\ UNCHANGED <<glock, capThread, capStop, procStop, handleVars, sourceVars, countVars>>

\* The drain ends with the queue empty.  What follows concerns backends and
\* tables; the handle table is left alone, because a shutdown never succeeds
\* (EngineLifecycle) and only a successful one clears it.
DrainDone(t) ==
    /\ At(t, "shutdown", "draining") /\ queue = <<>>
    /\ Return(t)
    /\ UNCHANGED <<vars, running, slotVars, handleVars, sourceVars, countVars>>

-----------------------------------------------------------------------------
\* The steps a thread takes once it is inside a call or a loop.
Proceed(t) ==
    \/ Publish(t)
    \/ PublishQueue(t)
    \/ PublishRecord(t)
    \/ CountReceived(t)
    \/ TakeForProcessing(t)
    \/ Process(t)
    \/ Consume(t)

ProceedHost(t) ==
    \/ Proceed(t)
    \/ IngestObservation(t)
    \/ HandToHost(t)
    \/ RefuseAction(t)
    \/ Act(t)
    \/ Release(t)
    \/ CaptureJoined(t)
    \/ ShutdownCapture(t)
    \/ ShutdownWorker(t)
    \/ DrainRead(t)
    \/ DrainDone(t)

\* The calls a Host thread may make.
Request(t) ==
    \/ Inject(t)
    \/ \E c \in {"read", "process"} : Read(t, c)
    \/ \E h \in HandleIds, a \in Actions : Take(t, h, a)
    \/ CaptureStart(t)
    \/ CaptureStop(t)
    \/ StartProcessingWorker(t)
    \/ Shutdown(t)

\* The capture worker outside the native receive, and its loop.
CaptureWorks == Proceed(Capturer) \/ CaptureTest

CaptureLoop == CaptureWorks \/ CaptureRecv \/ CaptureRecvError

WorkerLoop == Proceed(Processor) \/ WorkerRead \/ WorkerTest

DataNext ==
    \/ \E t \in Hosts : Request(t) \/ ProceedHost(t)
    \/ CaptureLoop
    \/ WorkerLoop

\* A thread inside the Engine keeps running.  Nothing is assumed of the native
\* receive: WinDivertRecv has no timeout and capture_stop does not cancel it.
DataFairness ==
    /\ \A t \in Hosts : WF_dataVars(ProceedHost(t))
    /\ WF_dataVars(CaptureWorks)
    /\ WF_dataVars(WorkerLoop)

DataSpec == DataInit /\ [][DataNext]_dataVars

FairDataSpec == DataSpec /\ DataFairness

-----------------------------------------------------------------------------
(* Properties *)

CallTypes ==
    /\ glock \in Hosts \cup {None}
    /\ call \in [Threads -> Calls \cup Loops]
    /\ stage \in [Threads -> Stages]

FlagTypes ==
    /\ running \in BOOLEAN
    /\ capThread \in BOOLEAN /\ capStop \in BOOLEAN
    /\ procThread \in BOOLEAN /\ procStop \in BOOLEAN

HandleTypes ==
    /\ table \subseteq HandleIds
    /\ obs \in [HandleIds -> Ids \cup {0}]
    /\ taken \in [Hosts -> HandleIds \cup {0}]
    /\ nextHandle \in Nat \ {0} /\ nextHandle <= MaxHandle + 1
    /\ sent \in [Ids -> Nat]

SourceTypes ==
    /\ wanted \in [Threads -> Ids \cup {0}]
    /\ nextInject \in Nat \ {0} /\ nextCapture \in Nat \ {0}
    /\ captured \subseteq Ids
    /\ starts \in Nat /\ offered \in Nat

CountTypes == stats \in [Counters -> Nat] /\ ended \in Nat

DataTypeOK == CallTypes /\ FlagTypes /\ HandleTypes /\ SourceTypes /\ CountTypes

\* Handles that stand for a packet: in the table, or in the hands of an action.
InFlight    == {t \in Hosts : taken[t] # 0}
Outstanding == table \cup {taken[t] : t \in InFlight}

\* Every packet the bus records as owned by the Host has exactly one handle, in
\* the table or with exactly one running action, and every handle has such a
\* packet: no handle is lost between the table's mutex and GLOBAL_ENGINE, and no
\* release can be refused (take_packet_handle, restore_packet_handle, packet_read).
OneHandlePerPacket ==
    /\ \A h, g \in Outstanding : obs[h] = obs[g] => h = g
    /\ \A t, u \in InFlight : taken[t] = taken[u] => t = u
    /\ \A t \in InFlight : taken[t] \notin table
    /\ host = {obs[h] : h \in Outstanding}

\* A packet goes back to the network at most once, and a handle in the table
\* never stands for a packet that was already sent: packet_pass sends first and
\* releases afterwards, and restores the handle on every failure in between.
SentAtMostOnce ==
    /\ \A id \in Ids : sent[id] <= 1
    /\ \A h \in table : sent[obs[h]] = 0

\* Who is inside GLOBAL_ENGINE, which calls carry a handle, and what a call in
\* progress has already made sure of.
Locked(t) == call[t] \in {"inject", "read", "process", "stop", "shutdown"} \/ stage[t] = "acting"

CallInv ==
    /\ \A t \in Hosts : call[t] \in Calls
    /\ call[Capturer] \in {"none", "capture"} /\ call[Processor] \in {"none", "worker"}
    /\ \A t \in Threads : call[t] = "none" => stage[t] = "start"
    /\ \A t \in Hosts : Locked(t) <=> glock = t
    /\ \A t \in Hosts : taken[t] # 0 <=> call[t] \in Actions
    /\ \A t \in Hosts : call[t] \in Actions <=> stage[t] \in {"taken", "acting"}
    /\ \A t \in Hosts : call[t] = "read" => nextHandle <= MaxHandle
    /\ \A t \in Hosts : call[t] = "draw" => stage[t] = "start"
    /\ \A t \in Threads : (Publishing(t) /\ stage[t] = "start") \/ call[t] = "draw"
                             => wanted[t] \in Ids

\* A handle that will be issued next stands for nothing yet.
FreshHandles == \A h \in Outstanding : h < nextHandle

\* A packet that an action has not yet reached has not been sent.
UnsentInv ==
    /\ \A t \in Hosts : stage[t] = "taken" => sent[obs[taken[t]]] = 0
    /\ \A id \in Ids : Queued(id) => sent[id] = 0
    /\ \A t \in Threads : pc[t] \in {"dequeued", "processing"} => sent[held[t]] = 0

\* The inductive invariant of the data path.
DataInv ==
    /\ LiveInv /\ ~cleared
    /\ DataTypeOK
    /\ CallInv
    /\ OneHandlePerPacket /\ FreshHandles
    /\ SentAtMostOnce
    /\ UnsentInv

Publishers(s) == {t \in Threads : Publishing(t) /\ stage[t] \in s}
Consumers     == {t \in Threads : pc[t] \in {"dequeued", "processing"}}

\* Every packet offered to the bus is in one place or was let go in one counted
\* way; a refusal shows in the statistics, and total_packets_received lags by
\* exactly the publishers that have not counted yet ("Queue-full is reported
\* ..., never silently dropped").  Those are also the most by which the packets
\* processed can run ahead of the packets received (validate_statistics).
Accounted ==
    /\ offered = Cardinality(Publishers({"start", "publishing"}))
                 + stats["saturated"] + stats["errors"]
                 + Len(queue) + Cardinality(Consumers) + Cardinality(host)
                 + stats["forwarded"] + stats["dropped"] + ended
    /\ offered = stats["received"] + stats["saturated"] + stats["errors"]
                 + Cardinality(Publishers({"start", "publishing", "counting"}))
    /\ stats["processed"] <= stats["received"] + Cardinality(Publishers({"counting"}))

\* When shutdown has given GLOBAL_ENGINE back both workers are gone, the bus is
\* empty, and what it still records belongs to the Host, whose handles go on
\* working: "Shutdown resolves ownership before releasing resources".
ShutdownResolvesPackets ==
    ~running /\ glock = None =>
        /\ closed /\ queue = <<>>
        /\ call[Capturer] = "none" /\ call[Processor] = "none"
        /\ \A id \in Ids : own[id] \in {NoRecord, "Host"}

\* packet_read and capture_process work on a packet only while the Engine runs,
\* so the requeue path of packet_read, which can lose a packet, is not taken.
ReadsWhileRunning ==
    \A t \in Hosts : call[t] \in {"read", "process"} => running

\* The call that has GLOBAL_ENGINE is joining the capture worker, and the worker
\* is inside the native receive.
JoinsReceiver(t) ==
    /\ glock = t /\ call[t] \in {"stop", "shutdown"} /\ stage[t] = "join_capture"
    /\ At(Capturer, "capture", "recv")

\* GLOBAL_ENGINE always comes back, with one exception: a capture_stop or a
\* shutdown joins a capture worker that never comes out of WinDivertRecv (a
\* silent network), and then keeps every other call out for ever.  A worker that
\* fails to see its stop flag, a full bus or another call cannot cause that.
EngineLockReturned ==
    \A t \in Hosts : (glock = t ~> glock # t) \/ <>[]JoinsReceiver(t)
=============================================================================
