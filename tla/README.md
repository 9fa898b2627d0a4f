# TLA+ verification of the Network Engine

The repository builds `network-engine.dll`, a Rust network engine that a Host
program drives over a C ABI. This directory models the parts of it that are
hard to test, model-checks them with TLC and proves the main invariants with
TLAPS. `PROJECT.json` lists components, runs, mutants, the line of source each
definition models, findings, hazards and theorems.

## 1. Inventory

| Component (crate) | State | Operations | What makes it correct |
|---|---|---|---|
| Packet ownership (`network-core/ownership.rs`, `packet-bus/ownership.rs`) | one owner per packet | compare-and-exchange transfer along a fixed table | records only move along the table, `Released` is terminal |
| Packet Bus (`packet-bus/bus.rs`) | queue of observations; map id -> tracker | publish, read, read into a buffer, requeue, hand to Host, release, close, clear | one copy per packet, record agrees with the holder, no orphan record |
| Observation queue (`packet-bus/queue.rs`) | items, closed flag, two condition variables | enqueue/dequeue, blocking or not, close, clear | no lost wake-up, close frees everybody, capacity respected |
| Pool and backpressure (`packet-bus/pool.rs`, `buffer.rs`, `backpressure.rs`) | free buffers, two atomic counters; two watermarks | acquire, release, clear, preallocate; evaluate | no buffer twice, counters agree, a level at exactly its watermark |
| Backend Manager (`backend-manager`, `backend-contracts`, `ffi/load_balancer.rs`, `coordination.rs`) | per backend a lifecycle and a health monitor; failover policy and cursor; capability tables; work counters | register, start, stop, health reports, select, report, fail over | legal lifecycles, health and lifecycle agree, selectors agree, in-flight work counted exactly |
| Native backends (`backend-{npcap,windivert,wfp,iphelper,etw}`) | native handles, and tables of captures, devices, filters, flows, routes, connections, providers | open, close, receive, send, install, refresh, emit | every native resource has an owner, tables say what the system does, a refresh leaves nothing stale |
| Engine (`ffi/engine.rs`, `init.rs`, `backends.rs`, `shutdown.rs`, `network-core/engine_state.rs`) | engine lifecycle, native slots, active routes, worker threads, action handle | init, start/stop/restart/fail over a backend, reinject, shutdown | the manager's view agrees with the sessions, shutdown silences and releases everything |
| Capture and processing (`ffi/capture.rs`, `processing.rs`, `coordination.rs`, `statistics.rs`) | capture worker, counters | start, stop, ingest, process, drain | every packet is counted and released once |
| C ABI (`ffi/api.rs`, `ffi_backend.rs`, `handles.rs`) | `GLOBAL_ENGINE`, table of packet handles | one function per call | handles are used once, calls after shutdown are refused |
| Gateway (`gateway-capability`, `ffi/gateway.rs`) | policy, context, NAT, connection and neighbour tables, routing and forwarding tables | config, start, stop, degrade, insert, look up, expire, forward | live entries survive, indexes agree, dead entries make room, routes are chosen alike everywhere |
| Flow engine and correlation (`flow-engine`, `correlation`) | bounded flow table, window of recent hashes | record, expire, remove, clear | one entry per conversation, counters only grow, exact window |
| Metadata engine (`metadata-engine`) | worker queues, result channel, cache | enqueue, drain, stop; insert, get, expire | no accepted lookup lost, stop returns, bounded and fresh cache |
| Network state (`network-state`) | snapshot and generation | replace, update, read | a generation tells whether a copy is current |
| Host policy and engine flags (`ffi/policy_api.rs`, `decision.rs`, `network-core/engine_state.rs`) | policy, lifecycle, two polled flags | set default, add and clear rules; begin and finish transitions | no update lost, flags follow the lifecycle |
| Statistics and metrics (`network-core/statistics.rs`, `metrics.rs`, `ffi/statistics.rs`, `metrics.rs`) | atomics | record, snapshot, reset | what a reader that runs alongside can see |
| Packet parser (`packet-parser`) | none | decode headers, validate checksums | every offset stays inside the packet, ports are real |

**Interaction.** The Host calls the C ABI; every control call runs under the
`GLOBAL_ENGINE` mutex from start to end. The capture worker and consumers work
outside that mutex on clones of the Packet Bus. The Engine calls the Backend
Manager (which only keeps records) and the native backends (which own handles)
one after the other and has to keep the two in step. Packets travel backend ->
engine -> bus -> processing -> Host, and the ownership table follows them.

**Hard behaviours.** Two mutexes in the bus and the interleavings between them;
condition variables; native calls that fail in the middle of an operation;
shutdown that stops half-way and is retried; routes chosen earlier and used
later; ids that are re-used; counters kept outside the lock of what they count;
system tables read query by query while they change; clocks set back; workers
blocked by the channel that their stopper has to drain. `PROJECT.json` lists them at their lines under
`hazards`.

## 2. Modules

| Module | Models | State and actions |
|---|---|---|
| `PacketBus` | `transition_ownership`, `bus.rs` | the owners and the legal moves as constants; `queue`, `closed` and `own` are the two mutex-protected structures; `olock` the ownership mutex where it is kept across the queue's; `pc`/`held` each caller's place and packet; one action per critical section, so `requeue_processing` is the three actions `RequeueToEngine`, `RequeueEnqueue`, `RequeueToBus`/`RequeueUndo` |
| `ObservationQueue` | `queue.rs` | `items`, `closed`, `capacity`; `pc` tells sleeping from awake threads; `NotifyOne` and `NotifyAll` are the condition variables, `SpuriousWakeup` what they may do unasked |
| `BackendState` | lifecycle matrix, health monitor, manager operations on one backend; the native start and stop of each backend | pure: a backend is a record `[lc, health, fails, recov]`, a session one of `none`, `closed`, `open`, `failed` |
| `EngineLifecycle` | the control plane: every C-ABI call that changes the Engine | `be` the manager's records, `native` the slots, the two routes, capture worker, action handle, gateway, `serving` (bus open, metadata workers run), failover policy and cursor; one action per call |
| `PacketHandles` | the data path: `api.rs` (packet calls), `capture.rs`, `processing.rs`, `handles.rs`, the packet part of `shutdown.rs` | `glock` is `GLOBAL_ENGINE`; `call`/`stage` where each Host thread and the two workers are; `table`, `obs`, `taken` the handle table and the handles that running actions have removed from it; the three id counters; stop flags and join handles; `stats`. `offered`, `ended` and `sent` are history. One action per critical section or atomic step; what touches the bus is the `PacketBus` action |
| `BufferPool` | `pool.rs`, `buffer.rs` | `idle` under `lock`, `allocated` and `inUse` outside, wrapping at `Word`; `at`, `cur`, `hold` each caller's place, loaded counter and buffer; one action per lock, load or compare-and-exchange, `clear` and `preallocate` included. `lost`, `escaped`, `upsets` and `refused` are history |
| `BoundedPool` | what the pool promises | `free` and `out`, each call one step, as long as `kept` |
| `Backpressure` | `backpressure.rs` | the watermarks that validation leaves, one question and its answer |
| `GatewayTables` | `connection_state.rs`, `nat.rs`, `neighbor.rs` | three functions from keys to entries, NAT's two indexes, the wall clock; one action per table operation |
| `GatewayCapability` | `gateway_config` in `api.rs` and `ffi/gateway.rs`, `gateway-capability/lib.rs`, `state.rs`, `gateway_context.rs` | administrative state, `enabled`, context; configure, start, stop, degrade, fail, clear, replace |
| `IpHelper` | `backend-iphelper` | its four tables, the system's four, and how far a refresh has come; one action per system query, which may fail |
| `NetworkState` | `ffi/init.rs`, `network-state` | the rows the Engine copied, as it converts them |
| `Forwarding`, `GatewayPath` | `forwarding.rs`, `routing.rs`, `ingress.rs`, `egress.rs`, prefixes in `network-state` | two route tables filled from rows or by hand; lookups are operators |
| `StateStore` | `network-state/state.rs` | a snapshot, its generation, and a client's copy |
| `PacketParser` | `packet-parser` | pure: one operator per layer moves a cursor over a frame's header fields; byte sums as each parser lays them out |
| `FlowTable`, `Tracking` | `flow-engine`, `correlation`, first half of `process_observation_shared` | flows by first-seen direction, two clock baselines; the duplicate window and the packet between its two locks |
| `WorkerPool`, `Enrichment` | `workers.rs`, second half of `process_observation_shared` | a queue per worker, the result channel, the processing thread and the shutdown |
| `MetadataCache` | `cache.rs` | entries with their expiry and a clock that may be set back |
| `EngineState`, `HostPolicy` | `engine_state.rs`, `policy_api.rs`, `decision.rs` | lifecycle, flags and policies; each call's place between its critical sections |
| `Statistics` | `statistics.rs`, `metrics.rs` of three crates | a record is a sequence of atomic updates, a snapshot a sequence of loads |
| `Capabilities` | capability codes, declarations, matrices, work kinds | constants |
| `LoadBalancer` | `manager.rs`, `selection.rs`, `complementarity.rs`, `load_balancer.rs`, `coordination.rs` | backends' records, one control call in progress, worker threads that select, work and report |
| `Failover` | `failover.rs`, `registry.rs` | the coordinator's candidates, index, active one and state; the registry |
| `Npcap`, `Wfp`, `Etw`, `WinDivert` | the native backends | the backend's tables next to the native resources behind them; native answers are chosen freely |
| `Lists` | sorting, filtering and adding up, as the code does them on vectors | pure: a sorted list gives each element the place its rank says |
| `MCPacketStorage`, `MCPacketHandles`, `MCGateway`, `MCTracking`, `MCSelection`, `MCNative` | instances for TLC | parts that share no state are put side by side: a variable `scenario`, chosen at the start, says which one a behaviour exercises |
| `ListProofs`, `PacketStorageProofs`, `EngineLifecycleProofs`, `PacketHandlesProofs` (with the bus), `GatewayProofs`, `SelectionProofs`, `NativeProofs`, `PipelineProofs` | theorems and proofs (section 5) | |

`EngineLifecycle` extends `BackendState`; `PacketBus` uses the non-blocking half of the queue that `ObservationQueue` models in full.
`PacketHandles` extends `PacketBus` and calls the bus operations the Engine
calls (`DataOps`). `Tracking` composes parser, duplicate filter and flow table,
`Enrichment` the processing thread with the worker pool, `NetworkState` the
Engine's copy with the IP Helper tables it is taken from, `GatewayPath` the
route tables with that copy, and `GatewayCapability` the lifecycle with its
tables. `BufferPool` is shown to implement `BoundedPool`.

### Abstractions

* On the bus an observation is its id, in `PacketParser` the header fields that
  decide a length or a branch. Error strings are left out.
* A call that is refused and changes nothing is not an action.
* Poisoned mutexes are not modelled: no modelled critical section panics.
* A failed initialisation drops the runtime it was building; nothing remains.
* In `EngineLifecycle`, `capture_stop` joins its worker within the call. The
  worker's own steps, the join, and the optional processing thread of the Rust
  API are in `PacketHandles`.
* `PacketHandles` starts with a running Engine. A shutdown never succeeds
  (finding `shutdown_incomplete`), so the handle table, which only a successful
  one clears, is never cleared, and there is no second initialisation.
* `packet_pass`, `packet_reinject` and `packet_modify` have the same control
  flow and are one action, `pass`. A reinjection may fail at any time.
* `total_errors` counts refusals by the bus only; parse errors bump it too in
  the code, together with the packet being processed all the same.
* `PacketHandles` takes what `process_observation_shared` does to the flow
  table, the duplicate filter and the metadata as one step of the consumer;
  `Tracking` and `Enrichment` open it up. None of it can fail without a
  poisoned mutex.
* A publication that fails on the queue (full or closed) leaves no record and
  is over; the packet's bytes are dropped by the caller.
* A backend the Host registers over the C ABI has no capability and no native
  session, so one name (`host`) stands for all of them.
* The round-robin cursor is kept modulo 2: at most two built-ins share a
  capability the Engine selects by.
* The recovery count of a healthy monitor is never read before it is reset, so
  it is kept at 0; the failure count saturates at its threshold, which is the
  only value it is compared with.
* An address is a word of `Bits` bits, two in the run, so that prefixes of length
  0, 1 and full width exist; bytes have `Radix` values in the checksums, which keeps carries.
* Clocks are small numbers; where the code reads the wall clock they may step
  back, and subtraction saturates as in the code.
* A caller of the pool holds one buffer: a thread with several is several
  callers. Any call may overlap any other. `upsets` counts what the counters
  are not made for, a `clear` that meets another call and the release of a
  buffer the pool never handed out; `MaxUpsets` caps it. After the first one only
  `HandedOutEmpty` is promised (section 4 says what goes wrong).
* A native call answers in any way the code distinguishes. What WFP enforces is
  the set of filters added and not yet deleted. The table orders its filters by
  weight and then by id (`filter.rs:334-338`); the system gets the weight only
  (`filter.rs:410-415`), so between equal weights on a layer it may stop at either.
* `LoadBalancer.Visit` takes three lock acquisitions of one search as a step; the
  search itself goes backend by backend beside other threads.
* The totals of `load_balancer.rs` that no decision reads are left out.

## 3. Runs

| Run | Instance | Shows |
|---|---|---|
| `bus_all` | 3 threads, 2 ids, capacity 2, every operation | `SingleLiveCopy`, `HolderIsOwner` (who works on a packet is its recorded owner; one that was popped finds its `Bus` record, unless its requeuer is not done), `ConsumerRecordsAreLive`, and the action property `OwnershipFollowsTable` |
| `storage_all` | queue: 4 threads, capacities 0, 1 and 2; pool: 2 callers, 2 buffers of 1 byte, counters of 5 values, 2 upsets; backpressure: 20 configurations, occupancies around every level; enrichment: 2 workers, room for 1 lookup each, 3 observations | `NoLostWakeup`, `NoHopelessWait`, `CloseReleasesAll` under weak fairness; `PoolInv`; the refinement `RefinesBoundedPool`; `BackpressureIsExact`; `EnrichmentInv`, and `PipelineDrains` under weak fairness |
| `lifecycle_all` | five built-ins and one Host backend, of which three are started and stopped and one is reported on; thresholds 3 and 2; two failover policies; native calls may fail | `NoTransientAtRest`, `EngineMatchesNative`, `UnhealthyNotAvailable`, `QuiescedAfterShutdown`, the action property `RoutesMoveToHealthy` |
| `handles_all` | 2 Host threads and both workers, 2 ids, 2 handles, 1 capture, capacity 1 | `OneHandlePerPacket`, `SentAtMostOnce`, `Accounted`, `ShutdownResolvesPackets`, `ReadsWhileRunning` |
| `handles_live` | as above with 1 id and 1 handle, 2 captures | `EngineLockReturned` under weak fairness: the lock comes back, or its holder joins a capture worker that is inside a native receive |
| `gateway_all` | 1 connection, 2 translations, 1 neighbour, a clock of two instants that may be set back; 2 interfaces, 2-bit addresses, 2 changes of the system during refreshes; route tables of up to 3 | `GatewayInv`, `InsertMakesRoom`, `ConnectionsOnlyAdvance`, `OnlyHostDiscards`; `RefreshIsExact`, `NetworkInv`; `RoutingAgrees` |
| `tracking_all` | 2 endpoints, 2 flows, a window of 2 hashes, 3 observations, 2 flows the Host inserts; 2 threads on policy and flags; cache of 2 entries; 2 recorders and a reader, 3 calls; frames and segments around every length | `ProcessingInv`, `ParserSafe`, the action property `FlowsOnlyGrow` |
| `selection_all` | 2 backends, 2 workers, thresholds 2 and 1, a counter of 3 values, every capability asked for; 2 failover candidates with 2 priorities, renamed in place | `SelectorsInv`, `NoSteadyBackendMissed`, `LoadIsExact`, `FailoverInv` |
| `native_all` | 2 captures, 2 interfaces and an invalid one; 2 filters, 3 sessions; 2 of 3 flows, counters of 2; 2 registrations, a clone; 2 WinDivert runtimes and handles, a queue of 2 packets and 3 bytes | `NativeHandlesOwned`, `TablesMatchNative`, the action property `FlowsNeverResume` |
| `bus_race` | as `bus_all`, capacity 3, without close and clear | a requeue can leave an ownership record nobody owns |
| `shutdown_incomplete` | native calls that all succeed | a shutdown does not succeed, against the integration test |
| `pool_preallocated` | 1 caller | an acquire refuses the buffer that `preallocate` made, against the unit test |

**Bounds.** Two ids on a queue of two make the queue full, empty, and re-use
ids; the third thread is the consumer that comes between a requeuer and its
last step while a publisher holds the ownership mutex. Four threads on at most
two slots put two sleepers on one condition variable beside two awake threads.
Npcap, WinDivert and IP Helper are the built-ins whose capability or whose
initialisation the Engine depends on; WFP and ETW behave like WinDivert and
like a backend without capability, and stay in the model as registered names.
The thresholds are the program's own. In `PacketHandles`, one slot is full after
one packet, so saturation, a drain that finds a packet, and a refused duplicate
all happen with two ids drawn from each counter; two handles let one be in the
table while the other is with an action, and two Host threads are an action and
whatever comes between its two locks. `MaxId`, `MaxHandle` and `MaxStarts` cap
the 64-bit counters and the calls of `capture_start`. The theorems below drop
these bounds.

Two callers of two buffers reach the limit with one caller between its failed pop
and its compare-and-exchange and another between push and uncount; `Word` is 5, the
least that holds every legitimate count, so a counter that goes wrong wraps at once.
One connection makes every insert meet a full table; two translations are one
that is removed and one that must stay. Two changes of the system fall before,
inside or after a refresh of nine queries, one of which fails. Two bits are the
fewest with a prefix that is neither empty nor a host. A window of two hashes
and three observations slide it; two flow entries and three conversations
overflow the table. Two workers with one slot each and a result channel of two
block each other in every order. Two recorders and a reader see every order of
two counters. `MaxNow`, `MaxClock`, `MaxSeconds`, `MaxChanges`, `MaxCreated`,
`MaxObservations`, `MaxEnriched`, `MaxCalls`, `MaxGeneration`, `MaxNatId`, `MaxInstalled`,
`MaxSessions`, `MaxCaptures`, `MaxObserved`, `MaxRegistrations`,
`MaxIntercepted`, `MaxRuntimes` and `MaxDivertHandles` cap what the program
leaves unbounded; `Word`, `MaxWord`, `MaxCounter`, `MaxTotal` stand for the
width of a machine word, with wrapping, saturation or refusal as in the code.

**Symmetry.** `bus_all` permutes threads and ids, `handles_all` the Host
threads, `selection_all` the workers, `gateway_all` endpoints and NAT tuples; none of them checks liveness.

**Deadlock.** Bus, data path, control plane, gateway and tracking are driven by
callers that may stop calling, or by counters that reach their bound; deadlock is
not checked there. It is in `storage_all` (where the enrichment, once stopped, may
stutter), `selection_all` and `native_all`.

**Fairness.** `storage_all` assumes weak fairness of a thread that is
awake inside `enqueue` or `dequeue`. Critical sections are short and nobody
holds the queue's mutex while it sleeps, so a thread that wants the mutex gets
it. Callers, close, clear and stray wake-ups are not assumed to happen.
`handles_live` assumes that a Host thread inside a call (`ProceedHost`), the
processing loop, and the capture loop outside a native receive (`CaptureWorks`)
keep running: none of them waits for anything but a mutex or a join. Nothing is
assumed of the receive: `WinDivertRecv` has no timeout and `capture_stop` does not
cancel it, so on a silent network the join, and with it every C-ABI call, waits for
the next packet. `EngineLockReturned` therefore says that this is the only thing
the lock can hang on. No Host is assumed to make a call. The enrichment in
`storage_all` assumes that the processing thread goes on with the observation it
has, each worker with its item (the lookup returns), and `stop_all` with its loop;
nobody is assumed to bring an observation or to stop.

**Refinement.** `RefinesBoundedPool` maps the idle vector's length to `free` and
the buffers with callers to `out`. Although an acquire is up to four steps and
the counters move apart from the buffers, each takes effect at one of them. The
store promises nothing more (`kept` is FALSE) once the pool is upset, or once it
has refused an idle buffer, which is the finding `pool_preallocated`.

**Mutants.** Each property of a passing run has a plausible bug (operators
named `Operation_Bug`) under which TLC finds it violated.

## 4. Findings

* `bus_race` — `requeue_processing` makes the packet readable before its record
  says `Bus`; a consumer in between drops the packet and the record is left.
* `shutdown_incomplete` — initialisation fills the IP Helper slot without
  telling the manager; shutdown skips that backend and then refuses because the
  slot is filled. A backend that was started makes it fail earlier, because
  `Running -> Stopped` is not a legal move.
* `pool_preallocated` — buffers made by `preallocate` are dropped by `acquire`,
  because `reset_for_reuse` refuses a buffer that was never released; the test
  `acquire_after_preallocation_does_not_allocate` (`pool.rs:333`) expects the
  acquire to succeed.

Three more places where text and code disagree, on points that the definitions
show directly and that need no exploration. `health.rs:7-12` calls health
independent of the lifecycle, with `Running` and `Degraded` as the example; the
manager's reports move the two together, and `UnhealthyNotAvailable` depends on
it. The test at `gateway-capability/lib.rs:288-294` asserts `!is_ready()` of a
degraded capability, while `can_forward` and `can_start` accept `Degraded`. The
comment at `forwarding.rs:196-197` says that the first configured of equal routes
wins; `max_by_key` takes the last.

The models contain further behaviour worth knowing. Nothing below is a property
of a run; each is read off the code that the named module translates.

*Bus and control plane.* The rollback of a refused `requeue_processing` asks for
a transition the table lacks and discards the error (`PacketBus`). After a failed
shutdown every further attempt is refused, against API.md and SECURITY.md; a
backend that failed with its session open can be neither started nor stopped, so
IP Helper never becomes available, a forwarding policy is always refused over the
C ABI, and in `lifecycle_all` `gateway.on` stays FALSE (the theorem, which starts
from any gateway state, carries that part of `QuiescedAfterShutdown`);
reinjection asks the descriptor, not the lifecycle, against SECURITY.md
(`EngineLifecycle`). Observation ids restart at 1 with every capture and
`packet_inject` has its own counter: a captured packet with the id of one still
owned is refused by the bus and lost (`PacketHandles`).

*Pool.* A `clear` that runs alongside other calls stores an `in_use` it loaded
earlier into `allocated`, so that buffers can exceed `max_size` or a slot is lost
for good. `release` takes any buffer of the right capacity: one the pool did not
hand out wraps `in_use` below zero, after which the usage reported is nonsense.

*Gateway.* `gateway_config` on a running gateway discards its tables.
`validate` of the policy controller accepts everything. An on-link route (next
hop 0.0.0.0) never resolves. Between rows of one prefix `ForwardingTable` takes
the last whatever its metric, `RoutingTable` and IP Helper the lowest metric.
`resolve` accepts a neighbour whose hardware address is all zero, `egress.rs:109`
refuses to send to it. `gateway_config` accepts, without the backends that forwarding
takes, an enabled policy that does not forward, and `can_start` refuses it. Expired connections are revived by `record_packet`. The limits
for routes and forwarding entries are not enforced. The routing state is copied
once, at initialisation; `find_neighbor` ignores the interface.

*Policy and state.* The packet policy is evaluated only by a function no live
code calls, and a rule with protocol `Other` never matches. `mark_failed` racing
`initialize` leaves `Failed` with the initialised flag set; `set_gateway_policy`
can store a policy after shutdown has cleared it (`EngineState`).

*Statistics.* A snapshot is not a point in time: `received` is loaded before
`processed`, so `validate_statistics` can fail while nothing is wrong; a reset
that overlaps `observe` leaves a histogram whose count and buckets differ.

*Selection.* `stop_backend` forgets the counters of work still running; the
report that follows starts a new counter at zero. A disabled failover coordinator
comes back to life by `mark_failed` and `register`. A candidate renamed through
`get_mut` leaves an index and an active name that belong to nobody, or two
candidates of one name. The planner of
`coordination.rs` trusts the declarations of a source that is not running. The
fallback column of the capability matrix names backends that declare nothing of
the kind.

*Native backends.* A failed Npcap backend keeps its captures running and then
refuses to stop; `clear_runtime_state` resets observation ids. A refused
`FwpmFilterDeleteById0` leaves a filter enforced that the table no longer lists;
changes through `get_mut` reach neither the system nor the order; neither WFP type
has a `Drop`, so an open engine or table that is dropped leaves its session and its
filters; `mark_failed` (`engine.rs:147`) forgets an open session, and so does a
close that the system refuses. `evaluate` compares a condition with the packet's
first bytes whatever field it names, ignores the layer, and returns `Continue` as a
decision. A byte counter that would overflow leaves the packet counted (`Wfp`).
`EtwProvider` is `Clone` (`provider.rs:78`) while it owns a registration and
unregisters it on drop: the clone emits to a registration that is gone. An ETW backend whose provider was stopped apart can no
longer be stopped. A WinDivert filter with a NUL leaves the handle in `Opening`;
a failed close forgets the handle. The runtime in `backend_runtime.rs` loses a
packet whose publication fails after the receive.

## 5. Theorems

All are proved for every value of the constants, under the named assumptions of
the modules that declare them (`BusAssumption`, `HandlesAssumption`,
`QueueAssumption`, `PoolAssumption`, `WordAssumption`, `ThresholdAssumption`,
`LifecycleAssumption`, `GatewayTablesAssumption`, `IpHelperAssumption`,
`ForwardingAssumption`, `PathAssumption`, `StateStoreAssumption` and their
neighbours, `BalancerAssumption`, `FailoverAssumption`, `NpcapAssumption`,
`WfpAssumption`, `WfpFlowAssumption`, `EtwAssumption`, `WinDivertAssumption`,
`WorkerAssumption`, `EnrichmentAssumption`, `FlowAssumption`,
`TrackingAssumption`, `ChecksumAssumption`, `HostPolicyAssumption`,
`CacheAssumption`, `StatisticsAssumption`), which TLC evaluates on every run of
the module. They say that limits and clocks are numbers, that sets of threads
are finite, which fields a row has, and that a marker such as `None` is not a
member of what it marks. Three say more. `BalancerAssumption`: there are fewer
worker threads than a 64-bit counter has values. `PathAssumption`: the system
never lists the unspecified address as a neighbour. `ChecksumAssumption`: a
segment holds its checksum field, which starts a word, and its length fits a
word; an address has an even number of bytes.

Where an MC module puts parts side by side, a theorem is about the part's own
specification (`PoolSpec`, `PressureSpec`, `GatewaySpec`, `LbSpec`, `FoSpec`,
`TrackingSpec`, `PolicySpec`, `CacheSpec`, `EnrichmentSpec`), since a behaviour
of one scenario is a behaviour of that part, or about the composition where the
property is: `NetworkSound`, `RefreshExact` and `RoutesChosen` in
`MCGateway`, `SelectorsAgreeInSelection` in `MCSelection`,
`ProcessingConsistent` and `ParserAlwaysSafe` in `MCTracking`, and all of
`NativeProofs` in `MCNative`.

* **Lists.** Sorting and filtering are stated by the rank of an element
  (`Ranked`, `Picked`), which needs no recursion: `RankedFacts` gives every
  element one place, in order. A loop is a recursive function of its round;
  `StepsExist` shows, with the least-element principle (`WFMin`), that such a function
  has the values its equation says, which stands in for induction over data.
* **PacketBus.** `BusInv` is inductive. `SingleLiveCopy` and `HolderIsOwner`
  are not by themselves: a queued or popped packet may lack its `Bus` record while
  its publisher or its requeuer is between two steps. `BusSideInv` names that
  thread, `LockInv` says that a publisher in that place holds the ownership
  mutex, `EngineSideInv` that an `Engine` record has exactly one thread.
  `clear` breaks these facts, so they are stated up to the first `clear`;
  `OwnershipFollowsTable` holds with `clear` included. `ConsumerRecordsAreLive`
  is inductive on top of `BusInv`: a record moves to `Processing` or `Host` in
  the step that puts the packet into a thread's hands or with the Host.
* **Packet storage: queue.** `QInv`, typing together with the two safety properties,
  is inductive. The proof counts threads per place (`MoveCounts`): a push wakes
  a sleeping consumer if there is one, so items and awake consumers grow
  together; a thread falls asleep only when nothing is left for it.
* **Packet storage: pool.** `CountInv` says, as long as nothing upset the pool,
  what each place of a call knows: who counted a buffer that is not yet in hand,
  and who has it in hand although it is already uncounted (`Balanced`). Counters are
  sums over callers, so every action is reduced to how one caller's share changes
  (`BalancedStep`); the sums stay below `Word`, so nothing wraps (`InUseFits`).
  `PoolImplementsStore` is the refinement itself: a step maps to one call of
  `BoundedPool` or to a stutter.
* **Packet storage: backpressure.** The rounded percentage that the code compares
  passes a watermark exactly when the exact ratio does (`QuotientPasses`), for
  every configuration that validation accepts and every queue whose capacity
  times 100 fits the machine word.
* **EngineLifecycle.** The proof works on one backend at a time: `Good(b)` is
  kept by each manager operation, `SessionFits` relates what a call leaves in
  the manager to what it leaves in the slot, and `OneBackend` lifts the two to
  the whole state. `LInv` puts them together with typing and
  `QuiescedAfterShutdown`. For the action property `RoutesMoveToHealthy`, what a
  route is set to is a backend chosen from the state the call itself leaves.
* **PacketHandles.** First, every step of the data path is a step of the bus
  (`StepsAreBusSteps`), so `DataPathUsesBus` gives it the bus's theorems; as it
  never calls `clear`, the bus's inductive invariant is available in every
  state. `OneHandlePerPacket` and `SentAtMostOnce` then need three more facts:
  `CallInv` ties `GLOBAL_ENGINE` to the calls that run under it and a taken
  handle to a running action; `FreshHandles` keeps the next handle unused;
  `UnsentInv` follows a packet from the queue to the action that sends it. That
  a release after a successful send cannot be refused (`ReleaseNotRefused`), so
  that no handle of a sent packet is ever restored, comes from the bus: a packet
  parked with the Host has owner `Host`, and only its handle's action moves it.
  `ResolveInv` (`StageInv`, `BusRecords`, `DownInv`) adds which calls may still
  be under way once the Engine no longer runs: the shutdown joins the workers
  before it closes and drains the bus, so `ShutdownResolvesPackets` and
  `ReadsWhileRunning` follow. `AccountInv` is `Accounted` with the finiteness
  its cardinalities need and with what `received` and `processed` lag behind:
  `Waiting`, `Counting`, `Consumers` and `Done` are the threads at a given place,
  and each step changes one thread's share of them.
* **Gateway.** `CapabilityInv`: the two NAT indexes are inverse to the bindings,
  ids stay below the next one, each table is finite and within its limit,
  `enabled` agrees with the state. `ConfiguredCanStart` compares what
  `gateway_config` accepts with what `gateway_start`, `can_start` included, takes
  afterwards. From it `GatewayInv`, `InsertMakesRoom`, and
  the action properties `ConnectionsOnlyAdvance` and `OnlyHostDiscards`.
* **Routing state.** `RoutingInv` goes through a refresh query by query. `Stage`
  is the query that comes next; `RefreshGood` says which tables are exact by then,
  while the system stands still, and `HelperGood` that the backend keeps one
  route a way. The last stage is `RefreshIsExact`. `NetGood` types the Engine's
  copy, `SyncGood` says that a forwarding table nobody edited is empty or the
  image of that copy (`Filled`), `StoreGood` ties a client's copy to the store's
  generation; with them `NetworkInv`. `RoutingAgrees` compares prefix tests by
  bits, for every width, and the best of a table by its last maximum; `TiesAside`
  says where the two tables differ, `ResolvedCanLeave` that a resolved packet is
  refused on the way out only for an all-zero hardware address.
* **Selection.** `BalancerInv`: a search still has before it every backend that
  was suitable since it began (`SearchesGood`), and a counter that was not
  forgotten equals the workers that counted themselves in (`CountersGood`); there
  are fewer of them than the counter's width, so it never wraps or saturates.
  For `SelectorsAgree`, `ManagerGood` keeps every record one that manager calls
  can produce (an available backend is not unhealthy), so that the selectors,
  whatever they test, admit the same backends. `FailoverGood` follows the names that
  no rename took or gave: each is indexed exactly if one candidate has it. Their
  order is a ranking (`SortedFacts`), so a sort keeps the names.
* **Native backends.** `NativeInv` gives `NativeHandlesOwned`: one owner for every
  open handle, but for those given up in a recorded step (`abandoned`, `unclosed`,
  a cloned provider); `FlowInv` the
  action property `FlowsNeverResume`; `TablesMatchNative` is put together from
  `FlowInv`, `ContextInv` (a context is pending exactly for a packet on its way,
  under an id given out once), `QueueInv` (bytes queued) and `FilterInv` (listed
  and undeleted filters are, disjointly, what the system enforces; while nothing was changed in place
  the list is sorted and each row is what the system was given). The byte sum is a
  recursive function of the queue; that it is well defined, and what a push and
  a pop do to it, comes from the least-element principle (`WFMin`) instead of
  induction.
* **Pipeline.** *Enrichment:* `WorkersInv` says that an accepted lookup is in one
  place (queue, hands, channel, delivered, discarded) and once in it, and that a
  worker that left has left nothing; `LookupsAreNew` that what the processing
  thread is about to hand over was never accepted. *Host policy:*
  `CopyIsCurrent` (the copy a Host call modifies is the policy, because the call
  runs under the engine mutex) gives `NoUpdateLost`, `FlagInv` gives
  `FlagsFollowLifecycle`. *Cache:* an entry is what was inserted last
  (`StoredLast`), expired or not. *Tracking:* `TableInv` and `Windows` give
  `TrackingInv` and the action property `FlowsOnlyGrow`. *Decision:* the rule that
  decides is the first of the matching ones, whatever was pushed (`RulesTyped`).
  *Statistics:* `CountInv` adds to a counter what running calls have still to add
  (a sum over threads, `EveryPacketCounted`, `LookupsCounted`) and bounds what a
  snapshot has loaded by the counters when it began and now (`SnapshotBounds`);
  `HistogramInv` accounts for every observed time, bucket by bucket, until a reset
  overlaps an observation. `ProcInv` joins them, and gives all of `ProcessingInv`.
* **Parser.** The cursor stays inside the frame: what was read and where the next
  header starts are at most `end`, and `end` at most the captured length
  (`Within`; `AtHeader` and `Nested` for a cursor before a header). Each layer
  keeps this, and so do the two loops, over VLAN tags and extension headers, in every round.
  `FramesParsedSafely` holds for every frame of `Frames`. For the checksums,
  folding the carries takes away multiples of the greatest word, and what it
  leaves is the only word that can be left (`Reduces`, `ReducesOnce`); sums of words are additive,
  so a field counts as its word wherever the parser places it.
  `SegmentsCheckedExactly` holds for every segment and byte width.

Only model-checked: the liveness properties `CloseReleasesAll`,
`EngineLockReturned` and `PipelineDrains`, because liveness under fairness is out
of the prover's reach; and the three violations. Every other property of a passing
run is also a theorem.

Typing theorems and inductive invariants are proved and appear in no run, except
where they are the properties themselves.

## 6. Plan

1. *Done:* ownership, bus, queue, backend state, control plane; their safety
   theorems.
2. *Done:* the data path (`PacketHandles`), composed with `PacketBus`.
3. *Done:* tables (`GatewayTables`, `FlowTable`, `MetadataCache`,
   `NetworkState`, `StateStore`, `IpHelper`, `Forwarding`, `GatewayPath`), pool,
   backpressure, parser and checksums, worker pool, selection and failover, the
   native backends, policy, engine flags and statistics; the refinement of
   `BoundedPool`.
4. *Done:* theorems about the pool and its refinement, backpressure, the gateway
   capability, the load balancer, the native backends, the enrichment, Host
   policy, engine flags, metadata cache and flow tracking; the rest of the data
   path (`Accounted`, `ShutdownResolvesPackets`, `ReadsWhileRunning`).
5. *Done:* theorems about the routing state, failover, the selectors, the packet
   decision, the statistics and the parser with its checksums.
6. An abstract packet lifecycle that the composed data path implements.

## 7. Not modelled

Decoding of native structures (adapter lists, rows of the IP Helper tables,
filter conditions, WinDivert addresses) beyond what decides a branch; formatting,
error texts and event texts; pointer validation and queries of the C ABI; the
answers of DNS lookups; setters of plain data that nothing
calls; benches, tests, and the DLL crate that re-exports the ABI.
