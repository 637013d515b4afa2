# autosar-idsm: verification project

TLA+ specifications of the intrusion detection system manager in this
repository, the TLC runs that check them, and TLAPS proofs about the engine, the
forwarder, the three probes, and the alert queue, the managers and the main loop of the
daemon.
`src/...` paths below are relative to the repository.

## 1. The system and its parts

A vehicle-side IDS in the AUTOSAR IdsM style.  Probes detect anomalies and
report security events (SEvs) to the **IdsM engine**, which filters them and
hands qualified events (QSEvs) to two sinks; the second sink is **IdsRm**, which
forwards them to a SOC over HTTP and tees them over a Unix socket to
**idsm_managerd**, the daemon that stores alerts durably and uploads them by MQTT,
and which receives rules, configuration, registration and certificates from the
cloud.

| Part | State it keeps | Operations | Interacts with | Hard behaviour |
|---|---|---|---|---|
| IdsM engine (`src/IdsM_Manager.cpp`) | SEv table, ingress queue, two time windows per SEv, statistics | Init, DeInit, ReportSecurityEvent, FlushEvents, mode/state/status/callback setters, worker loop | probes (reporter threads), sinks (callbacks under the mutex) | notification outside the mutex, batch processing, time windows, 32 bit clock, shutdown |
| Serializer (`src/IdsM_Protocol.c`) | none | size and encoding of an IDS message | IdsRm | 16 bit size |
| IdsRm (`src/IdsRm_Manager.cpp`) | HTTP queue (128) and tee queue (512), statistics | Init, DeInit, Enable, SetLocalSink, OnQsev, worker and sink thread | engine (sink callback), SOC, managerd socket | bounded queues, retries, reconnects, shutdown with a pending retry |
| Alert queue (`linux/idsm_managerd/alert_queue.cpp`) | append-only file, cursor file, cursor in memory | open, append, pending, markUploaded, compaction | socket threads (append), uploader loop | crash between any two file operations, torn lines |
| Main loop and uploader (`main.cpp`, `mqtt_uploader.cpp`) | timers, registration and certificate state, event queue | one loop that polls everything | MQTT library thread | flags set by callbacks, order of checks, publish that is only queued |
| Socket server (`socket_server.cpp`) | connection threads, peer count | start, stop, one thread per probe | probes, alert queue | count and callback are two steps, stop waits for readers |
| Rule and configuration manager (`rule_manager.cpp`, `config_manager.cpp`) | installed directories, sequence numbers | applyBundle, rollback | MQTT callback thread, file system | multi-step installation, crash between steps |
| Log snapshots (`log_snapshot.cpp`) | staged tasks on disk, next chunk | stageUpload, pump, onNack | probes, main loop, MQTT callback | NACK racing with the pump |
| Registration, certificate renewal (`registration.cpp`, `cert_manager.cpp`, parts of `main.cpp`) | request id, deadline, response flag | request, response, timeout, installation | cloud | late answer against timeout and retry |
| CAN, host and Ethernet probes (`apps/*_probe`) | detector windows, known processes, flows, fragments | one frame, process or packet at a time; flush and shutdown | engine in the same process, `/proc`, kernel, network | tumbling windows, a walk of `/proc` that changes under way, reassembly at its limits, alerts in the queue at the shutdown |
| EVE bridge, CLI, Android manager, tools | - | - | - | out of scope, see section 7 |

What makes the parts correct:

* engine: every accepted event is accounted for, leaves the engine, in order and
  only once; windows are neither cut short nor slept through; nothing of a
  session survives into the next one; shutdown ends.
* IdsRm: the queues respect their limits and count what they drop, events leave in
  order, shutdown ends and leaves nothing behind.
* alert queue: at-least-once over crashes, in order, nothing is skipped.
* rule/configuration manager: what runs is always a complete version and the
  sequence number never allows a replay.
* probes: a flood is alerted wherever its window begins, and nothing else is; each start of a
  process is reported, and again only where `/proc` could not be read; reassembly is faithful in
  any order of arrival; patterns and framed messages are found in a stream however it is cut;
  the last alerts leave before the sinks do.
* registration/certificates: what the daemon connects with is what it has stored,
  and a failed renewal leaves a usable certificate.

## 2. Plan

The order follows what matters most to a vehicle: first that events are not lost
in the engine, then on the way to the SOC, then what the cloud may change in the
vehicle.

| Step | Modules | Composes | State |
|---|---|---|---|
| 1 | `SevFilters`, `IdsM`, `IdsM_proofs` | filters into the engine | done |
| 2 | `DurableFifo`, `AlertQueue`, `AlertQueue_proofs` | the queue implements the FIFO | done |
| 3 | `IdsRm`, `IdsRm_proofs` | | done |
| 4 | `SignedBundle`, `RuleManager`, `ConfigManager`, `Downlink`, `Downlink_proofs` | both managers with the callback thread, the daemon's restarts and the probes | done |
| 5 | `MqttLink`, `Registration`, `CertRenewal`, `NodeReports`, `LogSnapshot`, `ManagerLoop`, `ManagerLoop_proofs` | the sections of the main loop with the MQTT thread and the probe threads | done |
| 6 | `DetectorWindows`, `ProbeMain`, `CanProbe`, `HostProbe` | the windows into the probes, their reports into the engine's queue, the shutdown | done |
| 7 | `Tables`, `IpDefrag`, `TcpReassembly`, `EthProbe`, `Probes`, `Probes_proofs`, `ProbeFloods_proofs` | both kinds of reassembly into the pipeline; the three probes, one at a time | done |
| 8 | an abstract specification of the engine (each accepted event is delivered, dropped or absorbed, once) which `IdsM` implements; the engine with `IdsRm` as its sink | `IdsM`, `IdsRm` | next |
| 9 | the stop of the daemon (`SocketServer::stop`), the size computation of the serializer (16 bit) | | next |

Every safety property of steps 1 to 5 that a passing run checks is proved, the
refinement of the durable FIFO with them, and of the probes all but `StreamsInspected`
(section 6, which says why).

Runs are few and broad: a component has one run for its safety, one for its
liveness where one graph cannot serve both, and one for a disagreement with its
documentation.  Where parts or situations do not meet, one run has them as
scenarios that `Init` chooses from (`AlertQueue`, `ManagerLoop`, `Probes`); the safety
runs of the engine are to be made one in the same way when step 8 needs a run.

## 3. The modules and the code

A name in a module is the name in the code where TLA+ allows it.  One action is
what one thread does between two points at which another thread, a crash or a
file operation can come in.

**Engine.** `SevFilters` has the filter chain of one SEv as pure operators:
`IsBlockedByState`, `NthPasses`/`AfterNth`, `AfterAggregation`,
`ThrPasses`/`AfterThreshold`, and `AggDue`, `AfterRelease`, `ThrDue`, `AfterExpiry`
for the end of windows.  `IdsM` is the machine: `queue` is `m_queue`, `batch` what
`worker_loop` has swapped out of it, `wpc` where the worker is, `cpc` where each
reporter is between its check of `m_running` and its notification, `ctl` where
the owner is in Init/DeInit.  A report is three steps (check, queue under the
mutex, notify), a turn of the worker is predicate, block, drain, one event at a
time, expiry.  `tally` and `qualified` are history variables.

**Alert queue.** `DurableFifo` is what the queue promises: alerts are logged once,
handed over in order from a position, and a restart moves the position back at
most to the start.  `AlertQueue` has the file as a sequence of cells (so that a
line can be torn and an offset can fall inside one), the cursor on disk and in
memory, and one action for each file operation.  What is read is given by
offsets, as in the code: `Ends` are the ends of the lines after an offset, `ReadEnd`
where a batch stops, `AlertsBetween` what it yields, and the mapping to the FIFO
takes what `Remaining` reads from `NextOffset`, the offset at which the next batch
will begin.

**IdsRm.** `event_queue` and `sink_queue` with their limits, `qpc`, `wpc` and `spc`
for OnQsev (under the engine's mutex), the worker and the sink thread, and the
run-time calls.  The SOC answers or not at each attempt.

**Downlink.** `SignedBundle` decides whether a bundle is refused (signature,
target, time and number in one verdict, the number apart).  `RuleManager` and
`ConfigManager` install it file operation by file operation; `Downlink` puts
them under the callback thread and adds restarts of the daemon and of the probes.

**Main loop.** `loop` says in which section of `main.cpp`'s loop the main thread is;
each module of the chain owns some sections and sets `loop` to the next one:

| Module | Sections | Code |
|---|---|---|
| `MqttLink` | | connection, answers on their way, `mqtt` for the callback thread |
| `Registration` | top, regSave, regUse, regClear, ask | main.cpp:506-558, registration.cpp |
| `NodeReports` | report, readPeers, sendReport, events, sendEvent | main.cpp:560-609, socket_server.cpp |
| `LogSnapshot` | pump, pumpNext, pumpMeta, pumpSave, pumpChunk | log_snapshot.cpp |
| `CertRenewal` | cert, certCheck, certWrite, certReload | main.cpp:628-702, cert_manager.cpp, `reloadTls` |

Credentials and certificates are named by the request they answer. Timers are flags that the
clock sets at any moment, also while an answer is on its way. `crossed` and `clashed` are
history variables that remember two meetings of threads which the code does not rule out: an
answer parsed before the one in hand was applied, and a list of chunks written while the pump is
in its transfer (section 7). `ManagerLoop` composes the parts with crashes and lost connections.

**Probes.** `Probes` is one probe at a time: `Init` chooses a scenario, which says
which of the three programs runs, live or as a replay, which limits its detectors
have and from which frames, processes or packets the traffic is made.

| Module | What it has | Code |
|---|---|---|
| `DetectorWindows` | the tumbling window that all detectors share, with the distinct keys of a scan | `detectors.h`, `detectors.cpp` of the probes |
| `ProbeMain` | start, signal, clock, the reports through the engine's queue and window, flush, sleep, unregistration | `main.cpp` of the probes |
| `CanProbe` | `FeedFrame`: what each detector makes of a frame, in the order of the pipeline | `can_probe/pipeline.cpp`, `detectors.cpp` |
| `HostProbe` | `PassBegins`, `Visit`, `VisitFails`, `VisitNew`, `PassEnds`: the walk entry by entry, with an `opendir`, a `read_stat` or another file that fails; births and deaths at any time; `Receive`, `NetlinkEnds`: the process connector; the replay | `host_probe/capture.cpp`, `pipeline.cpp`, `detectors.cpp` |
| `Tables` | the maps that both reassemblies and the application layer keep: `At`, `Put`, `Dropped`; the lru lists: `Others`; the rules that match, in their order: `Those` | `std::unordered_map`, `std::list`, `rules.cpp` |
| `IpDefrag` | `AddFragment`: table, covered ranges, caps, eviction of the least recently used, expiry | `eth_probe/ip_defrag.cpp` |
| `TcpReassembly` | `AddSegment`: two directions of a flow, the out-of-order buffer, gaps, caps, close, eviction, expiry | `eth_probe/stream_tcp.cpp` |
| `EthProbe` | `FeedEthernet`: from the packet to its alerts, with the tail that rules are matched over and the buffers that messages are framed from | `eth_probe/pipeline.cpp`, `detectors.cpp`, `rules.cpp`, `proto_*.cpp` |

The tables of IP defragmentation and TCP reassembly are values, and a call is a function of
them, as in the code, where one thread calls. `traffic`, `alarms`, `lives`, `datagrams`,
`sightings`, `misses` and `reported` are history variables: the properties compare the alerts
with counts over the traffic, a datagram with the fragments it came from, and a stream with the
segments and with what the inspection found, by definitions of their own.

## 4. The runs

| Run | Asks | Shows |
|---|---|---|
| `idsm_filters` | `TypeOK`, `NothingInvented`, `Accounting`, `NoSleepOnStaged`, `InOrder` | each filter alone, all together and two SEvs with windows of different lengths, with block states, flushes and resets between any two steps |
| `idsm_lifecycle` | `PendingMatchesQueue`, `StoppedClean` | two reporters racing with DeInit and the next Init |
| `idsm_live` | `EveryEventLeaves`, `AggregateReleased` | no notification is lost that matters, no aggregate waits for ever |
| `idsm_deinit` | `DeInitReturns` | **violated**: lost wakeup in DeInit |
| `idsrm_forward` | `TypeOK`, `Accounting`, `Flushed`, `InOrder` | both queues at their limits, retries, every run-time call between any two steps |
| `idsrm_live` | `EveryEventAnswered`, `SinkServed` | the two threads serve what was queued |
| `alert_queue` | `CursorInFile`, `OncePerLife`, `ImplementsFifo`, `EventuallyUploaded` | refinement of the durable FIFO and progress over refused publishes, with crashes; torn lines, failing writes and saves and crashes anywhere |
| `alertq_stale` | `NothingSkipped` | **violated**: a stale cursor after a crash in the compaction |
| `downlink_bundles` | `TypeOK`, `NeverMixed`, `AppliedStays`, `NeverReplayed`, `NewestReachProbes` | repeated and reordered bundles, two failures or crashes |
| `downlink_reissue` | `CurrentWhole` | **violated**: a version issued again is removed while it is in force |
| `manager_loop` | `TypeOK`, `CredentialsAgree`, `CertificateKept`, `ChangeNotForgotten`, `EventsInOrder`, `NothingOwedIsDone`, `Provisioned`, `SnapshotEnds` | seven deployments of the main loop over lost connections, crashes, failures of every file operation and publish, late answers to the registration and requests for chunks at any moment |
| `probes` | `ProbesTypeOK`, `TailForwarded`, `FloodsAlerted`, `StartsReported`, `DatagramsWhole`, `StreamsInOrder`, `StreamsInspected` | 34 scenarios of the three probes: every sequence of inputs of one limit or one part of a probe, at any times and in replays in any order of them, with a `/proc` that cannot be read, signals, the engine's worker and the shutdown between any two steps |

Each property of a passing run has a mutant: a plausible bug of the code (a
dropped guard, a missing reset, swapped steps) under which TLC finds the
property violated.  They stand beside the definitions they replace, marked
"Mutant of".

**Bounds.** They are constants or guards named for what they bound. Two reporters and two SEvs
are the least with which threads race and windows differ; two reports per session and a clock of
three ticks let a window open, absorb, end and reopen. Two alerts per batch and three of
different lengths make a batch end inside the file and a stale offset fall inside a line; two
crashes let the second meet what the first left. IdsRm's queues of one and two places are full
with two events, one of them in the worker. Four bundles per manager are one for another
vehicle, two good ones and one that is refused. In the main loop two probes suffice for a count
that is out of date, a transfer of three chunks with two per pump ends in a second pump while a
short one or an unreadable directory waits behind it (two transfers over refused publishes, one
of them alone with a request for any of its chunks over a crash as well), and request ids are
used in turn (an id comes back after the request before it is over). Two crashes or lost
connections meet a renewal, one a registration, whose answers come late until two of them have
crossed, which is enough for every meeting of two.

In the probes a unit of time is the engine's aggregation window. Detector windows of two units
over six let one begin, fill, end and begin again at every distance from the first frame; limits
of two are reached by what comes in one window and by what straddles two of them, and with up to
four inputs `FloodsAlerted` asks for an alert at three within a width. Two process ids are in
use at a time while a walk is between them, over three walks. Two datagrams and two flows fit
the tables, so that a third evicts one; the pools hold six and four bytes, less than two of what
is kept in them. Sequence numbers have 32 values, more than twice the length of any stream, and
streams that begin three and two before the end wrap. Four bytes of a stream are kept for the
framing of messages, and some messages are longer. Times of a replay are any up to the horizon,
in any order. A signature of three bytes and messages of two headers are cut at every place that
the pieces of a scenario allow, doubled and reordered. `ends` lets the capture end, by itself,
by a signal or because it cannot be opened, in the scenarios that go through the shutdown, one
for each program; the others capture until their bounds are reached.

`ManagerLoop`'s run has one part of the loop in use in each deployment.  The parts
share the connection, the report timer and the loop's position, which every
deployment has; the parts do not read each other's state, but for `regState`,
which holds reports and certificates back until the device is registered.

## 5. Fairness

* `IdsM`: weak fairness of the worker, of a reporter inside a report, of DeInit's
  steps and of the clock.  They are threads the operating system schedules;
  nothing is assumed of who calls what.
* `IdsRm`: weak fairness of both threads; strong fairness of OnQsev, which waits for
  mutexes that the threads release again and again.  The number of attempts is
  bounded by the code.
* `AlertQueue`: systemd starts the daemon again (`Restart=` in the unit file), the
  uploader runs, and a publish that is tried for ever is taken at last.
* `Downlink`: the daemon is started, an installation that has begun goes on, and
  the broker, which retains bundles, delivers the newest at last.
* `ManagerLoop`: the threads run, the timers pass, the daemon is started again and
  reaches its broker, and failures (writes, publishes, lost answers, refusals)
  stop at some time: as many as one likes come before.  Crashes and lost
  connections are bounded by the deployment.
* `Probes`: no liveness is stated, and no fairness.  `TailForwarded` rests on time
  instead: the shutdown sleeps for two seconds (`DrainTime`) after it has flushed, and a worker
  with work to do is not held up for the width of an aggregation window (the guard of
  `Tick`).  The code takes the same for granted.

## 6. What is proved

Theorems hold for all values of the constants that the named assumptions allow.
They say that bounds are natural numbers (some of them positive), that sets which the code
walks through are finite, and that tables and configurations have their types; they restrict
nothing the code leaves open.  An alert's line has two cells or more (a line has text
and its end), and an image that ships rules has their version (`RuleAssumption`).  Sequence numbers are
as many as an even number over 4 says (`TcpAssumption`; they have 32 bits in the code).

| Module | Theorem | States |
|---|---|---|
| `IdsM_proofs` | `TypeCorrect`, `StopLeavesNothing`, `NoStagedSleep`, `EveryEventAccounted`, `PendingExact` | `TypeOK`, `StoppedClean`, `NoSleepOnStaged`, `Accounting`, `PendingMatchesQueue` |
| `IdsM_proofs` | `EventsInOrder`, `NoOccurrenceInvented` | `InOrder`, `NothingInvented` |
| `IdsRm_proofs` | `TypeCorrect`, `DeInitFlushes`, `EveryEventAccounted`, `OrderKept` | `TypeOK`, `Flushed`, `Accounting`, `InOrder` |
| `AlertQueue_proofs` | `ReadsInFile`, `PublishedOnce`, `FifoImplemented` | `CursorInFile`, `OncePerLife`, `ImplementsFifo` |
| `Downlink_proofs` | `TypeCorrect`, `RulesNeverMixed`, `AppliedItemsStay`, `BundlesNeverReplayed` | `TypeOK`, `NeverMixed`, `AppliedStays`, `NeverReplayed` |
| `ManagerLoop_proofs` | `TypeCorrect`, `RegisteredWithStored`, `SomeCertificate`, `ChangesReported`, `EventsOrdered`, `DoneIsUploaded` | `TypeOK`, `CredentialsAgree`, `CertificateKept`, `ChangeNotForgotten`, `EventsInOrder`, `NothingOwedIsDone` |
| `ProbeFloods_proofs` | `FloodsAreAlerted`, `ProbesAreTyped` | `FloodsAlerted`, `ProbesTypeOK` |
| `Probes_proofs` | `StartsTold`, `DatagramsStayWhole`, `PoolsStayBounded`, `StreamsStayInOrder`, `TailReaches` | `StartsReported`, `DatagramsWhole`, `PoolsBounded` (a part of `ProbesTypeOK`), `StreamsInOrder`, `TailForwarded` |

**Engine** (from `FilterAssumption`, `EngineAssumption`).  `TypeOK` is not inductive:
that a queued event's SEv is in the table depends on where the owner and the worker
are.  `Lifecycle` says which of the places of owner, worker and queue go together (the
worker exists from Init to the join, the table and the queue are empty when the engine
is down), and `TypedLifecycle == TypeOK /\ Lifecycle` is the inductive invariant;
`StoppedClean` is a part of it.  `NoSleepOnStaged` needs `NoSleepInv`: a staged
aggregate exists only for a SEv with an aggregation interval (`StagedAggregates`), and
from the moment the worker has decided on the unbounded wait until it has the
mutex again none is staged at all (`NothingStagedInWait`): only the worker itself
stages.  The other properties are inductive relative to `TypedLifecycle`, once
`OrderInv` has the number of the last direct event below the last one issued.  Their
steps rest on lemmas about the filters (`AggregationType`, `ThresholdType`, `ReleaseType`,
`ExpiryType`) and about sums: over the table (`DispatchStats`, `ReleaseCounts`) and,
for `NothingInvented`, over the counts of the events in the queue
(`OccurrencesAppended`, `OccurrencesTaken`).

**IdsRm** (from `ForwarderAssumption`).  `Places` says which places of OnQsev, worker,
sink thread and owner go together, down to the kill by SIGPIPE; `Holds` when a thread
holds events and when the queue is empty.  With `TypeOK` they are inductive, and
`Flushed` follows.  `Accounting` is kept in two halves, one for each queue (`HttpStep`,
and `Counted` in `DropsStep`).  For `InOrder`, `Numbers` orders what has been sent, is
held and is queued as one sequence, and knows which event the OnQsev under way has already
pushed or copied (`LastPushed`, `LastCopied`).

**Alert queue** (from `QueueAssumption`), in every environment with torn lines, failing writes
and failing saves, unless said otherwise. `Typed` adds to the types where the cursor, the end of
a batch and the cut of the compaction lie in the file while each of them is in use
(`CursorsLie`). For `OncePerLife`, `HeldOnce` says that no part of a line is held twice,
`BatchLies` that the alerts in hand are different ones with their lines between cursor and end
of the batch, and `Published` that an alert whose line is ahead of what the process has reached
was published in earlier lives only. `ImplementsFifo` is the refinement of `DurableFifo`. It is
proved, as it is stated, for calm environments (no fault but crashes, and none between the cut
of the file and the save of the cursor, which is the window of `alertq_stale`), by `Refined ==
Typed /\ (Calm => LinesInOrder)`: the lines after an offset are the last alerts logged, in their
order, and the cursor on disk lies at the end of one. `NextIs` connects what remains to be read
with the lines after `NextOffset`, and `FifoStep` takes each action to a step of the FIFO or to
none. The lemmas before it are about the operators of reading (`RanksExist`, `ReadEndFacts`,
`BatchFacts`, `LineAppended`).

**Downlink** (from `RuleAssumption`, `ConfigAssumption`).  `RuleInv` and `ConfigInv` are
inductive for each manager alone; `StepsOfBoth` takes a step of the composition to a
step of each.  `Unmixed`: every directory has the files of one bundle, and what is about
to be moved those of the bundle in hand.  `NumbersRise` and `ConfigNumbersRise`: the
bundle in hand is newer than every acknowledged one until its number is stored.
`ItemsWritten`: what will be `_versions.json` forgets no acknowledged bundle.
`NeverReplayed` is an action property and follows from the same invariants.

**Main loop** (from `LinkAssumption`, `ReportsAssumption`, `SnapshotAssumption`,
`DeploymentAssumption`). Each part has an invariant of its own, and a lemma that the steps of
the other parts do not disturb it: `RegistrationInv` (until two answers have crossed, what is
parsed stays what is saved and connected with, and a registered device has either stored what it
uses or has it from the command line), `RenewalInv` (when the new certificate is to be written
the old one is in the backup), `ReportsInv` and `CountsInv`, `EventsInv`, `SnapshotsInv` (a
chunk that is owed is listed in the meta.json of its transfer while that is pending). Late
answers and requests for chunks come at any moment in both properties that they concern.
`CredentialsAgree` leaves out what follows after two answers have crossed (`crossed`), and
`NothingOwedIsDone` a transfer whose list was written while the pump was in it (`clashed`);
section 7 says what happens there.

**Host probe** (from `ScenarioAssumption`, `HostAssumption`). `HostInv` follows a process from
the table of the kernel through a walk into what the poller knows. `WalksSeen`: what the poller
knows is what the last complete walk has met. `BirthsKept`: a process that was born is there, or
has ended before the walk under way. `PollerTells`: what was reported as started is known or was
met in this walk, and what the walk has passed is known or reported, so that none that a walk
has met is left out, and a start is told again only after a walk that has missed the process
(`misses`), because `/proc` could not be opened or the process not be read. `KernelTells`: the
process connector hands over each event once, in the order of the births.

**Ethernet probe** (from `ScenarioAssumption`, `DefragAssumption`, `TcpAssumption`,
`EthAssumption`).  `DatagramsWhole` compares what the buffers have with the fragments that
came, which the code forgets.  `EntryKept` connects them: the covered intervals are apart
and cover exactly the bytes that some fragment brought (`IntervalsApart`), and each byte of
the buffer is that of the first fragment that brought it, or a hole (`Contents`).
`MergedKept` is the step of the intervals, `CopiedFacts` that of the buffer.  Then one
interval from the start to the total is a datagram without a hole (`CompleteIsWhole`), and
anything else leaves one open (`NotYetWhole`).  A byte that was put together came
with a packet, which makes the datagram a packet again (`ReassembledIsPacket`) and sends it
through layer 4; so the invariant `EthInv` is about the whole pipeline: `Work` is what
each handler is given and must leave, and there is one lemma for each handler, from
`AddFragmentKept` and `AddSegmentKept` to `FeedStreamKept` and `FrameKept`.

**Pools of the Ethernet probe** (from the same assumptions).  `PoolsStayBounded` needs no more
than `EthInv`, of which `DefragPooled` and `TcpPooled` are parts: each pool is the sum of what
is buffered, within its cap, and each lru list names every entry once (`Lists`).  The
sums of `DefragBounded` and `TcpBounded` are folds, which nothing can be proved about by
induction; `Weights` says by its equations what such a sum is, `WeightsExist` and
`TakenOnce` that there is one and only one, and `BufSum`, `FlowSum` and `SegSum` that the folds
compute it.  Adding a segment changes one direction of one flow, and `Accounted` is kept
by each step of it: the pool is what this direction holds and what all the others do.
That the pool stays exact when a segment replaces a buffered one that begins where it does
rests on a fact about the serial numbers (`OneIsFirst`, for an even `SeqSpace`: of two
numbers one is not after the other): a segment that is not dominated swallows it
(`TakesPlace`), so its bytes are given back before the entry is overwritten.  The caps hold
because what does not fit is refused before anything is freed.  `Others` takes keys out of a
list by a function, as the provers do not know `SelectSeq`.

**Streams of the Ethernet probe** (from the same assumptions).  Sequence numbers are compared
half way around, so that no order of all the bytes of a long stream exists.
`StreamsInOrder` says it from byte to byte: each is `Ahead` of the one delivered
before, by `Half` of the space and two at most.  A byte that comes back within less than
that has no place in such a stream, and the scenarios' streams are shorter than `Half`.
What is invariant is `StreamsKept`, a part of `EthInv`: the last byte delivered is just behind
`next`, by one or, after a FIN, by two (`Behind`); what waits is numbered
(`Numbered`) and waits behind a gap (`NothingNext`); and no two flows have the same history.
In between, when a gap is skipped or what waits is taken, the distances are larger,
and `Order` carries the bound through each step: what is delivered begins at `next`
(`DeliverOrdered`) after what was seen already is cut off (`UnseenNumbered`), and a skip goes to a number
that is not before `next` (`SkipGapOrdered`), which is where half the space comes
from.  `DistancesAdd` is what these steps need of the arithmetic.  The proof found two things
that the property had wrong, which scenarios of the run now show
(`EarlyFinScenario`, `WrapScenario`): a FIN that comes before the byte in front of it
makes what was held back the next number while the direction ends
(`stream_tcp.cpp:208`), and the order of the plain numbers differs from that of the stream also when
the wrap is between two segments that wait.

**Shutdown of the probes** (from the same assumptions, for all three of them).  `Owing`:
what is owed to IdsRm is in the queue of the engine or in a window.  `Windows`: none
waits for longer than its width.  `Drained` is why the sleep is long enough: after its
first unit of time the queue is empty, and what is in a window then ends before
the sleep does.  `Reporting` has the threads of the host probe at work only while main()
waits for them, so that nothing is reported after the flush; without it an exec
event received late would be owed for ever.

**Floods** (from the same assumptions, for the windowed limits of all three probes).
`FloodsAlerted` compares alerts with counts over the whole traffic, of which a detector has only
its window. `Watching` says what that window knows, for one kind and one key: it has counted
exactly what came since it began, all of that within one width, and is alerted just when its
limit was reached (`Window`); and what came before it fell within one width of an earlier start
and was alerted if it reached the limit (`Prior`). `Prior` is the part without which nothing is
inductive: a width of traffic meets the last two windows only, so that `2 * limit - 1` of it
fills one of them, and when a window is opened anew the one it replaces has to take the place of
the one before. `Counting` and `CounterWatches` do this once for any window, over pairs of a
time and a thing counted; the bindings of a kind to its window (`CanWatch`, `HostFloods`,
`EthWatch`), with the times of the traffic in order (`Recorded`), are `FloodInv`. Where the
times of a replay go back there is no such invariant: a window then ends at a time before its
start. So `FloodsWatched` asks for `FloodInv` when the probe is live or the times are in order
(`TimesInOrder`). It is inductive with the invariants above: only the capture may raise alerts,
and the traffic of the Ethernet probe is of packets.

The port scan has no window that tumbles; of it `ScanWatch` only says that what it holds
came in the traffic and `Real`.  The frames of a CAN replay at time 0 are the reason for
`Masked`, and the scan of a fragmented SYN for `Unfragmented` (section 7).  That
no handler of the Ethernet pipeline but its own touches a window or raises the alert of
a limit is `Beside` and `Aside`, one lemma for each handler; a rule must not bear the
name of a limit (`ScenarioAssumption`), as their alerts are told apart by it.

**Types** (from the same assumptions). `ProbesTypeOK` has what `TailForwarded` rests on: the
shutdown flushes the events of a table, one after the other, and what is owed is counted for
these only, so that an alert of an event the table does not have would be lost unseen.
`EventsIn` follows the security event of every alert through every handler (`CanTells`,
`ExecTells`, `PassTells`, `FilesOf`, and for the Ethernet pipeline the first conjunct of
`Beside`), and `EventsListed` compares them with the tables. `TypesInv` is inductive with the
shutdown's invariant. `InputsBounded` is the bound of the scenario on what is captured or
replayed; a live host probe has none, as its poller may tell a start again.

`SequenceLemmas` has what these share: joins of sequences, least and greatest numbers, sums (`SumsExist`,
`SumsFacts`, `SumsAgree`), and induction over numbers, which `NumberInduction` states for a
set of numbers and proves by its least counterexample, as the library's theorems take
operators the provers cannot instantiate.  What a sum or a rank is follows from the
existence of the function by that lemma, and then from what its definition says of it.

Only model-checked:

* every liveness property (`EveryEventLeaves`, `AggregateReleased`, `EveryEventAnswered`,
  `SinkServed`, `EventuallyUploaded`, `NewestReachProbes`, `Provisioned`, `SnapshotEnds`):
  fairness and ENABLED are out of the prover's reach;
* `StreamsInspected`, which compares folds over the pieces of a stream (rules matched
  along it, messages framed by their lengths) with folds over the whole of it: each step
  takes an induction over data.

## 7. Disagreements, and what is left out

Three runs show a disagreement between the code and its documentation
(`idsm_deinit`, `alertq_stale`, `downlink_reissue`; the findings quote the lines).
Others were met while modelling.  They are confined by a constant or by the words
of a property, so that the passing runs say what holds beside them:

* Engine. A late event is counted into a threshold window that has ended
  (`IdsM_Manager.cpp:242`, events are processed before windows expire), and an aggregate that is
  released opens a threshold window whose deadline the same round does not look at (105). The
  ingress queue has no limit. The sinks are called under the mutex, so a sink must not call
  back. The clock and the ends of windows have 32 bits and wrap every 49.7 days
  (`IdsM_Manager.cpp:93-95`): an aggregate whose `start + interval` has wrapped is released at
  once, and one whose window should end just before the clock wraps, but is not looked at until
  then, waits for the next turn of the clock. `ClockMod` wraps the clock: 1000 in the runs,
  which never wraps within their bounds.
* IdsRm.  `SetLocalSink("")` and then a path assigns to a joinable thread and ends
  the process (`IdsRm_Manager.cpp:151`); a reader of the local socket that goes away
  raises SIGPIPE, which no probe ignores (325), against "events are dropped while the
  peer is down" (`IdsRm.h:36`).  The final drain posts without the check for an empty URL
  (284).  DeInit notifies both threads without their mutexes (88, 94), as the engine
  does.
* Alert queue.  A torn line joins the next one, and both are lost
  (`Faults = {"tear"}` refutes `NothingSkipped`).  What the MQTT library has queued when the
  process ends is lost although the cursor has moved.
* Rule and configuration manager.  A crash after the number was stored and before
  the reload leaves the probes with the old rules, and the retained bundle is then refused
  (a crash at "stored" refutes `NewestReachProbes`).  A configuration
  that fails in the middle stays half applied, against `config_manager.h:31-32`.
  Writes of rule files are not checked (`rule_manager.cpp:236-240`).
* Registration. An answer that comes after its timeout may be parsed between the save of the one
  before and the connection with it: what is connected with is not what is on disk (the state
  that `CredentialsAgree` leaves out as `crossed`; without that word the run refutes it). A
  token that expires while the daemon runs does not start a new init, against
  `registration.h:10-11`: the broker refuses it, and only the next start of the daemon registers
  again. A token from the command line (`--token`, `main.cpp:325-328`) is used at once and never
  stored, so `CredentialsAgree` names it.
* Certificates. With late answers each renewal may take the answer to the request before, for
  ever (`LateCerts = TRUE` refutes `Provisioned`). An answer's text is written without a look at
  whether it is a certificate, and an unreadable or missing file, as a failed write or a crash
  after the backup leaves it, switches the renewal off until somebody restores the backup, which
  the daemon never does. `CertificateKept` therefore says that there is one to restore, and
  `Provisioned` ends where the file is lost.
* Reports.  A plain reconnect asks for no report although the broker has
  published the last will (`main.cpp:560` says within 5 s).  The counts of a
  connection that leaves and one that comes may be stored in the wrong order.
* Log snapshots. A NACK whose list is written while the pump is in the same transfer is
  overwritten by the pump's next save or goes to `done` with the directory (the transfers that
  `NothingOwedIsDone` leaves out as `clashed`; without that word the run refutes it); one whose
  directory the pump has moved meanwhile fails and is not answered (`log_snapshot.cpp:417`). The
  request replaces the list (416): one that names less than what is still to be sent ends the
  rest. A chunk that cannot be read ends the pump before anything behind it is looked at
  (305-308) and what was published since the last save is published again, in each round until
  the transfer expires. A rename that fails (276, 337) is not looked at, and the transfer is
  published again, or looked at again each time although it is too old; a malformed request moves a transfer back
  from `done` (370) before it is refused (400-411). Transfers are served in the order of random
  names, against the comment at `log_snapshot.cpp:253`, and directories without meta.json are
  never removed.
* Probes. When the process connector fails with a receive error (a full socket buffer is one)
  its thread ends, while the poller goes on without reporting starts
  (`host_probe/capture.cpp:279`). A walk that cannot open `/proc` (369) or read a living process
  (379) leaves it out of what is known (441-442), and the next walk reports its start again; the
  comment at 379 takes the failure for a process that has vanished, and the one at 435-440 is
  about starts that get lost only. `StartsReported` allows a start to be told again after a walk
  that missed the process, and only then. A process id that is used again between two walks is
  taken for the old process. A signal before the capture is known to the handler, or during a
  replay, stops nothing (`can_probe/main.cpp:47`). In a replay the first time is 0, which the
  windows of the CAN probe take for "not open" (`detectors.cpp:70`): what was counted at 0, and
  whether it was alerted, is kept in a window that begins with the next frame, so
  `FloodsAlerted` leaves out the keys that came then (`Masked`). A SYN in fragments is scanned
  at the time and under the port of the datagram when it is complete, which the traffic does not
  show (`Unfragmented`). The times of a replay may go back (`capture.cpp` of the three probes
  takes them as they are): `now - window_start` wraps, a window ends at once, and what it had
  counted is forgotten, so `FloodsAlerted` is about live probes and files in the order of their
  times (`TimesInOrder`). At the wrap of the sequence numbers TCP reassembly keeps its buffer in
  the order of the raw numbers and holds back bytes that are next (`stream_tcp.cpp:191`), and a
  FIN that comes out of order closes the direction with data buffered (208), also with data that
  the number of the FIN makes next. The words of `stream_tcp.h` "first-seen wins" are kept for
  what has been delivered; of overlapping segments that wait, a later one that covers an earlier
  one replaces it (165-170). `StreamsInOrder` compares sequence numbers and says nothing of it.
  The inspection state of a stream is erased only when the flow closes
  (`eth_probe/pipeline.cpp:190`): a flow that comes after an evicted or expired one of the same
  addresses inherits it. A DoIP message of more than `stream_acc_cap` (64 KB; up to 16 MB are
  accepted, 227-230, 244) loses its header when the buffer is cut from the front and is never
  framed; a first piece of less than 3 bytes ends the inspection of a TLS stream for good
  (267-269), one of less than 4 that of an HTTP stream, with an alert (296-303). So what is
  found does depend on how a stream is cut there, and `StreamsInspected` is about patterns, and
  about DoIP messages that fit in streams that inherit nothing. A pattern shorter than the
  longest one is alerted again while it is in the tail (209). The mute of the cross-border alert
  is for a pair of addresses, against "per 5-tuple" (`eth_probe/pipeline.h:33`).
* Start and stop.  After 30 refused connections the daemon never connects
  (`mqtt_uploader.cpp:63-74`); `SocketServer::stop` joins readers that nobody wakes up.

Not modelled: the parsers of packets, protocols, rule files, whitelists and baselines beyond
their verdict, the tries of GeoIP, hashing and JSON (no state beyond a call); addresses, ports
and modifiers of rules; the EVE bridge and the command line tool (sequential clients); the
Android manager (a counterpart of the Linux one); the mock cloud and the dashboard (outside the
vehicle); the serializer (a pure layout, planned in section 2).
