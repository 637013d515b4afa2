-------------------------------- MODULE IdsM --------------------------------
(***************************************************************************)
(* The IdsM engine (src/IdsM_Manager.cpp): reporter threads, the           *)
(* worker thread, the control thread that calls Init and DeInit, and the   *)
(* threads that call the rest of the API.                                  *)
(*                                                                         *)
(* What the code does while it holds m_mutex is one atomic action.  What   *)
(* it does outside the mutex (the running checks, the notifications, the   *)
(* blocking of the worker on the condition variable) is an action of its   *)
(* own.  The only state in which a thread is stopped inside a critical     *)
(* section is wpc = "toWait": the worker has evaluated the predicate of    *)
(* wait() and is about to block and release the mutex.                     *)
(***************************************************************************)
EXTENDS Integers, Sequences, FiniteSets, SevFilters

CONSTANTS
    Sev,           \* ids a caller may pass, configured or not
    Configs,       \* the configurations Init may be called with
    BlockStates,   \* ids BswM_StateChanged may be called with
    Callers,       \* threads that report events
    Counts,        \* count arguments of ReportSecurityEvent
    ApiOps,        \* which of the API calls below the environment makes
    MaxReports,    \* bound: events accepted in a behaviour
    MaxTime,       \* bound: the last millisecond
    MaxSessions    \* bound: calls of Init

SevConfig ==
    [default_reporting_mode  : Modes,
     blocked_states          : SUBSET BlockStates,
     forward_every_nth       : Nat,
     aggregation_interval_ms : Nat,
     threshold               : Nat,
     thr_interval_ms         : Nat,
     sink_to_dem             : BOOLEAN,
     sink_to_idsr            : BOOLEAN]

\* An IdsM_ConfigType: the period and the SEv table, indexed by internal id.
IsConfig(c) ==
    /\ c.period \in Nat
    /\ DOMAIN c.sevs \subseteq Sev
    /\ c.sevs \in [DOMAIN c.sevs -> SevConfig]

\* The state block_state starts in, 0 in the code.
CONSTANT InitialBlockState

ASSUME EngineAssumption ==
    /\ IsFiniteSet(Sev)
    /\ \A c \in Configs : IsConfig(c)
    /\ Counts \subseteq 0..CountMax
    /\ InitialBlockState \in BlockStates
    /\ MaxReports \in Nat /\ MaxTime \in Nat /\ MaxSessions \in Nat

VARIABLES
    running,      \* m_worker_running
    queue,        \* m_incoming_queue
    batch,        \* worker_loop's local_batch, what is left of it
    wpc,          \* where the worker thread is
    ctl,          \* where the control thread is
    cpc,          \* where each reporter is
    config,       \* the config member of every element of m_sevs
    sevs,         \* m_sevs, a function on the configured ids
    block_state,  \* m_block_state
    dem_cb,       \* m_dem_cb # nullptr
    idsr_cb,      \* m_idsr_cb # nullptr
    stats,        \* m_stats
    now           \* the steady clock, in milliseconds

\* History variables: they record what happened and guard nothing but bounds.
VARIABLES
    issued,       \* events accepted so far; the k-th has seq = k
    sessions,     \* calls of Init so far
    lastDirect,   \* seq of the last event that was qualified as itself
    reported,     \* per SEv: occurrences accepted in this session
    qualified,    \* per SEv: occurrences qualified in this session
    tally         \* absorbed: events taken by an aggregate; released:
                  \* aggregates qualified; carried: events in flight when the
                  \* statistics were last reset

threads == <<running, wpc, ctl, cpc>>
ghosts  == <<issued, sessions, lastDirect, reported, qualified, tally>>
vars    == <<threads, queue, batch, config, sevs, block_state, dem_cb, idsr_cb,
             stats, now, ghosts>>

Event == [sev : Sev, count : 1..CountMax, seq : Nat \ {0}]

Stats ==
    [events_reported : Nat, dropped_reporting_off : Nat, dropped_block_state : Nat,
     dropped_sampling : Nat, dropped_threshold : Nat, events_qualified : Nat,
     sent_to_dem : Nat, sent_to_idsr : Nat]

Tally == [absorbed : Nat, released : Nat, carried : Nat]

ZeroStats ==
    [events_reported |-> 0, dropped_reporting_off |-> 0, dropped_block_state |-> 0,
     dropped_sampling |-> 0, dropped_threshold |-> 0, events_qualified |-> 0,
     sent_to_dem |-> 0, sent_to_idsr |-> 0]

NoSevs == [s \in {} |-> s]

InFlight == batch \o queue

\* The entries of the ingress queue that belong to SEv s.
QueuedOf(s) == {i \in DOMAIN queue : queue[i].sev = s}

MutexFree == wpc # "toWait"

-----------------------------------------------------------------------------
Init ==
    /\ running = FALSE
    /\ queue = <<>>
    /\ batch = <<>>
    /\ wpc = "none"
    /\ ctl = "down"
    /\ cpc = [c \in Callers |-> "idle"]
    /\ config = NoSevs
    /\ sevs = NoSevs
    /\ block_state = InitialBlockState
    /\ dem_cb = FALSE
    /\ idsr_cb = FALSE
    /\ stats = ZeroStats
    /\ now = 0
    /\ issued = 0
    /\ sessions = 0
    /\ lastDirect = 0
    /\ reported = [s \in Sev |-> 0]
    /\ qualified = [s \in Sev |-> 0]
    /\ tally = [absorbed |-> 0, released |-> 0, carried |-> 0]

-----------------------------------------------------------------------------
\* Control thread: Init and DeInit.

\* Init rejects zero periods and windows that are not multiples of the period.
ValidConfig(c) ==
    /\ c.period # 0
    /\ \A s \in DOMAIN c.sevs :
        /\ c.sevs[s].aggregation_interval_ms % c.period = 0
        /\ c.sevs[s].thr_interval_ms % c.period = 0

\* Init does not touch the ingress queue or the callbacks.
InitEngine(c) ==
    /\ ctl = "down" /\ wpc \in {"none", "exited"}
    /\ sessions < MaxSessions
    /\ ValidConfig(c)
    /\ config' = c.sevs
    /\ sevs' = [s \in DOMAIN c.sevs |-> FreshSev(c.sevs[s])]
    /\ block_state' = InitialBlockState
    /\ stats' = ZeroStats
    /\ running' = TRUE
    /\ wpc' = "top"
    /\ ctl' = "up"
    /\ sessions' = sessions + 1
    /\ reported' = [s \in Sev |-> 0]
    /\ qualified' = [s \in Sev |-> 0]
    /\ tally' = [absorbed |-> 0, released |-> 0, carried |-> 0]
    /\ UNCHANGED <<queue, batch, cpc, dem_cb, idsr_cb, now, issued, lastDirect>>

\* A notification only has an effect on a thread that is already waiting.
Notify == wpc' = IF wpc = "wait" THEN "woken" ELSE wpc

\* m_worker_running.store(false), without the mutex.  A stopped engine may be
\* stopped again: there is no worker to join then.
DeInitStop ==
    /\ ctl \in {"up", "down"}
    /\ running' = FALSE
    /\ ctl' = "stopping"
    /\ UNCHANGED <<wpc, cpc, queue, batch, config, sevs, block_state, dem_cb,
                   idsr_cb, stats, now, ghosts>>

\* m_queue_cv.notify_all(), without the mutex.
DeInitNotify ==
    /\ ctl = "stopping"
    /\ Notify
    /\ ctl' = "joining"
    /\ UNCHANGED <<running, cpc, queue, batch, config, sevs, block_state, dem_cb,
                   idsr_cb, stats, now, ghosts>>

\* Mutant of DeInitClear: the ingress queue is not emptied.
DeInitClearKeepsQueue ==
    /\ ctl = "joining" /\ wpc \in {"none", "exited"}
    /\ config' = NoSevs
    /\ sevs' = NoSevs
    /\ dem_cb' = FALSE
    /\ idsr_cb' = FALSE
    /\ stats' = ZeroStats
    /\ ctl' = "down"
    /\ tally' = [absorbed |-> 0, released |-> 0, carried |-> 0]
    /\ UNCHANGED <<running, wpc, cpc, queue, batch, block_state, now, issued,
                   sessions, lastDirect, reported, qualified>>

\* join() has returned; the rest of DeInit runs under the mutex.
DeInitClear ==
    /\ ctl = "joining" /\ wpc \in {"none", "exited"}
    /\ config' = NoSevs
    /\ sevs' = NoSevs
    /\ dem_cb' = FALSE
    /\ idsr_cb' = FALSE
    /\ stats' = ZeroStats
    /\ queue' = <<>>
    /\ ctl' = "down"
    /\ tally' = [absorbed |-> 0, released |-> 0, carried |-> 0]
    /\ UNCHANGED <<running, wpc, cpc, batch, block_state, now, issued, sessions,
                   lastDirect, reported, qualified>>

-----------------------------------------------------------------------------
\* Reporter threads: ReportSecurityEvent.

Reporting == {c \in Callers : cpc[c] = "checked"}

\* The check of m_worker_running, made before the mutex is taken.
ReportCheck(c) ==
    /\ cpc[c] = "idle" /\ running
    /\ issued + Cardinality(Reporting) < MaxReports
    /\ cpc' = [cpc EXCEPT ![c] = "checked"]
    /\ UNCHANGED <<running, wpc, ctl, queue, batch, config, sevs, block_state,
                   dem_cb, idsr_cb, stats, now, ghosts>>

\* An id that is not configured (any longer) is dropped silently.
ReportUnknown(c, s) ==
    /\ cpc[c] = "checked" /\ MutexFree
    /\ s \notin DOMAIN sevs
    /\ cpc' = [cpc EXCEPT ![c] = "idle"]
    /\ UNCHANGED <<running, wpc, ctl, queue, batch, config, sevs, block_state,
                   dem_cb, idsr_cb, stats, now, ghosts>>

\* Mutant of ReportPush: a count of 0 is queued as it is.
ReportPushRawCount(c, s, n) ==
    /\ cpc[c] = "checked" /\ MutexFree
    /\ s \in DOMAIN sevs
    /\ queue' = Append(queue, [sev |-> s, count |-> n, seq |-> issued + 1])
    /\ reported' = [reported EXCEPT ![s] = @ + n]
    /\ sevs' = [sevs EXCEPT ![s].pending_count = @ + 1]
    /\ stats' = [stats EXCEPT !.events_reported = @ + 1]
    /\ issued' = issued + 1
    /\ cpc' = [cpc EXCEPT ![c] = "notify"]
    /\ UNCHANGED <<running, wpc, ctl, batch, config, block_state, dem_cb, idsr_cb,
                   now, sessions, lastDirect, qualified, tally>>

ReportPush(c, s, n) ==
    /\ cpc[c] = "checked" /\ MutexFree
    /\ s \in DOMAIN sevs
    /\ LET count == IF n = 0 THEN 1 ELSE n IN
        /\ queue' = Append(queue, [sev |-> s, count |-> count, seq |-> issued + 1])
        /\ reported' = [reported EXCEPT ![s] = @ + count]
    /\ sevs' = [sevs EXCEPT ![s].pending_count = @ + 1]
    /\ stats' = [stats EXCEPT !.events_reported = @ + 1]
    /\ issued' = issued + 1
    /\ cpc' = [cpc EXCEPT ![c] = "notify"]
    /\ UNCHANGED <<running, wpc, ctl, batch, config, block_state, dem_cb, idsr_cb,
                   now, sessions, lastDirect, qualified, tally>>

\* Mutant of ReportNotify: the worker is not notified.
ReportNoNotify(c) ==
    /\ cpc[c] = "notify"
    /\ cpc' = [cpc EXCEPT ![c] = "idle"]
    /\ UNCHANGED <<running, wpc, ctl, queue, batch, config, sevs, block_state,
                   dem_cb, idsr_cb, stats, now, ghosts>>

\* notify_one(), after the mutex was released.
ReportNotify(c) ==
    /\ cpc[c] = "notify"
    /\ Notify
    /\ cpc' = [cpc EXCEPT ![c] = "idle"]
    /\ UNCHANGED <<running, ctl, queue, batch, config, sevs, block_state, dem_cb,
                   idsr_cb, stats, now, ghosts>>

-----------------------------------------------------------------------------
\* dispatchQsev for each SEv of S: the QSEv reaches the sinks that are both
\* configured and registered.
AfterDispatch(S) ==
    [stats EXCEPT
        !.events_qualified = @ + Cardinality(S),
        !.sent_to_dem  = @ + Cardinality({s \in S : dem_cb /\ config[s].sink_to_dem}),
        !.sent_to_idsr = @ + Cardinality({s \in S : idsr_cb /\ config[s].sink_to_idsr})]

\* The aggregates of the SEvs of S are released; those in passed get through
\* the threshold filter and are qualified.
Release(S) ==
    LET passed == {s \in S : ThrPasses(config[s], sevs[s], sevs[s].agg_pending)} IN
    /\ stats' = AfterDispatch(passed)
    /\ qualified' = [s \in Sev |-> qualified[s] +
                        IF s \in passed THEN sevs[s].agg_pending ELSE 0]
    /\ tally' = [tally EXCEPT !.released = @ + Cardinality(passed)]

ExpireWindows ==
    /\ Release({s \in DOMAIN sevs : AggDue(config[s], sevs[s], now)})
    /\ sevs' = [s \in DOMAIN sevs |-> AfterExpiry(config[s], sevs[s], now)]

-----------------------------------------------------------------------------
\* Worker thread: worker_loop.

WorkerTop ==
    /\ wpc = "top"
    /\ wpc' = IF running THEN "enter" ELSE "exited"
    /\ UNCHANGED <<running, ctl, cpc, queue, batch, config, sevs, block_state,
                   dem_cb, idsr_cb, stats, now, ghosts>>

\* Mutant of Drain: each SEv's counter is decremented once per batch.
DrainOncePerSev ==
    /\ batch' = queue
    /\ queue' = <<>>
    /\ sevs' = [s \in DOMAIN sevs |->
                   [sevs[s] EXCEPT !.pending_count =
                       IF @ >= 1 /\ QueuedOf(s) # {} THEN @ - 1 ELSE @]]
    /\ wpc' = "batch"
    /\ UNCHANGED <<running, ctl, cpc, config, block_state, dem_cb, idsr_cb, stats,
                   now, ghosts>>

\* The drain loop: the whole queue becomes the batch, and the pending counters
\* are decremented, never below zero.
Drain ==
    /\ batch' = queue
    /\ queue' = <<>>
    /\ sevs' = [s \in DOMAIN sevs |->
                   [sevs[s] EXCEPT !.pending_count =
                       IF @ >= Cardinality(QueuedOf(s))
                       THEN @ - Cardinality(QueuedOf(s)) ELSE 0]]
    /\ wpc' = "batch"
    /\ UNCHANGED <<running, ctl, cpc, config, block_state, dem_cb, idsr_cb, stats,
                   now, ghosts>>

WorkerDrain ==
    /\ wpc = "enter" /\ queue # <<>>
    /\ Drain

\* The queue is empty: expire the windows, then choose between the bounded
\* wait (a window is open), the unbounded wait, and the way out.
WorkerIdle ==
    /\ wpc = "enter" /\ queue = <<>>
    /\ ExpireWindows
    /\ wpc' = IF \E s \in DOMAIN sevs : LeavesDeadline(config[s], sevs[s], now)
              THEN "timed"
              ELSE IF running THEN "toWait" ELSE "exited"
    /\ UNCHANGED <<running, ctl, cpc, queue, batch, config, block_state, dem_cb,
                   idsr_cb, now, issued, sessions, lastDirect, reported>>

\* wait(lock, pred) blocks and releases the mutex.
WorkerBlock ==
    /\ wpc = "toWait"
    /\ wpc' = "wait"
    /\ UNCHANGED <<running, ctl, cpc, queue, batch, config, sevs, block_state,
                   dem_cb, idsr_cb, stats, now, ghosts>>

\* The standard allows the wait to end without a notification.
SpuriousWakeup ==
    /\ wpc = "wait"
    /\ wpc' = "woken"
    /\ UNCHANGED <<running, ctl, cpc, queue, batch, config, sevs, block_state,
                   dem_cb, idsr_cb, stats, now, ghosts>>

\* wait(lock, pred) evaluates its predicate again and blocks again.
WorkerWaitAgain ==
    /\ wpc = "woken" /\ running /\ queue = <<>>
    /\ wpc' = "toWait"
    /\ UNCHANGED <<running, ctl, cpc, queue, batch, config, sevs, block_state,
                   dem_cb, idsr_cb, stats, now, ghosts>>

\* The wait is over: by a notification, or, for wait_for, by a notification or
\* the time that has passed (at least 1 ms, at most 100 ms; not counted here).
WorkerStop ==
    /\ wpc \in {"woken", "timed"} /\ ~running /\ queue = <<>>
    /\ wpc' = "exited"
    /\ UNCHANGED <<running, ctl, cpc, queue, batch, config, sevs, block_state,
                   dem_cb, idsr_cb, stats, now, ghosts>>

WorkerResume ==
    /\ \/ wpc = "timed" /\ (running \/ queue # <<>>)
       \/ wpc = "woken" /\ queue # <<>>
    /\ Drain

\* Every event of the batch was processed: expire the windows and go round.
WorkerTick ==
    /\ wpc = "batch" /\ batch = <<>>
    /\ ExpireWindows
    /\ wpc' = "top"
    /\ UNCHANGED <<running, ctl, cpc, queue, batch, config, block_state, dem_cb,
                   idsr_cb, now, issued, sessions, lastDirect, reported>>

-----------------------------------------------------------------------------
\* Worker thread: processEvent on the first event of the batch, one action per
\* way through the filter chain.  The id of a drained event is always in range
\* (see IInv), so the range check of processEvent has no action.

InChain(e) ==
    sevs[e.sev].reporting_mode \in {"BRIEF", "DETAILED"}

Unblocked(e) ==
    InChain(e) /\ ~IsBlockedByState(config[e.sev], block_state)

Sampled(e) ==
    Unblocked(e) /\ NthPasses(config[e.sev], sevs[e.sev], e.count)

Accepted(st) == [st EXCEPT !.detection_status = "VIOLATION"]

SevAfter(e, st) == sevs' = [sevs EXCEPT ![e.sev] = st]

CountDrop(field) == stats' = [stats EXCEPT ![field] = @ + 1]

QualifyEvent(e) ==
    /\ stats' = AfterDispatch({e.sev})
    /\ qualified' = [qualified EXCEPT ![e.sev] = @ + e.count]
    /\ lastDirect' = e.seq
    /\ UNCHANGED tally

DropReportingOff(e) ==
    /\ sevs[e.sev].reporting_mode = "OFF"
    /\ CountDrop("dropped_reporting_off")
    /\ UNCHANGED <<sevs, qualified, lastDirect, tally>>

QualifyBypassing(e) ==
    /\ Bypassing(sevs[e.sev].reporting_mode)
    /\ SevAfter(e, Accepted(sevs[e.sev]))
    /\ QualifyEvent(e)

DropBlocked(e) ==
    /\ InChain(e) /\ ~Unblocked(e)
    /\ SevAfter(e, Accepted(sevs[e.sev]))
    /\ CountDrop("dropped_block_state")
    /\ UNCHANGED <<qualified, lastDirect, tally>>

\* The SEv's state once the sampling filter has counted e.
Counted(e) == AfterNth(config[e.sev], Accepted(sevs[e.sev]), e.count)

DropSampled(e) ==
    /\ Unblocked(e) /\ ~Sampled(e)
    /\ SevAfter(e, Counted(e))
    /\ CountDrop("dropped_sampling")
    /\ UNCHANGED <<qualified, lastDirect, tally>>

Absorb(e) ==
    /\ Sampled(e) /\ Aggregates(config[e.sev])
    /\ SevAfter(e, AfterAggregation(Counted(e), e.count, now))
    /\ tally' = [tally EXCEPT !.absorbed = @ + 1]
    /\ UNCHANGED <<stats, qualified, lastDirect>>

\* Mutant of DropBelowThreshold: the event is counted and passed on as well.
DropBelowThresholdFallsThrough(e) ==
    /\ Sampled(e) /\ ~Aggregates(config[e.sev])
    /\ ~ThrPasses(config[e.sev], sevs[e.sev], e.count)
    /\ SevAfter(e, AfterThreshold(config[e.sev], Counted(e), e.count, now))
    /\ stats' = [AfterDispatch({e.sev}) EXCEPT !.dropped_threshold = @ + 1]
    /\ qualified' = [qualified EXCEPT ![e.sev] = @ + e.count]
    /\ lastDirect' = e.seq
    /\ UNCHANGED tally

DropBelowThreshold(e) ==
    /\ Sampled(e) /\ ~Aggregates(config[e.sev])
    /\ ~ThrPasses(config[e.sev], sevs[e.sev], e.count)
    /\ SevAfter(e, AfterThreshold(config[e.sev], Counted(e), e.count, now))
    /\ CountDrop("dropped_threshold")
    /\ UNCHANGED <<qualified, lastDirect, tally>>

QualifyFiltered(e) ==
    /\ Sampled(e) /\ ~Aggregates(config[e.sev])
    /\ ThrPasses(config[e.sev], sevs[e.sev], e.count)
    /\ SevAfter(e, AfterThreshold(config[e.sev], Counted(e), e.count, now))
    /\ QualifyEvent(e)

ProcessEvent(e) ==
    \/ DropReportingOff(e)
    \/ QualifyBypassing(e)
    \/ DropBlocked(e)
    \/ DropSampled(e)
    \/ Absorb(e)
    \/ DropBelowThreshold(e)
    \/ QualifyFiltered(e)

\* Mutant of WorkerProcess: the batch is worked off from its end.
WorkerProcessLast ==
    /\ wpc = "batch" /\ batch # <<>>
    /\ ProcessEvent(batch[Len(batch)])
    /\ batch' = SubSeq(batch, 1, Len(batch) - 1)
    /\ UNCHANGED <<threads, queue, config, block_state, dem_cb, idsr_cb, now,
                   issued, sessions, reported>>

WorkerProcess ==
    /\ wpc = "batch" /\ batch # <<>>
    /\ ProcessEvent(Head(batch))
    /\ batch' = Tail(batch)
    /\ UNCHANGED <<threads, queue, config, block_state, dem_cb, idsr_cb, now,
                   issued, sessions, reported>>

-----------------------------------------------------------------------------
\* The rest of the API, called by any thread under the mutex.

Api(op) == op \in ApiOps /\ MutexFree

SetReportingMode(s, mode) ==
    /\ Api("mode") /\ s \in DOMAIN sevs
    /\ sevs' = [sevs EXCEPT ![s].reporting_mode = mode]
    /\ UNCHANGED <<threads, queue, batch, config, block_state, dem_cb, idsr_cb,
                   stats, now, ghosts>>

BswM_StateChanged(b) ==
    /\ Api("block")
    /\ block_state' = b
    /\ UNCHANGED <<threads, queue, batch, config, sevs, dem_cb, idsr_cb, stats,
                   now, ghosts>>

ResetDetectionStatus(s) ==
    /\ Api("status") /\ s \in DOMAIN sevs
    /\ sevs' = [sevs EXCEPT ![s].detection_status = "OK"]
    /\ UNCHANGED <<threads, queue, batch, config, block_state, dem_cb, idsr_cb,
                   stats, now, ghosts>>

FlushEvents(s) ==
    /\ Api("flush") /\ s \in DOMAIN sevs
    /\ sevs[s].agg_pending # NoAggregate
    /\ Release({s})
    /\ sevs' = [sevs EXCEPT ![s] = AfterRelease(config[s], sevs[s], now)]
    /\ UNCHANGED <<threads, queue, batch, config, block_state, dem_cb, idsr_cb,
                   now, issued, sessions, lastDirect, reported>>

SetDemReportCallback(registered) ==
    /\ Api("dem")
    /\ dem_cb' = registered
    /\ UNCHANGED <<threads, queue, batch, config, sevs, block_state, idsr_cb,
                   stats, now, ghosts>>

RegisterIdsrSink(registered) ==
    /\ Api("idsr")
    /\ idsr_cb' = registered
    /\ UNCHANGED <<threads, queue, batch, config, sevs, block_state, dem_cb,
                   stats, now, ghosts>>

ResetStats ==
    /\ Api("stats")
    /\ stats' = ZeroStats
    /\ tally' = [absorbed |-> 0, released |-> 0,
                 carried |-> Len(queue) + Len(batch)]
    /\ UNCHANGED <<threads, queue, batch, config, sevs, block_state, dem_cb,
                   idsr_cb, now, issued, sessions, lastDirect, reported, qualified>>

Tick ==
    /\ now < MaxTime
    /\ now' = now + 1
    /\ UNCHANGED <<threads, queue, batch, config, sevs, block_state, dem_cb,
                   idsr_cb, stats, ghosts>>

-----------------------------------------------------------------------------
Control ==
    \/ \E c \in Configs : InitEngine(c)
    \/ DeInitStop
    \/ DeInitNotify
    \/ DeInitClear

Report(c) ==
    \/ ReportCheck(c)
    \/ \E s \in Sev : ReportUnknown(c, s)
    \/ \E s \in Sev, n \in Counts : ReportPush(c, s, n)
    \/ ReportNotify(c)

WorkerStep ==
    \/ WorkerTop
    \/ WorkerDrain
    \/ WorkerIdle
    \/ WorkerBlock
    \/ WorkerWaitAgain
    \/ WorkerStop
    \/ WorkerResume
    \/ WorkerProcess
    \/ WorkerTick

ApiCall ==
    \/ \E s \in Sev, mode \in Modes : SetReportingMode(s, mode)
    \/ \E b \in BlockStates : BswM_StateChanged(b)
    \/ \E s \in Sev : ResetDetectionStatus(s)
    \/ \E s \in Sev : FlushEvents(s)
    \/ \E r \in BOOLEAN : SetDemReportCallback(r)
    \/ \E r \in BOOLEAN : RegisterIdsrSink(r)
    \/ ResetStats

Next ==
    \/ Control
    \/ \E c \in Callers : Report(c)
    \/ WorkerStep
    \/ SpuriousWakeup
    \/ ApiCall
    \/ Tick

Spec == Init /\ [][Next]_vars

\* Every thread that can take its next step is eventually scheduled, and time
\* passes.  Whether events are reported, the API is called or the engine is
\* stopped is up to the environment.  Spurious wakeups are never owed.
ReportFinish(c) ==
    \/ \E s \in Sev : ReportUnknown(c, s)
    \/ \E s \in Sev, n \in Counts : ReportPush(c, s, n)
    \/ ReportNotify(c)

Fairness ==
    /\ WF_vars(WorkerStep)
    /\ WF_vars(DeInitNotify)
    /\ WF_vars(DeInitClear)
    /\ WF_vars(Tick)
    /\ \A c \in Callers : WF_vars(ReportFinish(c))

FairSpec == Spec /\ Fairness

-----------------------------------------------------------------------------
\* Properties.

WorkerPcs == {"none", "top", "enter", "toWait", "wait", "woken", "timed", "batch",
              "exited"}

\* Every variable keeps its type, and the runtime table and its configuration
\* always cover the same SEvs.
TypeOK ==
    /\ running \in BOOLEAN
    /\ queue \in Seq(Event)
    /\ batch \in Seq(Event)
    /\ wpc \in WorkerPcs
    /\ ctl \in {"down", "up", "stopping", "joining"}
    /\ cpc \in [Callers -> {"idle", "checked", "notify"}]
    /\ DOMAIN sevs \subseteq Sev
    /\ sevs \in [DOMAIN sevs -> SevState]
    /\ config \in [DOMAIN sevs -> SevConfig]
    /\ block_state \in BlockStates
    /\ dem_cb \in BOOLEAN
    /\ idsr_cb \in BOOLEAN
    /\ stats \in Stats
    /\ now \in Nat
    /\ issued \in Nat
    /\ sessions \in Nat
    /\ lastDirect \in Nat
    /\ reported \in [Sev -> Nat]
    /\ qualified \in [Sev -> Nat]
    /\ tally \in Tally

\* How the threads go together: the engine runs exactly while the control
\* thread has it up, the worker holds a batch only while it processes one, and
\* no event outlives the table its id points into.
Lifecycle ==
    /\ running <=> ctl = "up"
    /\ ctl = "down" =>
        wpc \in {"none", "exited"} /\ queue = <<>> /\ DOMAIN sevs = {}
    /\ wpc \in {"none", "exited"} => ctl # "up"
    /\ wpc # "batch" => batch = <<>>
    /\ \A i \in DOMAIN queue : queue[i].sev \in DOMAIN sevs
    /\ \A i \in DOMAIN batch : batch[i].sev \in DOMAIN sevs

\* The statistics account for every event: what was reported since they were
\* last reset (and what was in flight then) is still in flight, was dropped by
\* exactly one filter, was absorbed by an aggregate, or was qualified as itself.
\* (m_stats in ReportSecurityEvent, processEvent and expireWindows.)
Dropped(st) == st.dropped_reporting_off + st.dropped_block_state
                 + st.dropped_sampling + st.dropped_threshold

Accounting ==
    stats.events_reported + tally.carried =
        (Len(queue) + Len(batch)) + Dropped(stats)
        + tally.absorbed + (stats.events_qualified - tally.released)

\* pending_count, which reporters increment and the worker's drain loop
\* decrements, is the number of queue entries of that SEv: none is leaked over
\* a drain, a stop or a restart.
PendingMatchesQueue ==
    \A s \in DOMAIN sevs : sevs[s].pending_count = Cardinality(QueuedOf(s))

\* Once DeInit has returned nothing of the session is left for the next one,
\* although reporters that passed the running check may still have pushed
\* events after the worker was told to stop.
StoppedClean == ctl = "down" => InFlight = <<>> /\ DOMAIN sevs = {}

\* Events leave the engine in the order in which they entered it: the events
\* in flight are in order, and later than the last one qualified as itself.
InOrder ==
    /\ \A i, j \in DOMAIN InFlight : i < j => InFlight[i].seq < InFlight[j].seq
    /\ \A i \in DOMAIN InFlight : InFlight[i].seq \in lastDirect + 1 .. issued

\* The worker never blocks without a timeout while an aggregate is staged, so
\* no aggregate waits for the next report to be released.
NoSleepOnStaged ==
    wpc \in {"toWait", "wait"} =>
        \A s \in DOMAIN sevs : sevs[s].agg_pending = NoAggregate

\* Nothing is reported to the sinks twice or out of thin air: per SEv, the
\* occurrences in flight, staged and qualified were all reported in this
\* session.  (The counts an aggregate merges, saturates and hands on.)
Total(ns) ==
    LET upTo[n \in 0..Len(ns)] == IF n = 0 THEN 0 ELSE upTo[n - 1] + ns[n]
    IN  upTo[Len(ns)]

Occurrences(seq, s) ==
    Total([i \in DOMAIN seq |-> IF seq[i].sev = s THEN seq[i].count ELSE 0])

NothingInvented ==
    \A s \in DOMAIN sevs :
        Occurrences(InFlight, s) + sevs[s].agg_pending + qualified[s] <= reported[s]

\* Every accepted event is processed or, when the engine is being stopped,
\* discarded: none stays in the queue or in the batch.  (The notification is
\* sent after the mutex is released, and the worker may be anywhere then.)
SeqsInFlight == {InFlight[i].seq : i \in DOMAIN InFlight}

EveryEventLeaves ==
    \A k \in 1..MaxReports : k \in SeqsInFlight ~> k \notin SeqsInFlight

\* A staged aggregate whose window ends within the modelled time is released
\* unless the engine is stopped first.
AggregateReleased ==
    \A s \in Sev :
        (/\ s \in DOMAIN sevs
         /\ sevs[s].agg_pending # NoAggregate
         /\ sevs[s].agg_window_start_ms + config[s].aggregation_interval_ms <= MaxTime)
        ~> (~running \/ sevs[s].agg_pending = NoAggregate)

-----------------------------------------------------------------------------
\* What documentation and comments say and the code does not do.

\* IdsM_Manager.cpp:24 "the loop waits until the earliest pending window
\* deadline (bounded by the shutdown poll interval) instead of indefinitely":
\* a DeInit that was called returns.
DeInitReturns == ctl = "stopping" ~> ctl = "down"
=============================================================================
