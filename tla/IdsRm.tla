-------------------------------- MODULE IdsRm --------------------------------
(***************************************************************************)
(* The IdsRm forwarder (src/IdsRm_Manager.cpp): the IdsM worker that hands *)
(* qualified events to OnQsev, the thread that posts them to the SOC, the  *)
(* thread that copies them to a local socket, and the control thread of    *)
(* the program, which makes the API calls one after the other (the main    *)
(* functions under apps/).                                                 *)
(*                                                                         *)
(* Events are numbered in the order of the OnQsev calls.  A critical       *)
(* section is one action; "toWait" is the state of a thread that has       *)
(* evaluated its wait predicate and still holds the mutex.                 *)
(***************************************************************************)
EXTENDS Integers, Sequences, SequencesExt

CONSTANTS
    QueueDepth,   \* IDSRM_DEFAULT_QUEUE_DEPTH
    SinkDepth,    \* 512 in OnQsev
    RetryCount,   \* m_retry_count, after Init has capped it
    ApiOps,       \* which run-time calls the control thread makes
    Faults,       \* "peer": the reader of the local socket may go away
    MaxEvents,    \* bound: OnQsev calls
    MaxSessions   \* bound: calls of Init

ASSUME ForwarderAssumption ==
    /\ QueueDepth \in Nat /\ SinkDepth \in Nat
    /\ RetryCount \in Nat
    /\ MaxEvents \in Nat /\ MaxSessions \in Nat

VARIABLES
    registered,      \* OnQsev is IdsM's IdsR sink
    m_enabled,
    worker_running,  \* m_worker_running
    sink_running,    \* m_sink_running
    soc_url,         \* m_soc_url is not empty
    sink_path,       \* m_sink_path is not empty
    event_queue,     \* m_event_queue
    sink_queue,      \* m_sink_queue
    batch,           \* what is left of worker_loop's batch or remaining
    attempt,         \* of postWithRetry
    item,            \* what sink_loop holds, a sequence of at most one event
    connected,       \* m_sink_fd >= 0
    m_stats,
    qpc,             \* where the IdsM worker is in OnQsev
    wpc,             \* where the worker thread is
    spc,             \* where the sink thread is; "none": not joinable
    ctl              \* where the control thread is

\* History variables; issued and sessions also bound the behaviours.
VARIABLES
    issued,          \* OnQsev calls so far
    sessions,        \* calls of Init so far
    pushed,          \* events put into event_queue since the statistics were reset
    owed,            \* outcomes owed since then: one for a call, one for a copy
    written          \* events written to the local socket since then

flags   == <<registered, m_enabled, worker_running, sink_running, soc_url, sink_path>>
threads == <<qpc, wpc, spc, ctl>>
http    == <<event_queue, batch, attempt>>
sink    == <<sink_queue, item, connected>>
ghosts  == <<issued, sessions, pushed, owed, written>>
vars    == <<flags, threads, http, sink, m_stats, ghosts>>

ZeroStats ==
    [events_received |-> 0, events_dropped |-> 0, events_posted |-> 0,
     events_failed |-> 0, http_retries |-> 0]

Count(field) == m_stats' = [m_stats EXCEPT ![field] = @ + 1]

QueueFree == wpc # "toWait"     \* m_queue_mutex
SinkFree  == spc # "toWait"     \* m_sink_mutex

Alive == ctl # "killed"

\* A crash takes every thread with it.
Killed == qpc' = "killed" /\ wpc' = "killed" /\ spc' = "killed" /\ ctl' = "killed"

\* A notification only has an effect on a thread that is already waiting.
Notified(pc) == IF pc = "wait" THEN "woken" ELSE pc

-----------------------------------------------------------------------------
Init ==
    /\ registered = FALSE /\ m_enabled = FALSE
    /\ worker_running = FALSE /\ sink_running = FALSE
    /\ soc_url = FALSE /\ sink_path = FALSE
    /\ event_queue = <<>> /\ batch = <<>> /\ attempt = 0
    /\ sink_queue = <<>> /\ item = <<>> /\ connected = FALSE
    /\ m_stats = ZeroStats
    /\ qpc = "out" /\ wpc = "none" /\ spc = "none" /\ ctl = "down"
    /\ issued = 0 /\ sessions = 0 /\ pushed = 0 /\ owed = 0 /\ written = 0

\* What OnQsev and the sink thread hold and have not counted yet.
InCall == CASE qpc \in {"in", "pushed", "count"} -> 1
            [] qpc = "tee"                      -> 2
            [] OTHER                            -> 0
InSink == Len(sink_queue) + Len(item)

StatsReset ==
    /\ m_stats' = ZeroStats
    /\ pushed' = Len(event_queue) + Len(batch)
    /\ owed' = InCall + InSink
    /\ written' = 0

-----------------------------------------------------------------------------
\* Control thread: Init and DeInit.

InitForwarder(url) ==
    /\ ctl = "down" /\ sessions < MaxSessions
    /\ soc_url' = url
    /\ StatsReset
    /\ m_enabled' = TRUE
    /\ registered' = TRUE
    /\ worker_running' = TRUE /\ wpc' = "top"
    /\ sink_running' = sink_path
    /\ spc' = IF sink_path THEN "top" ELSE "none"
    /\ ctl' = "up"
    /\ sessions' = sessions + 1
    /\ UNCHANGED <<sink_path, http, sink, qpc, issued>>

\* Mutant of DeInitUnregister: the sink stays registered.
DeInitStaysRegistered ==
    /\ ctl = "up" /\ qpc = "out"
    /\ ctl' = "unregistered"
    /\ UNCHANGED <<flags, qpc, wpc, spc, http, sink, m_stats, ghosts>>

\* IdsM_RegisterIdsrSink takes IdsM's mutex, which is held during OnQsev.
DeInitUnregister ==
    /\ ctl = "up" /\ qpc = "out"
    /\ registered' = FALSE
    /\ ctl' = "unregistered"
    /\ UNCHANGED <<m_enabled, worker_running, sink_running, soc_url, sink_path, qpc,
                   wpc, spc, http, sink, m_stats, ghosts>>

DeInitStopWorker ==
    /\ ctl = "unregistered"
    /\ worker_running' = FALSE
    /\ ctl' = "notifyWorker"
    /\ UNCHANGED <<registered, m_enabled, sink_running, soc_url, sink_path, qpc, wpc,
                   spc, http, sink, m_stats, ghosts>>

DeInitNotifyWorker ==
    /\ ctl = "notifyWorker"
    /\ wpc' = Notified(wpc)
    /\ ctl' = "joinWorker"
    /\ UNCHANGED <<flags, qpc, spc, http, sink, m_stats, ghosts>>

DeInitStopSink ==
    /\ ctl = "joinWorker" /\ wpc = "exited"
    /\ sink_running' = FALSE
    /\ ctl' = "notifySink"
    /\ UNCHANGED <<registered, m_enabled, worker_running, soc_url, sink_path, qpc, wpc,
                   spc, http, sink, m_stats, ghosts>>

DeInitNotifySink ==
    /\ ctl = "notifySink"
    /\ spc' = Notified(spc)
    /\ ctl' = "joinSink"
    /\ UNCHANGED <<flags, qpc, wpc, http, sink, m_stats, ghosts>>

DeInitClose ==
    /\ ctl = "joinSink" /\ spc \in {"none", "exited"}
    /\ spc' = "none" /\ wpc' = "none"
    /\ connected' = FALSE
    /\ m_enabled' = FALSE
    /\ ctl' = "down"
    /\ UNCHANGED <<registered, worker_running, sink_running, soc_url, sink_path, qpc,
                   http, sink_queue, item, m_stats, ghosts>>

-----------------------------------------------------------------------------
\* Control thread: run-time calls.

Api(op) == op \in ApiOps /\ ctl = "up"

\* Enable and Disable.
SetEnabled(on) ==
    /\ Api("enable")
    /\ m_enabled' = on
    /\ UNCHANGED <<registered, worker_running, sink_running, soc_url, sink_path,
                   threads, http, sink, m_stats, ghosts>>

SetSocUrl(url) ==
    /\ Api("url")
    /\ soc_url' = url
    /\ UNCHANGED <<registered, m_enabled, worker_running, sink_running, sink_path,
                   threads, http, sink, m_stats, ghosts>>

ResetStats ==
    /\ Api("stats")
    /\ StatsReset
    /\ UNCHANGED <<flags, threads, http, sink, issued, sessions>>

\* SetLocalSink(p), called before Init, or when no thread has to change.
SetLocalSinkPath(p) ==
    /\ "sink" \in ApiOps /\ SinkFree
    /\ \/ ctl = "down"
       \/ ctl = "up" /\ sink_running = p
    /\ sink_path' = p
    /\ UNCHANGED <<registered, m_enabled, worker_running, sink_running, soc_url,
                   threads, http, sink, m_stats, ghosts>>

StartSink ==
    /\ Api("sink") /\ SinkFree /\ ~sink_running /\ spc = "none"
    /\ sink_path' = TRUE
    /\ sink_running' = TRUE
    /\ spc' = "top"
    /\ UNCHANGED <<registered, m_enabled, worker_running, soc_url, qpc, wpc, ctl,
                   http, sink, m_stats, ghosts>>

\* The thread that was stopped is still joinable, and assigning another one to
\* m_sink_thread calls std::terminate.
RestartSink ==
    /\ Api("resink") /\ SinkFree /\ ~sink_running /\ spc # "none"
    /\ Killed
    /\ UNCHANGED <<flags, http, sink, m_stats, ghosts>>

StopSink ==
    /\ Api("sink") /\ SinkFree /\ sink_running
    /\ sink_path' = FALSE
    /\ sink_running' = FALSE
    /\ spc' = Notified(spc)
    /\ UNCHANGED <<registered, m_enabled, worker_running, soc_url, qpc, wpc, ctl,
                   http, sink, m_stats, ghosts>>
-----------------------------------------------------------------------------
\* OnQsev, called by the IdsM worker.

QsevStep(from, to) == qpc = from /\ qpc' = to

\* Mutant of QueueFull: one event too many.
QueueFullLate == Len(event_queue) > QueueDepth

QueueFull == Len(event_queue) >= QueueDepth

QsevDisabled ==
    /\ qpc = "out" /\ registered /\ ~m_enabled /\ issued < MaxEvents
    /\ Count("events_dropped")
    /\ issued' = issued + 1
    /\ owed' = owed + 1
    /\ UNCHANGED <<flags, threads, http, sink, sessions, pushed, written>>

QsevEnabled ==
    /\ QsevStep("out", "in") /\ registered /\ m_enabled /\ issued < MaxEvents
    /\ issued' = issued + 1
    /\ owed' = owed + 1
    /\ UNCHANGED <<flags, wpc, spc, ctl, http, sink, m_stats, sessions,
                   pushed, written>>

QsevDropped ==
    /\ QsevStep("in", "out") /\ QueueFree /\ QueueFull
    /\ Count("events_dropped")
    /\ UNCHANGED <<flags, wpc, spc, ctl, http, sink, ghosts>>

QsevPush ==
    /\ QsevStep("in", "pushed") /\ QueueFree /\ ~QueueFull
    /\ event_queue' = Append(event_queue, issued)
    /\ pushed' = pushed + 1
    /\ UNCHANGED <<flags, wpc, spc, ctl, batch, attempt, sink, m_stats,
                   issued, sessions, owed, written>>

QsevNoSink ==
    /\ QsevStep("pushed", "count") /\ ~sink_running
    /\ UNCHANGED <<flags, wpc, spc, ctl, http, sink, m_stats, ghosts>>

\* The check of m_sink_running, made before m_sink_mutex is taken.
QsevSeesSink ==
    /\ QsevStep("pushed", "tee") /\ sink_running
    /\ owed' = owed + 1
    /\ UNCHANGED <<flags, wpc, spc, ctl, http, sink, m_stats, issued,
                   sessions, pushed, written>>

SinkQueueFull == Len(sink_queue) >= SinkDepth

\* Mutants of QsevTee: at the wrong end; without a notification.
QsevTeeInFront ==
    /\ QsevStep("tee", "count") /\ SinkFree /\ ~SinkQueueFull
    /\ sink_queue' = <<issued>> \o sink_queue
    /\ spc' = Notified(spc)
    /\ UNCHANGED <<flags, wpc, ctl, http, item, connected, m_stats, ghosts>>

QsevTeeQuietly ==
    /\ QsevStep("tee", "count") /\ SinkFree /\ ~SinkQueueFull
    /\ sink_queue' = Append(sink_queue, issued)
    /\ UNCHANGED <<flags, wpc, spc, ctl, http, item, connected, m_stats, ghosts>>

QsevTee ==
    /\ QsevStep("tee", "count") /\ SinkFree /\ ~SinkQueueFull
    /\ sink_queue' = Append(sink_queue, issued)
    /\ spc' = Notified(spc)
    /\ UNCHANGED <<flags, wpc, ctl, http, item, connected, m_stats, ghosts>>

QsevTeeDropped ==
    /\ QsevStep("tee", "count") /\ SinkFree /\ SinkQueueFull
    /\ Count("events_dropped")
    /\ UNCHANGED <<flags, wpc, spc, ctl, http, sink, ghosts>>

QsevCount ==
    /\ QsevStep("count", "notify")
    /\ Count("events_received")
    /\ UNCHANGED <<flags, wpc, spc, ctl, http, sink, ghosts>>

\* Mutant of QsevNotify: the worker is not notified.
QsevNoNotify ==
    /\ QsevStep("notify", "out")
    /\ UNCHANGED <<flags, wpc, spc, ctl, http, sink, m_stats, ghosts>>

QsevNotify ==
    /\ QsevStep("notify", "out")
    /\ wpc' = Notified(wpc)
    /\ UNCHANGED <<flags, spc, ctl, http, sink, m_stats, ghosts>>

-----------------------------------------------------------------------------
\* Worker thread: worker_loop and postWithRetry.

WorkerMoves(to) ==
    /\ wpc' = to
    /\ UNCHANGED <<flags, qpc, spc, ctl, sink, issued, sessions, owed, written>>

WorkerTop ==
    /\ wpc = "top"
    /\ WorkerMoves(IF worker_running THEN "enter" ELSE "drain")
    /\ UNCHANGED <<http, m_stats, pushed>>

TakeQueue == batch' = event_queue /\ event_queue' = <<>>

WorkerDrain ==
    /\ wpc \in {"enter", "woken"} /\ event_queue # <<>>
    /\ TakeQueue
    /\ WorkerMoves("batch")
    /\ UNCHANGED <<attempt, m_stats, pushed>>

WorkerSleep ==
    /\ wpc \in {"enter", "woken"} /\ event_queue = <<>> /\ worker_running
    /\ WorkerMoves("toWait")
    /\ UNCHANGED <<http, m_stats, pushed>>

\* wait(lock, pred) blocks and releases the mutex.
WorkerBlock ==
    /\ wpc = "toWait"
    /\ WorkerMoves("wait")
    /\ UNCHANGED <<http, m_stats, pushed>>

WorkerStop ==
    /\ wpc \in {"enter", "woken"} /\ event_queue = <<>> /\ ~worker_running
    /\ WorkerMoves("drain")
    /\ UNCHANGED <<http, m_stats, pushed>>

WorkerBatchDone ==
    /\ wpc = "batch" /\ batch = <<>>
    /\ WorkerMoves("top")
    /\ UNCHANGED <<http, m_stats, pushed>>

\* The URL is read under m_config_mutex; what follows goes by what was read.
WorkerReadUrl ==
    /\ wpc = "batch" /\ batch # <<>>
    /\ WorkerMoves(IF soc_url THEN "post" ELSE "skip")
    /\ attempt' = 0
    /\ UNCHANGED <<event_queue, batch, m_stats, pushed>>

\* Without a URL the event counts as posted when the local sink runs.
WorkerSkipsHttp ==
    /\ wpc = "skip"
    /\ Count(IF sink_running THEN "events_posted" ELSE "events_failed")
    /\ batch' = Tail(batch)
    /\ WorkerMoves("batch")
    /\ UNCHANGED <<event_queue, attempt, pushed>>

\* After the loop: what is left of the queue is posted, whatever the URL is.
WorkerFinalDrain ==
    /\ wpc = "drain"
    /\ TakeQueue
    /\ WorkerMoves("rest")
    /\ UNCHANGED <<attempt, m_stats, pushed>>

WorkerPostRest ==
    /\ wpc = "rest" /\ batch # <<>>
    /\ attempt' = 0
    /\ WorkerMoves("postRest")
    /\ UNCHANGED <<event_queue, batch, m_stats, pushed>>

WorkerExit ==
    /\ wpc = "rest" /\ batch = <<>>
    /\ WorkerMoves("exited")
    /\ UNCHANGED <<http, m_stats, pushed>>

\* postWithRetry(Head(batch)), one HTTP request after the other.  The URL is
\* read again for each; libcurl refuses an empty one.
Posting == wpc \in {"post", "postRest"}
Back    == IF wpc = "post" THEN "batch" ELSE "rest"

PostSucceeds ==
    /\ Posting /\ soc_url
    /\ Count("events_posted")
    /\ batch' = Tail(batch)
    /\ WorkerMoves(Back)
    /\ UNCHANGED <<event_queue, attempt, pushed>>

PostRetries ==
    /\ Posting /\ attempt < RetryCount
    /\ Count("http_retries")
    /\ attempt' = attempt + 1
    /\ WorkerMoves(wpc)
    /\ UNCHANGED <<event_queue, batch, pushed>>

\* Mutant of PostFails: the last failed attempt is not counted as a failure.
PostFailsUncounted ==
    /\ Posting /\ attempt = RetryCount
    /\ Count("http_retries")
    /\ batch' = Tail(batch)
    /\ WorkerMoves(Back)
    /\ UNCHANGED <<event_queue, attempt, pushed>>

PostFails ==
    /\ Posting /\ attempt = RetryCount
    /\ m_stats' = [m_stats EXCEPT !.http_retries = @ + 1, !.events_failed = @ + 1]
    /\ batch' = Tail(batch)
    /\ WorkerMoves(Back)
    /\ UNCHANGED <<event_queue, attempt, pushed>>

-----------------------------------------------------------------------------
\* Sink thread: sink_loop.

SinkMoves(to) ==
    /\ spc' = to
    /\ UNCHANGED <<flags, qpc, wpc, ctl, http, issued, sessions, pushed, owed>>

SinkTake ==
    /\ spc \in {"top", "woken"} /\ sink_queue # <<>>
    /\ item' = <<Head(sink_queue)>>
    /\ sink_queue' = Tail(sink_queue)
    /\ SinkMoves(IF connected THEN "write" ELSE "connect")
    /\ UNCHANGED <<connected, m_stats, written>>

SinkSleep ==
    /\ spc \in {"top", "woken"} /\ sink_queue = <<>> /\ sink_running
    /\ SinkMoves("toWait")
    /\ UNCHANGED <<sink, m_stats, written>>

SinkBlock ==
    /\ spc = "toWait"
    /\ SinkMoves("wait")
    /\ UNCHANGED <<sink, m_stats, written>>

SinkExit ==
    /\ spc \in {"top", "woken"} /\ sink_queue = <<>> /\ ~sink_running
    /\ SinkMoves("exited")
    /\ UNCHANGED <<sink, m_stats, written>>

SinkConnects ==
    /\ spc = "connect" /\ sink_path
    /\ connected' = TRUE
    /\ SinkMoves("write")
    /\ UNCHANGED <<sink_queue, item, m_stats, written>>

\* The event is dropped with the connection, or for want of one.
SinkLoses ==
    /\ Count("events_dropped")
    /\ connected' = FALSE
    /\ item' = <<>>
    /\ SinkMoves("top")
    /\ UNCHANGED <<sink_queue, written>>

SinkConnectFails ==
    /\ spc = "connect"
    /\ SinkLoses

SinkWrites ==
    /\ spc = "write"
    /\ written' = written + 1
    /\ item' = <<>>
    /\ SinkMoves("top")
    /\ UNCHANGED <<sink_queue, connected, m_stats>>

SinkWriteFails ==
    /\ spc = "write"
    /\ SinkLoses

\* write() to a socket whose reader has gone raises SIGPIPE, which none of the
\* programs that use the forwarder ignores.
SinkWriteKills ==
    /\ "peer" \in Faults /\ spc = "write"
    /\ Killed
    /\ UNCHANGED <<flags, http, sink, m_stats, ghosts>>

-----------------------------------------------------------------------------
\* The standard allows a wait to end without a notification.
SpuriousWakeup ==
    /\ \/ wpc = "wait" /\ wpc' = "woken" /\ UNCHANGED spc
       \/ spc = "wait" /\ spc' = "woken" /\ UNCHANGED wpc
    /\ UNCHANGED <<flags, qpc, ctl, http, sink, m_stats, ghosts>>

DeInit ==
    \/ DeInitUnregister
    \/ DeInitStopWorker
    \/ DeInitNotifyWorker
    \/ DeInitStopSink
    \/ DeInitNotifySink
    \/ DeInitClose

ApiCall ==
    \/ \E on \in BOOLEAN : SetEnabled(on)
    \/ \E url \in BOOLEAN : SetSocUrl(url)
    \/ ResetStats
    \/ \E p \in BOOLEAN : SetLocalSinkPath(p)
    \/ StartSink
    \/ RestartSink
    \/ StopSink

OnQsev ==
    \/ QsevDropped \/ QsevPush
    \/ QsevNoSink \/ QsevSeesSink \/ QsevTee \/ QsevTeeDropped
    \/ QsevCount \/ QsevNotify

Worker ==
    \/ WorkerTop \/ WorkerDrain \/ WorkerSleep \/ WorkerBlock \/ WorkerStop
    \/ WorkerBatchDone \/ WorkerReadUrl \/ WorkerSkipsHttp
    \/ WorkerFinalDrain \/ WorkerPostRest \/ WorkerExit
    \/ PostSucceeds \/ PostRetries \/ PostFails

Sink ==
    \/ SinkTake \/ SinkSleep \/ SinkBlock \/ SinkExit
    \/ SinkConnects \/ SinkConnectFails
    \/ SinkWrites \/ SinkWriteFails

Next ==
    \/ \E url \in BOOLEAN : InitForwarder(url)
    \/ DeInit
    \/ ApiCall
    \/ QsevDisabled
    \/ QsevEnabled
    \/ OnQsev
    \/ Worker
    \/ Sink
    \/ SinkWriteKills
    \/ SpuriousWakeup

Spec == Init /\ [][Next]_vars

\* Every thread is scheduled, and a mutex that is released again and again is
\* taken at some time.  Nothing is assumed of the SOC, of the reader of the
\* socket, or of what the control thread calls.
Fairness ==
    /\ SF_vars(OnQsev)
    /\ WF_vars(Worker)
    /\ WF_vars(Sink)

FairSpec == Spec /\ Fairness

-----------------------------------------------------------------------------
\* Properties.

\* Every variable keeps its type and the two queues stay within their limits.
TypeOK ==
    /\ registered \in BOOLEAN /\ m_enabled \in BOOLEAN
    /\ worker_running \in BOOLEAN /\ sink_running \in BOOLEAN
    /\ soc_url \in BOOLEAN /\ sink_path \in BOOLEAN
    /\ event_queue \in Seq(1..MaxEvents) /\ Len(event_queue) <= QueueDepth
    /\ sink_queue \in Seq(1..MaxEvents) /\ Len(sink_queue) <= SinkDepth
    /\ batch \in Seq(1..MaxEvents) /\ attempt \in 0..RetryCount
    /\ item \in {<<>>} \cup {<<e>> : e \in 1..MaxEvents}
    /\ connected \in BOOLEAN
    /\ m_stats \in [DOMAIN ZeroStats -> Nat]
    /\ qpc \in {"out", "in", "pushed", "tee", "count", "notify", "killed"}
    /\ wpc \in {"none", "top", "enter", "toWait", "wait", "woken", "batch", "skip",
                "post", "drain", "rest", "postRest", "exited",
                "killed"}
    /\ spc \in {"none", "top", "toWait", "wait", "woken", "connect", "write", "exited",
                "killed"}
    /\ ctl \in {"down", "up", "unregistered", "notifyWorker", "joinWorker",
                "notifySink", "joinSink", "killed"}
    /\ issued \in 0..MaxEvents /\ sessions \in 0..MaxSessions
    /\ pushed \in Nat /\ owed \in Nat /\ written \in Nat

\* No event taken for the SOC is lost or counted twice, from OnQsev over the
\* batch and its retries to the final drain: what was put into the queue is in
\* the queue, in the worker's hands, posted or failed.
HttpAccounting ==
    pushed = Len(event_queue) + Len(batch) + m_stats.events_posted + m_stats.events_failed

\* Every OnQsev call is counted as received or dropped, and every copy for the
\* local sink is written or counted as dropped, whatever the two threads, a
\* stop of the sink or a reset of the statistics come in between.
DropsAccounted ==
    Alive => owed = m_stats.events_received + m_stats.events_dropped + written + InCall + InSink

\* Nothing that OnQsev was called with is lost, neither on its way to the SOC nor
\* on its way to the local socket, without being counted, and nothing twice.
Accounting == HttpAccounting /\ DropsAccounted

\* IdsRm.h:13 "flush in-flight events": once DeInit has returned no event is
\* left for the SOC, which is why the sink is unregistered first.
Flushed == ctl = "down" => event_queue = <<>> /\ batch = <<>>

\* Both ways keep the order of the OnQsev calls.
InOrder ==
    \A s \in {batch \o event_queue, item \o sink_queue} :
        \A i, j \in DOMAIN s : i < j => s[i] < s[j]

\* An event that was put into the queue is posted or given up at some time,
\* although the notification is sent after the mutex was released and only
\* after the copy for the sink was made.
EveryEventAnswered ==
    \A e \in 1..MaxEvents :
        e \in ToSet(event_queue \o batch) ~> (e \notin ToSet(event_queue \o batch) \/ ~Alive)

\* A copy for the local sink is written or dropped while the sink is on.
SinkServed ==
    \A e \in 1..MaxEvents :
        (e \in ToSet(sink_queue \o item) /\ sink_running)
        ~> (e \notin ToSet(sink_queue \o item) \/ ~sink_running \/ ~Alive)
=============================================================================
