---------------------------- MODULE IdsRm_proofs ----------------------------
(***************************************************************************)
(* Proofs about the IdsRm forwarder, for queues of every depth, any number *)
(* of retries, events and sessions, and every choice of run-time calls.    *)
(***************************************************************************)
EXTENDS IdsRm, SequenceLemmas, TLAPS

-----------------------------------------------------------------------------
\* The inductive invariant.

\* The places of the threads that go together: after IdsRm has unregistered its
\* sink no OnQsev is on its way, the worker ends only when it is told to, and it
\* is joined before the sink thread is stopped.
Places ==
    /\ ctl \notin {"up", "killed"} => ~registered /\ qpc = "out"
    /\ ctl \in {"up", "unregistered"} => worker_running
    /\ ctl = "down" <=> wpc = "none"
    /\ ctl = "down" => spc = "none"
    /\ ctl \in {"notifySink", "joinSink"} => wpc = "exited"
    /\ wpc \in {"drain", "rest", "postRest", "exited"} =>
         ctl \in {"notifyWorker", "joinWorker", "notifySink", "joinSink"}
    /\ qpc \in {"in", "pushed", "tee"} => issued # 0
    /\ ctl = "killed" => qpc = "killed" /\ wpc = "killed" /\ spc = "killed"

\* When the worker and the sink thread hold events, and when the queue is empty.
Holds ==
    /\ wpc \in {"none", "top", "enter", "toWait", "wait", "woken", "drain", "exited"} =>
         batch = <<>>
    /\ wpc \in {"skip", "post", "postRest"} => batch # <<>>
    /\ wpc \in {"none", "rest", "postRest", "exited"} => event_queue = <<>>
    /\ spc \in {"none", "top", "toWait", "wait", "woken", "exited"} => item = <<>>
    /\ spc \in {"connect", "write"} => item # <<>>

TypedPlaces == TypeOK /\ Places /\ Holds

-----------------------------------------------------------------------------
\* The counters.
LEMMA StatNames ==
    DOMAIN ZeroStats = {"events_received", "events_dropped", "events_posted",
                        "events_failed", "http_retries"}
  BY DEF ZeroStats

\* Counting leaves the statistics numbers.
LEMMA CountTyped ==
    ASSUME TypeOK, NEW counter \in DOMAIN ZeroStats, Count(counter)
    PROVE  m_stats' \in [DOMAIN ZeroStats -> Nat]
<1> DEFINE F == DOMAIN ZeroStats
<1>1. m_stats \in [F -> Nat] /\ counter \in F
  BY DEF TypeOK
<1>2. m_stats' = [m_stats EXCEPT ![counter] = @ + 1]
  BY DEF Count
<1> HIDE DEF F
<1>3. m_stats' \in [F -> Nat]
  BY ONLY <1>1, <1>2
<1>4. QED BY ONLY <1>3 DEF F

\* OnQsev.
LEMMA QsevTyped ==
    ASSUME TypedPlaces, OnQsev
    PROVE  TypedPlaces'
<1> USE ForwarderAssumption DEF TypedPlaces, TypeOK, Places, Holds, flags, threads, http, sink, ghosts,
        QsevStep
<1>1. CASE QsevDropped
  <2>0. m_stats' \in [DOMAIN ZeroStats -> Nat]
    BY <1>1, CountTyped, StatNames DEF QsevDropped
  <2>1. TypeOK'
    BY <1>1, <2>0 DEF QsevDropped
  <2>2. Places'
    BY <1>1 DEF QsevDropped
  <2>3. Holds'
    BY <1>1 DEF QsevDropped
  <2>4. QED BY ONLY <2>1, <2>2, <2>3 DEF TypedPlaces
<1>2. CASE QsevPush
  <2>1. TypeOK'
    BY <1>2 DEF QsevPush, QueueFull
  <2>2. Places'
    BY <1>2 DEF QsevPush, QueueFull
  <2>3. Holds'
    BY <1>2 DEF QsevPush, QueueFull
  <2>4. QED BY ONLY <2>1, <2>2, <2>3 DEF TypedPlaces
<1>3. CASE QsevNoSink
  BY <1>3 DEF QsevNoSink
<1>4. CASE QsevSeesSink
  BY <1>4 DEF QsevSeesSink
<1>5. CASE QsevTee
  <2>1. TypeOK'
    BY <1>5 DEF QsevTee, SinkQueueFull, Notified
  <2>2. Places'
    BY <1>5 DEF QsevTee, SinkQueueFull, Notified
  <2>3. Holds'
    BY <1>5 DEF QsevTee, SinkQueueFull, Notified
  <2>4. QED BY ONLY <2>1, <2>2, <2>3 DEF TypedPlaces
<1>6. CASE QsevTeeDropped
  <2>0. m_stats' \in [DOMAIN ZeroStats -> Nat]
    BY <1>6, CountTyped, StatNames DEF QsevTeeDropped
  <2>1. TypeOK'
    BY <1>6, <2>0 DEF QsevTeeDropped
  <2>2. Places'
    BY <1>6 DEF QsevTeeDropped
  <2>3. Holds'
    BY <1>6 DEF QsevTeeDropped
  <2>4. QED BY ONLY <2>1, <2>2, <2>3 DEF TypedPlaces
<1>7. CASE QsevCount
  <2>0. m_stats' \in [DOMAIN ZeroStats -> Nat]
    BY <1>7, CountTyped, StatNames DEF QsevCount
  <2>1. TypeOK'
    BY <1>7, <2>0 DEF QsevCount
  <2>2. Places'
    BY <1>7 DEF QsevCount
  <2>3. Holds'
    BY <1>7 DEF QsevCount
  <2>4. QED BY ONLY <2>1, <2>2, <2>3 DEF TypedPlaces
<1>8. CASE QsevNotify
  <2>1. TypeOK'
    BY <1>8 DEF QsevNotify, Notified
  <2>2. Places'
    BY <1>8 DEF QsevNotify, Notified
  <2>3. Holds'
    BY <1>8 DEF QsevNotify, Notified
  <2>4. QED BY ONLY <2>1, <2>2, <2>3 DEF TypedPlaces
<1>9. QED
  BY ONLY OnQsev, <1>1, <1>2, <1>3, <1>4, <1>5, <1>6, <1>7, <1>8 DEF OnQsev

-----------------------------------------------------------------------------
\* The worker thread.
LEMMA WorkerTyped ==
    ASSUME TypedPlaces, Worker
    PROVE  TypedPlaces'
<1> USE ForwarderAssumption DEF TypedPlaces, TypeOK, Places, Holds, flags, threads, http, sink, ghosts,
        WorkerMoves, TakeQueue, Posting, Back
<1>1. CASE WorkerTop
  BY <1>1 DEF WorkerTop
<1>2. CASE WorkerDrain
  <2>1. TypeOK'
    BY <1>2 DEF WorkerDrain
  <2>2. Places'
    BY <1>2 DEF WorkerDrain
  <2>3. Holds'
    BY <1>2 DEF WorkerDrain
  <2>4. QED BY ONLY <2>1, <2>2, <2>3 DEF TypedPlaces
<1>3. CASE WorkerSleep
  BY <1>3 DEF WorkerSleep
<1>4. CASE WorkerBlock
  BY <1>4 DEF WorkerBlock
<1>5. CASE WorkerStop
  BY <1>5 DEF WorkerStop
<1>6. CASE WorkerBatchDone
  <2>1. TypeOK'
    BY <1>6 DEF WorkerBatchDone
  <2>2. Places'
    BY <1>6 DEF WorkerBatchDone
  <2>3. Holds'
    BY <1>6 DEF WorkerBatchDone
  <2>4. QED BY ONLY <2>1, <2>2, <2>3 DEF TypedPlaces
<1>7. CASE WorkerReadUrl
  <2>1. TypeOK'
    BY <1>7 DEF WorkerReadUrl
  <2>2. Places'
    BY <1>7 DEF WorkerReadUrl
  <2>3. Holds'
    BY <1>7 DEF WorkerReadUrl
  <2>4. QED BY ONLY <2>1, <2>2, <2>3 DEF TypedPlaces
<1>8. CASE WorkerSkipsHttp
  <2>0. m_stats' \in [DOMAIN ZeroStats -> Nat]
    BY <1>8, CountTyped, StatNames DEF WorkerSkipsHttp
  <2>1. TypeOK'
    BY <1>8, <2>0 DEF WorkerSkipsHttp
  <2>2. Places'
    BY <1>8 DEF WorkerSkipsHttp
  <2>3. Holds'
    BY <1>8 DEF WorkerSkipsHttp
  <2>4. QED BY ONLY <2>1, <2>2, <2>3 DEF TypedPlaces
<1>9. CASE WorkerFinalDrain
  <2>1. TypeOK'
    BY <1>9 DEF WorkerFinalDrain
  <2>2. Places'
    BY <1>9 DEF WorkerFinalDrain
  <2>3. Holds'
    BY <1>9 DEF WorkerFinalDrain
  <2>4. QED BY ONLY <2>1, <2>2, <2>3 DEF TypedPlaces
<1>10. CASE WorkerPostRest
  BY <1>10 DEF WorkerPostRest
<1>11. CASE WorkerExit
  BY <1>11 DEF WorkerExit
<1>12. CASE PostSucceeds
  <2>0. m_stats' \in [DOMAIN ZeroStats -> Nat]
    BY <1>12, CountTyped, StatNames DEF PostSucceeds
  <2>1. TypeOK'
    BY <1>12, <2>0 DEF PostSucceeds
  <2>2. Places'
    BY <1>12 DEF PostSucceeds
  <2>3. Holds'
    BY <1>12 DEF PostSucceeds
  <2>4. QED BY ONLY <2>1, <2>2, <2>3 DEF TypedPlaces
<1>13. CASE PostRetries
  <2>0. m_stats' \in [DOMAIN ZeroStats -> Nat]
    BY <1>13, CountTyped, StatNames DEF PostRetries
  <2>1. TypeOK'
    BY <1>13, <2>0 DEF PostRetries
  <2>2. Places'
    BY <1>13 DEF PostRetries
  <2>3. Holds'
    BY <1>13 DEF PostRetries
  <2>4. QED BY ONLY <2>1, <2>2, <2>3 DEF TypedPlaces
<1>14. CASE PostFails
  <2>1. TypeOK'
    <3>1. m_stats' \in [DOMAIN ZeroStats -> Nat]
      <4> DEFINE F == DOMAIN ZeroStats
      <4>1. m_stats \in [F -> Nat] /\ "http_retries" \in F /\ "events_failed" \in F
        BY StatNames
      <4>2. m_stats' = [m_stats EXCEPT !["http_retries"] = @ + 1, !["events_failed"] = @ + 1]
        BY ONLY <1>14 DEF PostFails
      <4> HIDE DEF F
      <4>3. m_stats' \in [F -> Nat]
        BY ONLY <4>1, <4>2
      <4>4. QED BY ONLY <4>3 DEF F
    <3>2. batch' \in Seq(1..MaxEvents)
      BY <1>14 DEF PostFails
    <3>3. QED BY <1>14, <3>1, <3>2 DEF PostFails
  <2>2. Places'
    BY <1>14 DEF PostFails
  <2>3. Holds'
    BY <1>14 DEF PostFails
  <2>4. QED BY ONLY <2>1, <2>2, <2>3 DEF TypedPlaces
<1>15. QED
  BY ONLY Worker, <1>1, <1>2, <1>3, <1>4, <1>5, <1>6, <1>7, <1>8, <1>9, <1>10, <1>11, <1>12, <1>13, <1>14 DEF Worker

-----------------------------------------------------------------------------
\* The sink thread.
LEMMA SinkTyped ==
    ASSUME TypedPlaces, Sink
    PROVE  TypedPlaces'
<1> USE ForwarderAssumption DEF TypedPlaces, TypeOK, Places, Holds, flags, threads, http, sink, ghosts,
        SinkMoves, SinkLoses
<1>1. CASE SinkTake
  <2>1. TypeOK'
    <3>1. /\ sink_queue' \in Seq(1..MaxEvents) /\ Len(sink_queue') <= SinkDepth
          /\ Head(sink_queue) \in 1..MaxEvents
      BY <1>1 DEF SinkTake
    <3>2. item' \in {<<>>} \cup {<<e>> : e \in 1..MaxEvents}
      BY ONLY <1>1, <3>1 DEF SinkTake
    <3>3. spc' \in {"write", "connect"}
      BY ONLY <1>1 DEF SinkTake, SinkMoves
    <3>4. UNCHANGED <<registered, m_enabled, worker_running, sink_running, soc_url, sink_path,
                      qpc, wpc, ctl, event_queue, batch, attempt, issued, sessions, pushed,
                      owed, connected, m_stats, written>>
      BY ONLY <1>1 DEF SinkTake, SinkMoves, flags, http
    <3> HIDE DEF Places, Holds
    <3>5. QED BY ONLY TypeOK, <3>1, <3>2, <3>3, <3>4 DEF TypeOK
  <2>2. Places'
    BY <1>1 DEF SinkTake
  <2>3. Holds'
    BY <1>1 DEF SinkTake
  <2>4. QED BY ONLY <2>1, <2>2, <2>3 DEF TypedPlaces
<1>2. CASE SinkSleep
  BY <1>2 DEF SinkSleep
<1>3. CASE SinkBlock
  BY <1>3 DEF SinkBlock
<1>4. CASE SinkExit
  BY <1>4 DEF SinkExit
<1>5. CASE SinkConnects
  BY <1>5 DEF SinkConnects
<1>6. CASE SinkConnectFails
  <2>1. TypeOK'
    <3>1. connected' \in BOOLEAN
      BY ONLY <1>6, FALSE \in BOOLEAN DEF SinkConnectFails, SinkLoses
    <3>2. m_stats' \in [DOMAIN ZeroStats -> Nat]
      BY <1>6, CountTyped, StatNames DEF SinkConnectFails
    <3>3. spc' = "top" /\ item' = <<>>
      BY ONLY <1>6 DEF SinkConnectFails, SinkLoses, SinkMoves
    <3>4. UNCHANGED <<flags, qpc, wpc, ctl, http, issued, sessions, pushed, owed,
                      sink_queue, written>>
      BY ONLY <1>6 DEF SinkConnectFails, SinkLoses, SinkMoves
    <3>5. QED BY <3>1, <3>2, <3>3, <3>4
  <2>2. Places'
    BY <1>6 DEF SinkConnectFails
  <2>3. Holds'
    BY <1>6 DEF SinkConnectFails
  <2>4. QED BY ONLY <2>1, <2>2, <2>3 DEF TypedPlaces
<1>7. CASE SinkWrites
  BY <1>7 DEF SinkWrites
<1>8. CASE SinkWriteFails
  <2>1. TypeOK'
    <3>1. connected' \in BOOLEAN
      BY ONLY <1>8, FALSE \in BOOLEAN DEF SinkWriteFails, SinkLoses
    <3>2. m_stats' \in [DOMAIN ZeroStats -> Nat]
      BY <1>8, CountTyped, StatNames DEF SinkWriteFails
    <3>3. spc' = "top" /\ item' = <<>>
      BY ONLY <1>8 DEF SinkWriteFails, SinkLoses, SinkMoves
    <3>4. UNCHANGED <<flags, qpc, wpc, ctl, http, issued, sessions, pushed, owed,
                      sink_queue, written>>
      BY ONLY <1>8 DEF SinkWriteFails, SinkLoses, SinkMoves
    <3>5. QED BY <3>1, <3>2, <3>3, <3>4
  <2>2. Places'
    BY <1>8 DEF SinkWriteFails
  <2>3. Holds'
    BY <1>8 DEF SinkWriteFails
  <2>4. QED BY ONLY <2>1, <2>2, <2>3 DEF TypedPlaces
<1>9. QED
  BY ONLY Sink, <1>1, <1>2, <1>3, <1>4, <1>5, <1>6, <1>7, <1>8 DEF Sink

-----------------------------------------------------------------------------
\* DeInit.
LEMMA DeInitTyped ==
    ASSUME TypedPlaces, DeInit
    PROVE  TypedPlaces'
<1> USE ForwarderAssumption DEF TypedPlaces, TypeOK, Places, Holds, flags, threads, http, sink, ghosts,
        Notified
<1>0. FALSE \in BOOLEAN OBVIOUS
<1>1. CASE DeInitUnregister
  <2>1. TypeOK'
    <3>1. registered' \in BOOLEAN
      BY ONLY <1>1, FALSE \in BOOLEAN DEF DeInitUnregister
    <3>2. ctl' \in {"down", "up", "unregistered", "notifyWorker", "joinWorker",
                "notifySink", "joinSink", "killed"}
      BY <1>1 DEF DeInitUnregister
    <3>3. UNCHANGED <<m_enabled, worker_running, sink_running, soc_url, sink_path, qpc,
                   wpc, spc, http, sink, m_stats, ghosts>>
      BY ONLY <1>1 DEF DeInitUnregister
    <3>4. QED BY <3>1, <3>2, <3>3
  <2>2. Places'
    BY <1>1, <1>0 DEF DeInitUnregister
  <2>3. Holds'
    BY <1>1, <1>0 DEF DeInitUnregister
  <2>4. QED BY ONLY <2>1, <2>2, <2>3 DEF TypedPlaces
<1>2. CASE DeInitStopWorker
  <2>1. TypeOK'
    <3>1. worker_running' \in BOOLEAN
      BY ONLY <1>2, FALSE \in BOOLEAN DEF DeInitStopWorker
    <3>2. QED BY <1>2, <3>1 DEF DeInitStopWorker
  <2>2. Places'
    BY <1>2 DEF DeInitStopWorker
  <2>3. Holds'
    BY <1>2 DEF DeInitStopWorker
  <2>4. QED BY ONLY <2>1, <2>2, <2>3 DEF TypedPlaces
<1>3. CASE DeInitNotifyWorker
  <2>1. TypeOK'
    BY <1>3, <1>0 DEF DeInitNotifyWorker
  <2>2. Places'
    BY <1>3, <1>0 DEF DeInitNotifyWorker
  <2>3. Holds'
    BY <1>3, <1>0 DEF DeInitNotifyWorker
  <2>4. QED BY ONLY <2>1, <2>2, <2>3 DEF TypedPlaces
<1>4. CASE DeInitStopSink
  <2>1. TypeOK'
    BY <1>4, <1>0 DEF DeInitStopSink
  <2>2. Places'
    BY <1>4, <1>0 DEF DeInitStopSink
  <2>3. Holds'
    BY <1>4, <1>0 DEF DeInitStopSink
  <2>4. QED BY ONLY <2>1, <2>2, <2>3 DEF TypedPlaces
<1>5. CASE DeInitNotifySink
  <2>1. TypeOK'
    BY <1>5, <1>0 DEF DeInitNotifySink
  <2>2. Places'
    BY <1>5, <1>0 DEF DeInitNotifySink
  <2>3. Holds'
    BY <1>5, <1>0 DEF DeInitNotifySink
  <2>4. QED BY ONLY <2>1, <2>2, <2>3 DEF TypedPlaces
<1>6. CASE DeInitClose
  <2>1. TypeOK'
    BY <1>6, <1>0 DEF DeInitClose
  <2>2. Places'
    BY <1>6, <1>0 DEF DeInitClose
  <2>3. Holds'
    BY <1>6, <1>0 DEF DeInitClose
  <2>4. QED BY ONLY <2>1, <2>2, <2>3 DEF TypedPlaces
<1>7. QED
  BY ONLY DeInit, <1>1, <1>2, <1>3, <1>4, <1>5, <1>6 DEF DeInit

-----------------------------------------------------------------------------
\* Init and the run-time calls.
LEMMA StatsResetTyped ==
    ASSUME TypeOK, StatsReset
    PROVE  m_stats' \in [DOMAIN ZeroStats -> Nat] /\ pushed' \in Nat /\ owed' \in Nat
           /\ written' \in Nat
<1>1. InCall \in Nat /\ InSink \in Nat
  BY DEF InCall, InSink, TypeOK
<1>2. Len(event_queue) + Len(batch) \in Nat
  BY DEF TypeOK
<1>3. QED BY <1>1, <1>2 DEF StatsReset, ZeroStats

LEMMA ControlTyped ==
    ASSUME TypedPlaces, (\E url \in BOOLEAN : InitForwarder(url)) \/ ApiCall
    PROVE  TypedPlaces'
<1> USE ForwarderAssumption DEF TypedPlaces, TypeOK, Places, Holds, flags, threads, http,
        sink, ghosts, Api
<1>1. ASSUME NEW url \in BOOLEAN, InitForwarder(url) PROVE TypedPlaces'
  <2>1. m_stats' \in [DOMAIN ZeroStats -> Nat] /\ pushed' \in Nat /\ owed' \in Nat
        /\ written' \in Nat
    BY <1>1, StatsResetTyped DEF InitForwarder
  <2>2. TypeOK'
    BY <1>1, <2>1 DEF InitForwarder
  <2>3. Places'
    BY <1>1 DEF InitForwarder
  <2>4. Holds'
    BY <1>1 DEF InitForwarder
  <2>5. QED BY ONLY <2>2, <2>3, <2>4 DEF TypedPlaces
<1>2. ASSUME NEW on \in BOOLEAN, SetEnabled(on) PROVE TypedPlaces'
  BY <1>2 DEF SetEnabled
<1>3. ASSUME NEW url \in BOOLEAN, SetSocUrl(url) PROVE TypedPlaces'
  BY <1>3 DEF SetSocUrl
<1>4. CASE ResetStats
  BY <1>4, StatsResetTyped DEF ResetStats
<1>5. ASSUME NEW p \in BOOLEAN, SetLocalSinkPath(p) PROVE TypedPlaces'
  BY <1>5 DEF SetLocalSinkPath
<1>6. CASE StartSink
  BY <1>6 DEF StartSink
<1>7. CASE RestartSink
  BY <1>7 DEF RestartSink, Killed
<1>8. CASE StopSink
  <2>1. sink_path' \in BOOLEAN /\ sink_running' \in BOOLEAN
    BY ONLY <1>8, FALSE \in BOOLEAN DEF StopSink
  <2>2. TypeOK'
    BY <1>8, <2>1 DEF StopSink, Notified
  <2>3. Places'
    BY <1>8 DEF StopSink, Notified
  <2>4. Holds'
    BY <1>8 DEF StopSink, Notified
  <2>5. QED BY ONLY <2>2, <2>3, <2>4 DEF TypedPlaces
<1>9. QED
  BY ONLY (\E url \in BOOLEAN : InitForwarder(url)) \/ ApiCall,
          <1>1, <1>2, <1>3, <1>4, <1>5, <1>6, <1>7, <1>8 DEF ApiCall

LEMMA TypedStep ==
    TypedPlaces /\ [Next]_vars => TypedPlaces'
<1> SUFFICES ASSUME TypedPlaces, [Next]_vars PROVE TypedPlaces'
  OBVIOUS
<1>1. CASE QsevDisabled
  BY SMTT(30), <1>1, ForwarderAssumption
     DEF QsevDisabled, TypedPlaces, TypeOK, Places, Holds, flags, threads, http, sink,
         ZeroStats, Count
<1>2. CASE QsevEnabled
  BY <1>2, ForwarderAssumption
     DEF QsevEnabled, QsevStep, TypedPlaces, TypeOK, Places, Holds, flags, http, sink
<1>3. CASE SinkWriteKills
  BY <1>3 DEF SinkWriteKills, Killed, TypedPlaces, TypeOK, Places, Holds, flags, http,
              sink, ghosts
<1>4. CASE SpuriousWakeup
  BY <1>4 DEF SpuriousWakeup, TypedPlaces, TypeOK, Places, Holds, flags, http, sink, ghosts
<1>5. CASE UNCHANGED vars
  BY <1>5 DEF vars, TypedPlaces, TypeOK, Places, Holds, flags, threads, http, sink, ghosts
<1>6. QED
  BY <1>1, <1>2, <1>3, <1>4, <1>5, QsevTyped, WorkerTyped, SinkTyped, DeInitTyped,
     ControlTyped DEF Next

LEMMA TypedAlways == Spec => []TypedPlaces
<1>1. ASSUME Init PROVE TypedPlaces
  <2>1. /\ registered \in BOOLEAN /\ m_enabled \in BOOLEAN
        /\ worker_running \in BOOLEAN /\ sink_running \in BOOLEAN
        /\ soc_url \in BOOLEAN /\ sink_path \in BOOLEAN /\ connected \in BOOLEAN
    BY ONLY <1>1, FALSE \in BOOLEAN DEF Init
  <2>2. TypeOK
    BY <1>1, <2>1, ForwarderAssumption DEF Init, TypeOK, ZeroStats
  <2>3. Places /\ Holds
    BY <1>1 DEF Init, Places, Holds
  <2>4. QED BY ONLY <2>2, <2>3 DEF TypedPlaces
<1>2. QED
  BY <1>1, TypedStep, PTL DEF Spec

\* Every variable keeps its type; the queues of OnQsev never exceed their limits
\* (IDSRM_DEFAULT_QUEUE_DEPTH and 512), whatever the two threads do meanwhile.
THEOREM TypeCorrect == Spec => []TypeOK
<1>1. TypedPlaces => TypeOK
  BY DEF TypedPlaces
<1>2. QED BY <1>1, TypedAlways, PTL

\* Once DeInit has returned no event is left for the SOC: IdsRm_DeInit unregisters the
\* sink before it stops the worker, and the worker's last drain finds all there is.
THEOREM DeInitFlushes == Spec => []Flushed
<1>1. TypedPlaces => Flushed
  BY DEF TypedPlaces, Places, Holds, Flushed
<1>2. QED BY <1>1, TypedAlways, PTL

-----------------------------------------------------------------------------
\* No event is lost or counted twice.

\* What a worker's step takes from the batch it counts.
LEMMA TailLen ==
    ASSUME TypeOK
    PROVE  /\ batch # <<>> => Len(Tail(batch)) = Len(batch) - 1
           /\ sink_queue # <<>> => Len(Tail(sink_queue)) = Len(sink_queue) - 1
           /\ Len(event_queue) \in Nat /\ Len(batch) \in Nat /\ Len(sink_queue) \in Nat
           /\ item # <<>> => Len(item) = 1
           /\ item = <<>> => Len(item) = 0
BY DEF TypeOK

LEMMA HttpStep ==
    TypedPlaces /\ HttpAccounting /\ [Next]_vars => HttpAccounting'
<1> SUFFICES ASSUME TypedPlaces, HttpAccounting, [Next]_vars PROVE HttpAccounting'
  OBVIOUS
<1>1. /\ TypeOK /\ pushed \in Nat /\ m_stats \in [DOMAIN ZeroStats -> Nat]
      /\ event_queue \in Seq(1..MaxEvents) /\ issued \in 0..MaxEvents
  BY DEF TypedPlaces, TypeOK
<1>2. ASSUME UNCHANGED <<event_queue, batch, pushed>>,
             m_stats'.events_posted = m_stats.events_posted,
             m_stats'.events_failed = m_stats.events_failed
      PROVE  HttpAccounting'
  BY <1>2 DEF HttpAccounting
<1>3. ASSUME NEW field \in DOMAIN ZeroStats, field \notin {"events_posted", "events_failed"},
             Count(field)
      PROVE  /\ m_stats'.events_posted = m_stats.events_posted
             /\ m_stats'.events_failed = m_stats.events_failed
  BY <1>1, <1>3 DEF Count
<1>4. ASSUME StatsReset, event_queue' = event_queue, batch' = batch
      PROVE  HttpAccounting'
  BY <1>1, <1>4, TailLen DEF StatsReset, HttpAccounting, ZeroStats
<1>5. ASSUME TakeQueue, batch = <<>>, UNCHANGED <<m_stats, pushed>>
      PROVE  HttpAccounting'
  BY <1>1, <1>5, TailLen DEF TakeQueue, HttpAccounting
<1>6. ASSUME batch # <<>>, batch' = Tail(batch), UNCHANGED <<event_queue, pushed>>,
             \/ /\ m_stats'.events_posted = m_stats.events_posted + 1
                /\ m_stats'.events_failed = m_stats.events_failed
             \/ /\ m_stats'.events_posted = m_stats.events_posted
                /\ m_stats'.events_failed = m_stats.events_failed + 1
      PROVE  HttpAccounting'
  <2>1. m_stats.events_posted \in Nat /\ m_stats.events_failed \in Nat
    BY <1>1 DEF ZeroStats
  <2>2. Len(batch') = Len(batch) - 1 /\ Len(batch) \in Nat /\ Len(event_queue) \in Nat
    BY <1>1, <1>6, TailLen
  <2>3. pushed = Len(event_queue) + Len(batch) + m_stats.events_posted + m_stats.events_failed
    BY DEF HttpAccounting
  <2>4. pushed' = Len(event_queue') + Len(batch') + m_stats'.events_posted
                    + m_stats'.events_failed
    <3>1. pushed' = pushed /\ Len(event_queue') = Len(event_queue)
      BY <1>6
    <3>2. \/ /\ m_stats'.events_posted = m_stats.events_posted + 1
             /\ m_stats'.events_failed = m_stats.events_failed
          \/ /\ m_stats'.events_posted = m_stats.events_posted
             /\ m_stats'.events_failed = m_stats.events_failed + 1
      BY <1>6
    <3>3. QED BY ONLY <2>1, <2>2, <2>3, <3>1, <3>2
  <2>5. QED BY <2>4 DEF HttpAccounting
<1>7. (\E url \in BOOLEAN : InitForwarder(url)) \/ ResetStats => HttpAccounting'
  BY <1>4 DEF InitForwarder, ResetStats, http
<1>8. DeInit \/ SinkWriteKills \/ SpuriousWakeup \/ (ApiCall /\ ~ResetStats)
        \/ QsevEnabled \/ UNCHANGED vars
      => HttpAccounting'
  BY <1>2 DEF DeInit, DeInitUnregister, DeInitStopWorker, DeInitNotifyWorker, DeInitStopSink,
              DeInitNotifySink, DeInitClose, SinkWriteKills, SpuriousWakeup, ApiCall, SetEnabled,
              SetSocUrl, SetLocalSinkPath, StartSink, RestartSink, StopSink, QsevEnabled,
              vars, http, ghosts
<1>9. QsevDisabled => HttpAccounting'
  BY <1>2, <1>3 DEF QsevDisabled, http, ZeroStats
<1>10. CASE OnQsev
  <2>1. CASE QsevPush
    <3>1. /\ event_queue' = Append(event_queue, issued) /\ pushed' = pushed + 1
          /\ UNCHANGED <<batch, m_stats>>
      BY <2>1 DEF QsevPush
    <3>2. issued \in 1..MaxEvents
      BY <1>1, <2>1 DEF QsevPush, QsevStep, TypedPlaces, Places
    <3>3. Len(event_queue') = Len(event_queue) + 1
      BY <1>1, <3>1, <3>2
    <3>4. m_stats.events_posted \in Nat /\ m_stats.events_failed \in Nat
      BY <1>1 DEF ZeroStats
    <3>5. QED BY <1>1, <3>1, <3>3, <3>4, TailLen DEF HttpAccounting
  <2>2. CASE QsevDropped \/ QsevTeeDropped \/ QsevCount
    BY <1>2, <1>3, <2>2 DEF QsevDropped, QsevTeeDropped, QsevCount, http, ghosts, ZeroStats
  <2>3. CASE QsevNoSink \/ QsevSeesSink \/ QsevTee \/ QsevNotify
    BY <1>2, <2>3 DEF QsevNoSink, QsevSeesSink, QsevTee, QsevNotify, http, ghosts
  <2>4. QED BY ONLY <1>10, <2>1, <2>2, <2>3 DEF OnQsev
<1>11. CASE Worker
  <2>1. CASE WorkerTop \/ WorkerSleep \/ WorkerBlock \/ WorkerStop \/ WorkerBatchDone
             \/ WorkerReadUrl \/ WorkerPostRest \/ WorkerExit
    BY <1>2, <2>1 DEF WorkerTop, WorkerSleep, WorkerBlock, WorkerStop, WorkerBatchDone,
                      WorkerReadUrl, WorkerPostRest, WorkerExit, http
  <2>2. CASE WorkerDrain \/ WorkerFinalDrain
    BY <1>5, <2>2 DEF WorkerDrain, WorkerFinalDrain, TypedPlaces, Holds
  <2>3. CASE PostRetries
    BY <1>2, <1>3, <2>3 DEF PostRetries, ZeroStats
  <2>4. CASE WorkerSkipsHttp \/ PostSucceeds \/ PostFails
    <3>1. batch # <<>>
      BY <2>4 DEF WorkerSkipsHttp, PostSucceeds, PostFails, Posting, TypedPlaces, Holds
    <3>2. batch' = Tail(batch) /\ UNCHANGED <<event_queue, pushed>>
      BY <2>4 DEF WorkerSkipsHttp, PostSucceeds, PostFails
    <3>3. \/ /\ m_stats'.events_posted = m_stats.events_posted + 1
             /\ m_stats'.events_failed = m_stats.events_failed
          \/ /\ m_stats'.events_posted = m_stats.events_posted
             /\ m_stats'.events_failed = m_stats.events_failed + 1
      BY <1>1, <2>4 DEF WorkerSkipsHttp, PostSucceeds, PostFails, Count, ZeroStats
    <3>4. QED BY <1>6, <3>1, <3>2, <3>3
  <2>5. QED BY ONLY <1>11, <2>1, <2>2, <2>3, <2>4 DEF Worker
<1>12. CASE Sink
  BY <1>2, <1>3, <1>12
     DEF Sink, SinkTake, SinkSleep, SinkBlock, SinkExit, SinkConnects, SinkConnectFails,
         SinkWrites, SinkWriteFails, SinkMoves, SinkLoses, http, ZeroStats
<1>13. QED
  BY ONLY [Next]_vars, <1>7, <1>8, <1>9, <1>10, <1>11, <1>12 DEF Next

\* The outcomes that were counted or seen by the reader of the local socket.
Counted == m_stats.events_received + m_stats.events_dropped + written

\* One call is counted once, and so is one copy for the local socket.
LEMMA DropsStep ==
    TypedPlaces /\ DropsAccounted /\ [Next]_vars => DropsAccounted'
<1> SUFFICES ASSUME TypedPlaces, DropsAccounted, [Next]_vars, ctl' # "killed"
             PROVE  owed' = Counted' + InCall' + InSink'
  BY DEF DropsAccounted, Alive, Counted
<1> USE DEF Counted
<1>1. /\ TypeOK /\ owed \in Nat /\ written \in Nat /\ m_stats \in [DOMAIN ZeroStats -> Nat]
      /\ sink_queue \in Seq(1..MaxEvents) /\ issued \in 0..MaxEvents
      /\ m_stats.events_received \in Nat /\ m_stats.events_dropped \in Nat
  BY DEF TypedPlaces, TypeOK, ZeroStats
<1>2. InCall \in Nat /\ InSink \in Nat /\ Counted \in Nat
  <2>1. InCall \in Nat
    BY DEF InCall
  <2>2. Len(item) \in Nat
    <3>1. CASE item = <<>>
      BY ONLY <3>1
    <3>2. ASSUME NEW e \in 1..MaxEvents, item = <<e>> PROVE Len(item) \in Nat
      BY ONLY <3>2
    <3>3. QED BY <1>1, <3>1, <3>2 DEF TypeOK
  <2>3. Len(sink_queue) \in Nat
    BY ONLY <1>1
  <2>4. InSink \in Nat
    BY ONLY <2>2, <2>3 DEF InSink
  <2>5. Counted \in Nat
    BY ONLY <1>1 DEF Counted
  <2>6. QED BY ONLY <2>1, <2>4, <2>5
<1>3. ctl # "killed" => owed = Counted + InCall + InSink
  BY DEF DropsAccounted, Alive
<1>4. ASSUME UNCHANGED <<owed, written, qpc, sink_queue, item>>, ctl # "killed",
             m_stats'.events_received = m_stats.events_received,
             m_stats'.events_dropped = m_stats.events_dropped
      PROVE  owed' = Counted' + InCall' + InSink'
  BY <1>3, <1>4 DEF InCall, InSink
<1>5. ASSUME Count("events_received") \/ Count("events_dropped")
      PROVE  m_stats'.events_received + m_stats'.events_dropped
               = m_stats.events_received + m_stats.events_dropped + 1
  <2>1. CASE Count("events_received")
    BY <1>1, <2>1 DEF Count, ZeroStats
  <2>2. CASE Count("events_dropped")
    BY <1>1, <2>2 DEF Count, ZeroStats
  <2>3. QED BY <1>5, <2>1, <2>2
<1>6. ASSUME Count("events_received") \/ Count("events_dropped"), UNCHANGED written
       PROVE  Counted' = Counted + 1
  <2>1. m_stats'.events_received + m_stats'.events_dropped
          = m_stats.events_received + m_stats.events_dropped + 1
    BY <1>5, <1>6
  <2>2. QED BY <1>1, <1>6, <2>1
<1>7. ASSUME StatsReset, UNCHANGED <<qpc, sink_queue, item>>
      PROVE  owed' = Counted' + InCall' + InSink'
  <2>1. InCall' = InCall /\ InSink' = InSink /\ owed' = InCall + InSink /\ Counted' = 0
    BY <1>7 DEF InCall, InSink, StatsReset, ZeroStats
  <2>2. QED BY <1>2, <2>1
<1>8. (\E url \in BOOLEAN : InitForwarder(url)) \/ ResetStats
      => owed' = Counted' + InCall' + InSink'
  BY <1>7 DEF InitForwarder, ResetStats, sink, threads
<1>9. DeInit \/ SpuriousWakeup \/ (ApiCall /\ ~ResetStats) \/ UNCHANGED vars
      => owed' = Counted' + InCall' + InSink'
  <2>1. UNCHANGED vars => ctl # "killed"
    BY DEF vars, threads
  <2>2. SpuriousWakeup => ctl # "killed"
    BY DEF SpuriousWakeup
  <2>3. RestartSink => FALSE
    BY DEF RestartSink, Killed
  <2>4. QED
    BY <1>4, <2>1, <2>2, <2>3
       DEF DeInit, DeInitUnregister, DeInitStopWorker, DeInitNotifyWorker, DeInitStopSink,
           DeInitNotifySink, DeInitClose, SpuriousWakeup, ApiCall, Api, SetEnabled,
           SetSocUrl, SetLocalSinkPath, StartSink, StopSink, vars, threads, sink, ghosts
<1>10. CASE QsevDisabled \/ QsevEnabled
  <2>1. ctl # "killed" /\ owed' = owed + 1 /\ UNCHANGED <<written, sink_queue, item>>
    BY <1>10 DEF QsevDisabled, QsevEnabled, QsevStep, TypedPlaces, Places, threads, sink
  <2>2. CASE QsevDisabled
    <3>1. Counted' = Counted + 1 /\ UNCHANGED qpc
      BY <1>6, <2>1, <2>2 DEF QsevDisabled, threads
    <3>2. QED BY <1>2, <1>3, <2>1, <3>1 DEF InCall, InSink
  <2>3. CASE QsevEnabled
    <3>1. Counted' = Counted /\ InCall' = InCall + 1
      BY <2>1, <2>3 DEF QsevEnabled, QsevStep, InCall
    <3>2. QED BY <1>2, <1>3, <2>1, <3>1 DEF InSink
  <2>4. QED BY <1>10, <2>2, <2>3
<1>11. CASE OnQsev
  <2>1. ctl # "killed" /\ UNCHANGED <<written, item>>
    BY <1>11 DEF OnQsev, QsevDropped, QsevPush, QsevNoSink, QsevSeesSink, QsevTee,
                 QsevTeeDropped, QsevCount, QsevNotify, QsevStep, TypedPlaces, Places,
                 sink, ghosts
  <2>2. CASE QsevDropped
    <3>1. /\ Counted' = Counted + 1 /\ UNCHANGED <<owed, sink_queue>>
          /\ InCall = 1 /\ InCall' = 0
      BY <1>6, <2>1, <2>2 DEF QsevDropped, QsevStep, InCall, sink, ghosts
    <3>2. QED BY <1>2, <1>3, <2>1, <3>1 DEF InSink
  <2>3. CASE QsevPush \/ QsevNoSink \/ QsevNotify
    <3>1. Counted' = Counted /\ InCall' = InCall /\ UNCHANGED <<owed, sink_queue>>
      BY <2>1, <2>3 DEF QsevPush, QsevNoSink, QsevNotify, QsevStep, InCall, sink, ghosts
    <3>2. QED BY <1>3, <2>1, <3>1 DEF InSink
  <2>4. CASE QsevSeesSink
    <3>1. /\ Counted' = Counted /\ owed' = owed + 1 /\ UNCHANGED sink_queue
          /\ InCall' = InCall + 1
      BY <2>1, <2>4 DEF QsevSeesSink, QsevStep, InCall, sink
    <3>2. QED BY <1>2, <1>3, <2>1, <3>1 DEF InSink
  <2>5. CASE QsevTee
    <3>1. /\ Counted' = Counted /\ UNCHANGED owed /\ InCall = 2 /\ InCall' = 1
          /\ sink_queue' = Append(sink_queue, issued)
          /\ UNCHANGED m_stats
      BY <2>1, <2>5 DEF QsevTee, QsevStep, InCall, ghosts
    <3>2. issued \in 1..MaxEvents
      BY <1>1, <2>5 DEF QsevTee, QsevStep, TypedPlaces, Places
    <3>3. Len(sink_queue') = Len(sink_queue) + 1 /\ Len(sink_queue) \in Nat
      BY <1>1, <3>1, <3>2
    <3>4. InSink' = InSink + 1
      BY <1>1, <2>1, <3>3, TailLen DEF InSink
    <3>5. Counted' = Counted
      BY ONLY <3>1, <2>1
    <3>6. owed = Counted + InCall + InSink
      BY <1>3, <2>1
    <3> HIDE DEF Counted
    <3>7. QED BY ONLY <1>2, <3>1, <3>4, <3>5, <3>6
  <2>6. CASE QsevTeeDropped \/ QsevCount
    <3>1. Counted' = Counted + 1 /\ UNCHANGED <<owed, sink_queue>>
      BY <1>6, <2>1, <2>6 DEF QsevTeeDropped, QsevCount, sink, ghosts
    <3>2. InCall' \in Nat /\ InCall = InCall' + 1
      BY <2>6 DEF QsevTeeDropped, QsevCount, QsevStep, InCall
    <3>3. InSink' = InSink /\ owed = Counted + InCall + InSink
      BY <1>3, <2>1, <3>1 DEF InSink
    <3> HIDE DEF Counted
    <3>4. QED BY ONLY <1>2, <3>1, <3>2, <3>3
  <2>7. QED BY ONLY <1>11, <2>2, <2>3, <2>4, <2>5, <2>6 DEF OnQsev
<1>12. CASE Worker
  <2>1. UNCHANGED <<owed, written, qpc, sink_queue, item, ctl>>
    BY <1>12 DEF Worker, WorkerTop, WorkerDrain, WorkerSleep, WorkerBlock, WorkerStop,
                 WorkerBatchDone, WorkerReadUrl, WorkerSkipsHttp, WorkerFinalDrain,
                 WorkerPostRest, WorkerExit, PostSucceeds, PostRetries, PostFails,
                 WorkerMoves, sink
  <2>2. /\ m_stats'.events_received = m_stats.events_received
        /\ m_stats'.events_dropped = m_stats.events_dropped
    BY <1>1, <1>12
       DEF Worker, WorkerTop, WorkerDrain, WorkerSleep, WorkerBlock, WorkerStop,
           WorkerBatchDone, WorkerReadUrl, WorkerSkipsHttp, WorkerFinalDrain,
           WorkerPostRest, WorkerExit, PostSucceeds, PostRetries, PostFails, Count,
           ZeroStats
  <2>3. QED BY <1>4, <2>1, <2>2
<1>13. CASE Sink
  <2>1. UNCHANGED <<owed, qpc, ctl>> /\ InCall' = InCall
    BY <1>13 DEF Sink, SinkTake, SinkSleep, SinkBlock, SinkExit, SinkConnects,
                 SinkConnectFails, SinkWrites, SinkWriteFails, SinkMoves, SinkLoses, InCall
  <2>2. CASE SinkSleep \/ SinkBlock \/ SinkExit \/ SinkConnects
    BY <1>4, <2>1, <2>2 DEF SinkSleep, SinkBlock, SinkExit, SinkConnects, sink
  <2>3. CASE SinkTake
    <3>1. /\ item = <<>> /\ sink_queue # <<>> /\ sink_queue' = Tail(sink_queue)
          /\ item' = <<Head(sink_queue)>> /\ Counted' = Counted
      BY <2>3 DEF SinkTake, TypedPlaces, Holds
    <3>2. Len(item') = 1 /\ Len(item) = 0 /\ Len(sink_queue') = Len(sink_queue) - 1
          /\ Len(sink_queue) \in Nat
      BY <1>1, <3>1, TailLen
    <3>3. QED BY <1>2, <1>3, <2>1, <3>1, <3>2 DEF InSink
  <2>4. CASE SinkConnectFails \/ SinkWrites \/ SinkWriteFails
    <3>1. item # <<>> /\ item' = <<>> /\ UNCHANGED sink_queue
      BY <2>4 DEF SinkConnectFails, SinkWrites, SinkWriteFails, SinkLoses, TypedPlaces, Holds
    <3>2. Len(item') = 0 /\ Len(item) = 1 /\ Len(sink_queue) \in Nat
      BY <1>1, <3>1, TailLen
    <3>3. Counted' = Counted + 1
      BY <1>1, <1>6, <2>4 DEF SinkConnectFails, SinkWrites, SinkWriteFails, SinkLoses
    <3>4. QED BY <1>2, <1>3, <2>1, <3>1, <3>2, <3>3 DEF InSink
  <2>5. QED BY ONLY <1>13, <2>2, <2>3, <2>4 DEF Sink
<1>14. SinkWriteKills => FALSE
  BY DEF SinkWriteKills, Killed
<1>15. CASE Next
  <2> HIDE DEF Counted
  <2>1. QED
    BY ONLY <1>8, <1>9, <1>10, <1>11, <1>12, <1>13, <1>14, <1>15 DEF Next
<1>16. QED BY <1>9, <1>15

\* Whatever OnQsev was called with is counted: what the worker has taken for the SOC
\* (pushed, posted, failed) and every call and every copy for the local socket,
\* over retries, resets of the statistics, stops of the sink, DeInit and Init.
THEOREM EveryEventAccounted == Spec => []Accounting
<1>1. ASSUME Init PROVE HttpAccounting /\ DropsAccounted
  BY <1>1 DEF Init, HttpAccounting, DropsAccounted, ZeroStats, InCall, InSink
<1>2. HttpAccounting /\ DropsAccounted <=> Accounting
  BY DEF Accounting
<1>3. QED
  BY <1>1, <1>2, TypedAlways, HttpStep, DropsStep, PTL DEF Spec

-----------------------------------------------------------------------------
\* The order of the events.

Ordered(s) == \A i, j \in DOMAIN s : i < j => s[i] < s[j]

Numbered(s, n) == s \in Seq(1..n) /\ Ordered(s)

\* The number of the last call whose event may be on its way to the SOC, and of
\* the last one whose copy may be on its way to the local socket.
LastPushed == IF qpc = "in" THEN issued - 1 ELSE issued
LastCopied == IF qpc \in {"in", "pushed", "tee"} THEN issued - 1 ELSE issued

Numbers ==
    /\ Numbered(batch \o event_queue, LastPushed)
    /\ Numbered(item \o sink_queue, LastCopied)

\* A line of events stays in order when one joins it at the end, when the first
\* one leaves it, and when later numbers are allowed.
LEMMA NumberedAppend ==
    ASSUME NEW n \in Nat, NEW s, Numbered(s, n)
    PROVE  Numbered(Append(s, n + 1), n + 1)
<1>1. s \in Seq(1..n) /\ Len(s) \in Nat /\ DOMAIN s = 1..Len(s)
  BY DEF Numbered
<1>2. Append(s, n + 1) \in Seq(1..(n + 1))
  <2>1. s \in Seq(1..(n + 1))
    BY <1>1
  <2>2. QED BY <2>1
<1>3. ASSUME NEW i \in DOMAIN Append(s, n + 1), NEW j \in DOMAIN Append(s, n + 1), i < j
      PROVE  Append(s, n + 1)[i] < Append(s, n + 1)[j]
  <2>1. i \in 1..Len(s) /\ Append(s, n + 1)[i] = s[i] /\ s[i] \in 1..n
    BY <1>1, <1>3
  <2>2. CASE j \in 1..Len(s)
    BY <1>1, <1>3, <2>1, <2>2 DEF Numbered, Ordered
  <2>3. CASE j = Len(s) + 1
    BY <1>1, <2>1, <2>3
  <2>4. QED BY <1>1, <2>2, <2>3
<1>4. QED BY <1>2, <1>3 DEF Numbered, Ordered

LEMMA NumberedTail ==
    ASSUME NEW n \in Nat, NEW s, Numbered(s, n), s # <<>>
    PROVE  Numbered(Tail(s), n)
<1>1. s \in Seq(1..n) /\ Len(s) \in Nat /\ DOMAIN s = 1..Len(s)
  BY DEF Numbered
<1>2. Tail(s) \in Seq(1..n) /\ Len(Tail(s)) = Len(s) - 1
  BY <1>1
<1>3. ASSUME NEW i \in DOMAIN Tail(s), NEW j \in DOMAIN Tail(s), i < j
      PROVE  Tail(s)[i] < Tail(s)[j]
  <2>1. /\ i + 1 \in DOMAIN s /\ j + 1 \in DOMAIN s /\ i + 1 < j + 1
        /\ Tail(s)[i] = s[i + 1] /\ Tail(s)[j] = s[j + 1]
    BY <1>1, <1>2, <1>3
  <2>2. QED BY <2>1 DEF Numbered, Ordered
<1>4. QED BY <1>2, <1>3 DEF Numbered, Ordered

LEMMA NumberedLater ==
    ASSUME NEW n \in Int, NEW m \in Int, n <= m, NEW s, Numbered(s, n)
    PROVE  Numbered(s, m)
<1>1. 1..n \subseteq 1..m
  OBVIOUS
<1>2. s \in Seq(1..m)
  BY <1>1 DEF Numbered
<1>3. QED BY <1>2 DEF Numbered

\* What holds of the two lines in every state.
LEMMA LinesTyped ==
    ASSUME TypedPlaces
    PROVE  /\ event_queue \in Seq(1..MaxEvents) /\ batch \in Seq(1..MaxEvents)
           /\ sink_queue \in Seq(1..MaxEvents) /\ item \in Seq(1..MaxEvents)
           /\ issued \in Nat /\ MaxEvents \in Nat
           /\ qpc \in {"in", "pushed", "tee"} => issued \in 1..MaxEvents
           /\ LastPushed \in Nat /\ LastCopied \in Nat
<1>1. item \in Seq(1..MaxEvents)
  <2>1. CASE item = <<>>
    BY <2>1
  <2>2. ASSUME NEW e \in 1..MaxEvents, item = <<e>> PROVE item \in Seq(1..MaxEvents)
    BY <2>2
  <2>3. QED BY <2>1, <2>2 DEF TypedPlaces, TypeOK
<1>2. QED
  BY <1>1, ForwarderAssumption DEF TypedPlaces, TypeOK, Places, LastPushed, LastCopied

LEMMA HttpNumbered ==
    ASSUME TypedPlaces, Numbered(batch \o event_queue, LastPushed), [Next]_vars
    PROVE  Numbered(batch \o event_queue, LastPushed)'
<1> USE LinesTyped
<1>1. ASSUME UNCHANGED <<batch, event_queue>>, LastPushed' \in Nat, LastPushed <= LastPushed'
      PROVE  Numbered(batch \o event_queue, LastPushed)'
  BY <1>1, NumberedLater
<1>2. ASSUME UNCHANGED <<batch, event_queue, issued>>, qpc' # "in" \/ qpc' = qpc
      PROVE  Numbered(batch \o event_queue, LastPushed)'
  <2>1. LastPushed' \in Nat /\ LastPushed <= LastPushed'
    BY <1>2 DEF LastPushed
  <2>2. QED BY <1>1, <1>2, <2>1
<1>3. CASE (\E url \in BOOLEAN : InitForwarder(url)) \/ DeInit \/ ApiCall
             \/ UNCHANGED vars
  <2>1. UNCHANGED <<batch, event_queue, issued>> /\ (qpc' = qpc \/ qpc' = "killed")
    BY <1>3
       DEF InitForwarder, DeInit, DeInitUnregister, DeInitStopWorker, DeInitNotifyWorker,
           DeInitStopSink, DeInitNotifySink, DeInitClose, ApiCall, SetEnabled, SetSocUrl,
           ResetStats, SetLocalSinkPath, StartSink, RestartSink, StopSink, Killed, vars,
           threads, http, ghosts
  <2>2. QED BY <1>2, <2>1
<1>4. CASE QsevDisabled \/ QsevEnabled
  <2>1. UNCHANGED <<batch, event_queue>> /\ LastPushed' \in {issued, issued + 1}
        /\ LastPushed = issued
    BY <1>4 DEF QsevDisabled, QsevEnabled, QsevStep, LastPushed, threads, http
  <2>2. QED BY <1>1, <2>1
<1>5. CASE OnQsev
  <2>1. CASE QsevPush
    <3>1. LastPushed = issued - 1 /\ LastPushed' = issued
      BY <2>1 DEF QsevPush, QsevStep, LastPushed
    <3>2. batch' \o event_queue' = Append(batch \o event_queue, issued)
      <4>1. /\ batch \in Seq(1..MaxEvents) /\ event_queue \in Seq(1..MaxEvents)
            /\ issued \in 1..MaxEvents
        BY <2>1 DEF QsevPush, QsevStep, TypedPlaces, TypeOK, Places
      <4>2. batch' = batch /\ event_queue' = Append(event_queue, issued)
        BY ONLY <2>1 DEF QsevPush
      <4>3. batch \o Append(event_queue, issued) = Append(batch \o event_queue, issued)
        BY ONLY <4>1, JoinedSequences
      <4>4. QED BY ONLY <4>2, <4>3
    <3>3. Numbered(Append(batch \o event_queue, LastPushed + 1), LastPushed + 1)
      BY NumberedAppend
    <3>4. QED BY <3>1, <3>2, <3>3
  <2>2. CASE QsevDropped
    <3>1. LastPushed = issued - 1 /\ LastPushed' = issued /\ UNCHANGED <<batch, event_queue>>
      BY <2>2 DEF QsevDropped, QsevStep, LastPushed, http, ghosts
    <3>2. QED BY <1>1, <3>1
  <2>3. CASE QsevNoSink \/ QsevSeesSink \/ QsevTee \/ QsevTeeDropped \/ QsevCount \/ QsevNotify
    BY <1>2, <2>3 DEF QsevNoSink, QsevSeesSink, QsevTee, QsevTeeDropped, QsevCount,
                      QsevNotify, QsevStep, http, ghosts
  <2>4. QED BY ONLY <1>5, <2>1, <2>2, <2>3 DEF OnQsev
<1>6. CASE Worker
  <2>1. CASE WorkerTop \/ WorkerSleep \/ WorkerBlock \/ WorkerStop \/ WorkerBatchDone
             \/ WorkerReadUrl \/ WorkerPostRest \/ WorkerExit \/ PostRetries
    <3>1. UNCHANGED <<batch, event_queue, issued, qpc>>
      BY <2>1 DEF WorkerTop, WorkerSleep, WorkerBlock, WorkerStop, WorkerBatchDone,
                  WorkerReadUrl, WorkerPostRest, WorkerExit, PostRetries, WorkerMoves, http
    <3>2. QED BY <1>2, <3>1
  <2>2. CASE WorkerDrain \/ WorkerFinalDrain
    <3>1. batch = <<>> /\ batch' = event_queue /\ event_queue' = <<>>
          /\ UNCHANGED <<qpc, issued>>
      BY <2>2 DEF WorkerDrain, WorkerFinalDrain, TakeQueue, WorkerMoves, TypedPlaces, Holds
    <3>2. batch' \o event_queue' = batch \o event_queue
      BY <3>1
    <3>3. LastPushed' = LastPushed
      BY <3>1 DEF LastPushed
    <3>4. QED BY <3>2, <3>3
  <2>3. CASE WorkerSkipsHttp \/ PostSucceeds \/ PostFails
    <3>1. batch # <<>> /\ batch' = Tail(batch) /\ UNCHANGED <<event_queue, qpc, issued>>
      BY <2>3 DEF WorkerSkipsHttp, PostSucceeds, PostFails, Posting, WorkerMoves,
                  TypedPlaces, Holds
    <3>2. batch \o event_queue # <<>>
          /\ batch' \o event_queue' = Tail(batch \o event_queue)
      BY <3>1, JoinedFront
    <3>3. LastPushed' = LastPushed
      BY <3>1 DEF LastPushed
    <3>4. QED BY <3>2, <3>3, NumberedTail
  <2>4. QED BY ONLY <1>6, <2>1, <2>2, <2>3 DEF Worker
<1>7. CASE Sink \/ SinkWriteKills \/ SpuriousWakeup
  <2>1. UNCHANGED <<batch, event_queue, issued>> /\ (qpc' = qpc \/ qpc' = "killed")
    BY <1>7 DEF Sink, SinkTake, SinkSleep, SinkBlock, SinkExit, SinkConnects,
                SinkConnectFails, SinkWrites, SinkWriteFails, SinkMoves, SinkLoses,
                SinkWriteKills, Killed, SpuriousWakeup, http, ghosts
  <2>2. QED BY <1>2, <2>1
<1>8. QED
  BY ONLY [Next]_vars, <1>3, <1>4, <1>5, <1>6, <1>7 DEF Next

LEMMA SinkNumbered ==
    ASSUME TypedPlaces, Numbered(item \o sink_queue, LastCopied), [Next]_vars
    PROVE  Numbered(item \o sink_queue, LastCopied)'
<1> USE LinesTyped
<1>1. ASSUME UNCHANGED <<item, sink_queue>>, LastCopied' \in Nat, LastCopied <= LastCopied'
      PROVE  Numbered(item \o sink_queue, LastCopied)'
  BY <1>1, NumberedLater
<1>2. ASSUME UNCHANGED <<item, sink_queue, qpc, issued>>
      PROVE  Numbered(item \o sink_queue, LastCopied)'
  BY <1>1, <1>2 DEF LastCopied
<1>3. CASE (\E url \in BOOLEAN : InitForwarder(url)) \/ DeInit \/ UNCHANGED vars
             \/ SpuriousWakeup \/ Worker
  <2>1. UNCHANGED <<item, sink_queue, qpc, issued>>
    BY <1>3
       DEF InitForwarder, DeInit, DeInitUnregister, DeInitStopWorker, DeInitNotifyWorker,
           DeInitStopSink, DeInitNotifySink, DeInitClose, SpuriousWakeup, Worker, WorkerTop,
           WorkerDrain, WorkerSleep, WorkerBlock, WorkerStop, WorkerBatchDone,
           WorkerReadUrl, WorkerSkipsHttp, WorkerFinalDrain, WorkerPostRest, WorkerExit,
           PostSucceeds, PostRetries, PostFails, WorkerMoves, vars, threads, sink, ghosts
  <2>2. QED BY <1>2, <2>1
<1>4. CASE ApiCall /\ ~RestartSink
  BY <1>2, <1>4
     DEF ApiCall, SetEnabled, SetSocUrl, ResetStats, SetLocalSinkPath, StartSink, StopSink,
         threads, sink, ghosts
<1>5. CASE RestartSink \/ SinkWriteKills
  <2>1. UNCHANGED <<item, sink_queue, issued>> /\ LastCopied' = issued
        /\ LastCopied <= issued
    BY <1>5 DEF RestartSink, SinkWriteKills, Killed, LastCopied, sink, ghosts
  <2>2. QED BY <1>1, <2>1
<1>6. CASE QsevDisabled \/ QsevEnabled
  <2>1. /\ UNCHANGED <<item, sink_queue>> /\ issued' = issued + 1
        /\ qpc = "out" /\ qpc' \in {"out", "in"}
    BY <1>6 DEF QsevDisabled, QsevEnabled, QsevStep, threads, sink
  <2>2. LastCopied = issued /\ LastCopied' \in {issued, issued + 1}
    BY <2>1 DEF LastCopied
  <2>3. QED BY <1>1, <2>1, <2>2
<1>7. CASE OnQsev
  <2>1. CASE QsevTee
    <3>1. LastCopied = issued - 1 /\ LastCopied' = issued
      BY <2>1 DEF QsevTee, QsevStep, LastCopied, ghosts
    <3>2. item' \o sink_queue' = Append(item \o sink_queue, issued)
      <4>1. /\ item \in Seq(1..MaxEvents) /\ sink_queue \in Seq(1..MaxEvents)
            /\ issued \in 1..MaxEvents
        BY <2>1, LinesTyped DEF QsevTee, QsevStep, TypedPlaces, TypeOK, Places
      <4>2. item' = item /\ sink_queue' = Append(sink_queue, issued)
        BY ONLY <2>1 DEF QsevTee
      <4>3. item \o Append(sink_queue, issued) = Append(item \o sink_queue, issued)
        BY ONLY <4>1, JoinedSequences
      <4>4. QED BY ONLY <4>2, <4>3
    <3>3. Numbered(Append(item \o sink_queue, LastCopied + 1), LastCopied + 1)
      BY NumberedAppend
    <3>4. QED BY <3>1, <3>2, <3>3
  <2>2. CASE QsevDropped \/ QsevPush \/ QsevNoSink \/ QsevSeesSink \/ QsevTeeDropped
             \/ QsevCount \/ QsevNotify
    <3>1. UNCHANGED <<item, sink_queue, issued>>
      BY <2>2 DEF QsevDropped, QsevPush, QsevNoSink, QsevSeesSink, QsevTeeDropped,
                  QsevCount, QsevNotify, sink, ghosts
    <3>2. LastCopied' \in Nat /\ LastCopied <= LastCopied'
      BY <2>2, <3>1 DEF QsevDropped, QsevPush, QsevNoSink, QsevSeesSink, QsevTeeDropped,
                        QsevCount, QsevNotify, QsevStep, LastCopied
    <3>3. QED BY <1>1, <3>1, <3>2
  <2>3. QED BY ONLY <1>7, <2>1, <2>2 DEF OnQsev
<1>8. CASE Sink
  <2>1. UNCHANGED <<qpc, issued>> /\ LastCopied' = LastCopied
    BY <1>8 DEF Sink, SinkTake, SinkSleep, SinkBlock, SinkExit, SinkConnects,
                SinkConnectFails, SinkWrites, SinkWriteFails, SinkMoves, SinkLoses, LastCopied
  <2>2. CASE SinkSleep \/ SinkBlock \/ SinkExit \/ SinkConnects
    BY <1>2, <2>1, <2>2 DEF SinkSleep, SinkBlock, SinkExit, SinkConnects, sink
  <2>3. CASE SinkTake
    <3>1. item = <<>> /\ item' = <<Head(sink_queue)>> /\ sink_queue' = Tail(sink_queue)
          /\ sink_queue # <<>>
      BY <2>3 DEF SinkTake, TypedPlaces, Holds
    <3>2. item' \o sink_queue' = item \o sink_queue
      BY <3>1
    <3>3. QED BY <2>1, <3>2
  <2>4. CASE SinkConnectFails \/ SinkWrites \/ SinkWriteFails
    <3>1. item # <<>> /\ item' = <<>> /\ UNCHANGED sink_queue
      BY <2>4 DEF SinkConnectFails, SinkWrites, SinkWriteFails, SinkLoses, TypedPlaces, Holds
    <3>2. item \in {<<e>> : e \in 1..MaxEvents}
      BY <3>1 DEF TypedPlaces, TypeOK
    <3>3. Tail(item) = <<>>
      <4>1. ASSUME NEW e \in 1..MaxEvents, item = <<e>> PROVE Tail(item) = <<>>
        BY <4>1
      <4>2. QED BY <3>2, <4>1
    <3>4. item \o sink_queue # <<>> /\ Tail(item \o sink_queue) = <<>> \o sink_queue
      BY <3>1, <3>3, JoinedFront
    <3>5. QED BY <2>1, <3>1, <3>4, NumberedTail
  <2>5. QED BY ONLY <1>8, <2>2, <2>3, <2>4 DEF Sink
<1>9. QED
  BY ONLY [Next]_vars, <1>3, <1>4, <1>5, <1>6, <1>7, <1>8 DEF Next

\* Both ways keep the order of the OnQsev calls: the worker takes the whole queue
\* and posts from its front, the sink thread takes one event at a time, and neither
\* puts back what it could not deliver.
THEOREM OrderKept == Spec => []InOrder
<1>1. Init => Numbers
  <2>1. <<>> \o <<>> \in Seq(1..0) /\ <<>> \o <<>> = <<>>
    OBVIOUS
  <2>2. QED
    BY <2>1 DEF Init, Numbers, Numbered, Ordered, LastPushed, LastCopied
<1>2. TypedPlaces /\ Numbers /\ [Next]_vars => Numbers'
  BY HttpNumbered, SinkNumbered DEF Numbers
<1>3. Numbers => InOrder
  BY DEF Numbers, Numbered, Ordered, InOrder
<1>4. QED
  BY <1>1, <1>2, <1>3, TypedAlways, PTL DEF Spec
=============================================================================
