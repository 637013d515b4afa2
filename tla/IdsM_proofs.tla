---------------------------- MODULE IdsM_proofs ----------------------------
(***************************************************************************)
(* Proofs about the IdsM engine, for every set of SEvs, configurations,    *)
(* callers and bounds that satisfy the assumptions of IdsM.tla: the types, *)
(* the windows and the counters first, then the way of events through the  *)
(* engine, their order, and that no occurrence is qualified which was not  *)
(* reported.                                                               *)
(***************************************************************************)
EXTENDS IdsM, SequenceLemmas, FiniteSetTheorems, TLAPS

-----------------------------------------------------------------------------
\* The filter chain keeps the runtime state of a SEv in its type.

LEMMA FreshType ==
    ASSUME NEW cfg \in SevConfig
    PROVE  FreshSev(cfg) \in SevState
BY DEF FreshSev, SevState, SevConfig, NoAggregate

LEMMA NthType ==
    ASSUME NEW cfg \in SevConfig, NEW st \in SevState, NEW n \in Nat
    PROVE  /\ AfterNth(cfg, st, n) \in SevState
           /\ AfterNth(cfg, st, n).pending_count = st.pending_count
           /\ AfterNth(cfg, st, n).agg_pending = st.agg_pending
<1>1. CASE cfg.forward_every_nth = 0
  BY <1>1 DEF AfterNth, SevState
<1>2. CASE cfg.forward_every_nth # 0 /\ NthPasses(cfg, st, n)
  BY <1>2 DEF AfterNth, SevState
<1>3. CASE cfg.forward_every_nth # 0 /\ ~NthPasses(cfg, st, n)
  BY <1>3 DEF AfterNth, SevState
<1>4. QED BY <1>1, <1>2, <1>3

LEMMA AggregationType ==
    ASSUME NEW st \in SevState, NEW n \in Nat, n # 0, NEW t \in Nat
    PROVE  /\ AfterAggregation(st, n, t) \in SevState
           /\ AfterAggregation(st, n, t).pending_count = st.pending_count
<1>1. CountMax \in Nat
  BY FilterAssumption
<1>2. CASE st.agg_pending = NoAggregate
  BY <1>2 DEF AfterAggregation, SevState
<1>3. CASE st.agg_pending # NoAggregate
  BY <1>1, <1>3 DEF AfterAggregation, SevState, Saturate
<1>4. QED BY <1>2, <1>3

LEMMA ThresholdType ==
    ASSUME NEW cfg \in SevConfig, NEW st \in SevState, NEW n \in Nat, NEW t \in Nat
    PROVE  /\ AfterThreshold(cfg, st, n, t) \in SevState
           /\ AfterThreshold(cfg, st, n, t).pending_count = st.pending_count
           /\ AfterThreshold(cfg, st, n, t).agg_pending = st.agg_pending
<1>1. ThrTotal(st, n) \in Nat
  BY DEF ThrTotal, SevState
<1>2. CASE cfg.threshold = 0
  BY <1>2 DEF AfterThreshold
<1>3. CASE cfg.threshold # 0 /\ st.thr_window_open
  BY <1>1, <1>3 DEF AfterThreshold, SevState
<1>4. CASE cfg.threshold # 0 /\ ~st.thr_window_open
  BY <1>1, <1>4 DEF AfterThreshold, SevState
<1>5. QED BY <1>2, <1>3, <1>4

LEMMA ReleaseType ==
    ASSUME NEW cfg \in SevConfig, NEW st \in SevState, NEW t \in Nat
    PROVE  /\ AfterRelease(cfg, st, t) \in SevState
           /\ AfterRelease(cfg, st, t).pending_count = st.pending_count
           /\ AfterRelease(cfg, st, t).agg_pending = NoAggregate
<1> DEFINE st0 == [st EXCEPT !.agg_pending = NoAggregate]
<1>1. /\ st0 \in SevState /\ st.agg_pending \in Nat
      /\ st0.pending_count = st.pending_count /\ st0.agg_pending = NoAggregate
  BY DEF SevState, NoAggregate
<1>2. AfterRelease(cfg, st, t) = AfterThreshold(cfg, st0, st.agg_pending, t)
  BY DEF AfterRelease
<1>3. /\ AfterThreshold(cfg, st0, st.agg_pending, t) \in SevState
      /\ AfterThreshold(cfg, st0, st.agg_pending, t).pending_count = st0.pending_count
      /\ AfterThreshold(cfg, st0, st.agg_pending, t).agg_pending = st0.agg_pending
  <2> HIDE DEF st0
  <2> QED BY <1>1, ThresholdType
<1>4. QED
  BY <1>1, <1>2, <1>3

LEMMA ExpiryType ==
    ASSUME NEW cfg \in SevConfig, NEW st \in SevState, NEW t \in Nat
    PROVE  /\ AfterExpiry(cfg, st, t) \in SevState
           /\ AfterExpiry(cfg, st, t).pending_count = st.pending_count
           /\ AfterExpiry(cfg, st, t).agg_pending =
                IF AggDue(cfg, st, t) THEN NoAggregate ELSE st.agg_pending
<1>1. CASE AggDue(cfg, st, t)
  <2>1. AfterExpiry(cfg, st, t) = AfterRelease(cfg, st, t)
    BY <1>1 DEF AfterExpiry
  <2>2. /\ AfterRelease(cfg, st, t) \in SevState
        /\ AfterRelease(cfg, st, t).pending_count = st.pending_count
        /\ AfterRelease(cfg, st, t).agg_pending = NoAggregate
    BY ReleaseType
  <2>3. QED BY <1>1, <2>1, <2>2
<1>2. CASE ~AggDue(cfg, st, t) /\ ThrDue(cfg, st, t)
  <2>1. AfterExpiry(cfg, st, t) =
          [st EXCEPT !.thr_window_open = FALSE, !.thr_accumulated = 0]
    BY <1>2 DEF AfterExpiry
  <2>2. /\ AfterExpiry(cfg, st, t) \in SevState
        /\ AfterExpiry(cfg, st, t).pending_count = st.pending_count
        /\ AfterExpiry(cfg, st, t).agg_pending = st.agg_pending
    <3> DEFINE closed == [st EXCEPT !.thr_window_open = FALSE, !.thr_accumulated = 0]
    <3>1. closed \in SevState
      BY DEF SevState
    <3>2. closed.pending_count = st.pending_count /\ closed.agg_pending = st.agg_pending
      BY DEF SevState
    <3>3. QED BY <2>1, <3>1, <3>2
  <2>3. QED BY <1>2, <2>2
<1>3. CASE ~AggDue(cfg, st, t) /\ ~ThrDue(cfg, st, t)
  <2>1. AfterExpiry(cfg, st, t) = st
    BY <1>3 DEF AfterExpiry
  <2>2. QED BY <1>3, <2>1
<1>4. QED BY <1>1, <1>2, <1>3

-----------------------------------------------------------------------------
\* What dispatching and releasing do to the counters.

LEMMA SevSubset ==
    ASSUME NEW S, S \subseteq Sev
    PROVE  IsFiniteSet(S) /\ Cardinality(S) \in Nat
BY EngineAssumption, FS_Subset, FS_CardinalityType

\* dispatchQsev for the SEvs of S counts each as qualified once and leaves the
\* counters of the filters alone.
LEMMA DispatchStats ==
    ASSUME TypeOK, NEW S, S \subseteq DOMAIN sevs
    PROVE  /\ AfterDispatch(S) \in Stats
           /\ AfterDispatch(S).events_qualified = stats.events_qualified + Cardinality(S)
           /\ \A f \in {"events_reported", "dropped_reporting_off",
                        "dropped_block_state", "dropped_sampling",
                        "dropped_threshold"} : AfterDispatch(S)[f] = stats[f]
<1> DEFINE D == {s \in S : dem_cb /\ config[s].sink_to_dem}
           I == {s \in S : idsr_cb /\ config[s].sink_to_idsr}
<1>1. Cardinality(S) \in Nat /\ Cardinality(D) \in Nat /\ Cardinality(I) \in Nat
  <2>1. S \subseteq Sev /\ D \subseteq Sev /\ I \subseteq Sev
    BY DEF TypeOK
  <2>2. QED BY <2>1, SevSubset
<1>3. stats \in Stats
  BY DEF TypeOK
<1>2. AfterDispatch(S) =
        [stats EXCEPT !.events_qualified = stats.events_qualified + Cardinality(S),
                      !.sent_to_dem = stats.sent_to_dem + Cardinality(D),
                      !.sent_to_idsr = stats.sent_to_idsr + Cardinality(I)]
  BY <1>3 DEF AfterDispatch, Stats
<1>4. DOMAIN stats = {"events_reported", "dropped_reporting_off",
                     "dropped_block_state", "dropped_sampling", "dropped_threshold",
                     "events_qualified", "sent_to_dem", "sent_to_idsr"}
  BY <1>3 DEF Stats
<1> HIDE DEF D, I
<1>5. AfterDispatch(S) \in Stats
  <2> DEFINE q == stats.events_qualified + Cardinality(S)
             d == stats.sent_to_dem + Cardinality(D)
             i == stats.sent_to_idsr + Cardinality(I)
  <2>1. q \in Nat /\ d \in Nat /\ i \in Nat
    BY <1>1, <1>3 DEF Stats
  <2>2. AfterDispatch(S) = [stats EXCEPT !.events_qualified = q,
                                         !.sent_to_dem = d, !.sent_to_idsr = i]
    BY <1>2
  <2> HIDE DEF q, d, i
  <2>3. QED BY <1>3, <2>1, <2>2 DEF Stats
<1>6. AfterDispatch(S).events_qualified = stats.events_qualified + Cardinality(S)
  BY <1>2, <1>4
<1>7. ASSUME NEW f \in {"events_reported", "dropped_reporting_off",
                       "dropped_block_state", "dropped_sampling", "dropped_threshold"}
      PROVE  AfterDispatch(S)[f] = stats[f]
  BY <1>2, <1>4
<1>8. QED
  BY <1>5, <1>6, <1>7

LEMMA ReleaseCounts ==
    ASSUME TypeOK, NEW S, S \subseteq DOMAIN sevs, Release(S)
    PROVE  \E n \in Nat :
             /\ stats' \in Stats
             /\ stats'.events_qualified = stats.events_qualified + n
             /\ \A f \in {"events_reported", "dropped_reporting_off",
                          "dropped_block_state", "dropped_sampling",
                          "dropped_threshold"} : stats'[f] = stats[f]
             /\ tally' = [tally EXCEPT !.released = @ + n]
             /\ qualified' \in [Sev -> Nat]
<1> DEFINE passed == {s \in S : ThrPasses(config[s], sevs[s], sevs[s].agg_pending)}
<1>1. /\ stats' = AfterDispatch(passed)
      /\ tally' = [tally EXCEPT !.released = @ + Cardinality(passed)]
      /\ qualified' = [s \in Sev |-> qualified[s] +
                          IF s \in passed THEN sevs[s].agg_pending ELSE 0]
  BY DEF Release
<1>2. passed \subseteq DOMAIN sevs /\ passed \subseteq Sev
  BY DEF TypeOK
<1>3. Cardinality(passed) \in Nat
  BY <1>2, SevSubset
<1>4. \A s \in passed : sevs[s].agg_pending \in Nat
  BY <1>2 DEF TypeOK, SevState
<1>5. qualified' \in [Sev -> Nat]
  <2> HIDE DEF passed
  <2>1. \A s \in Sev : qualified[s] \in Nat
    BY DEF TypeOK
  <2>2. QED BY <1>1, <1>4, <2>1
<1> HIDE DEF passed
<1>6. QED
  BY <1>1, <1>2, <1>3, <1>5, DispatchStats

-----------------------------------------------------------------------------
\* Type correctness.

\* expireWindows, on all SEvs at once.
LEMMA ExpireTypes ==
    ASSUME TypeOK, ExpireWindows
    PROVE  /\ DOMAIN sevs' = DOMAIN sevs
           /\ sevs' \in [DOMAIN sevs -> SevState]
           /\ stats' \in Stats
           /\ qualified' \in [Sev -> Nat]
           /\ tally' \in Tally
<1>1. Release({s \in DOMAIN sevs : AggDue(config[s], sevs[s], now)})
  BY DEF ExpireWindows
<1>2. PICK n \in Nat : /\ stats' \in Stats
                       /\ tally' = [tally EXCEPT !.released = @ + n]
                       /\ qualified' \in [Sev -> Nat]
  <2> DEFINE due == {s \in DOMAIN sevs : AggDue(config[s], sevs[s], now)}
  <2>1. due \subseteq DOMAIN sevs
    OBVIOUS
  <2> HIDE DEF due
  <2>2. QED BY <1>1, <2>1, ReleaseCounts DEF due
<1>3. \A s \in DOMAIN sevs : AfterExpiry(config[s], sevs[s], now) \in SevState
  BY ExpiryType DEF TypeOK
<1>4. sevs' = [s \in DOMAIN sevs |-> AfterExpiry(config[s], sevs[s], now)]
  BY DEF ExpireWindows
<1>5. tally' \in Tally
  <2>1. tally \in Tally
    BY DEF TypeOK
  <2>2. QED BY <1>2, <2>1 DEF Tally
<1>6. QED BY <1>2, <1>3, <1>4, <1>5

LEMMA QueuedFinite ==
    ASSUME TypeOK, NEW s
    PROVE  IsFiniteSet(QueuedOf(s)) /\ Cardinality(QueuedOf(s)) \in Nat
<1>1. queue \in Seq(Event) /\ Len(queue) \in Nat /\ DOMAIN queue = 1..Len(queue)
  BY DEF TypeOK
<1>2. QueuedOf(s) \subseteq 1..Len(queue)
  BY <1>1 DEF QueuedOf
<1>3. IsFiniteSet(1..Len(queue))
  BY <1>1, FS_Interval
<1>4. QED BY <1>2, <1>3, FS_Subset, FS_CardinalityType

LEMMA DrainTypes ==
    ASSUME TypeOK, Drain
    PROVE  DOMAIN sevs' = DOMAIN sevs /\ sevs' \in [DOMAIN sevs -> SevState]
<1>1. \A s \in DOMAIN sevs : Cardinality(QueuedOf(s)) \in Nat
  BY QueuedFinite
<1>2. \A s \in DOMAIN sevs :
        [sevs[s] EXCEPT !.pending_count =
            IF @ >= Cardinality(QueuedOf(s)) THEN @ - Cardinality(QueuedOf(s)) ELSE 0]
        \in SevState
  <2> SUFFICES ASSUME NEW s \in DOMAIN sevs
               PROVE  [sevs[s] EXCEPT !.pending_count =
                         IF @ >= Cardinality(QueuedOf(s))
                         THEN @ - Cardinality(QueuedOf(s)) ELSE 0] \in SevState
    OBVIOUS
  <2>1. sevs[s] \in SevState
    BY DEF TypeOK
  <2>2. sevs[s].pending_count \in Nat
    BY <2>1 DEF SevState
  <2> DEFINE n == IF sevs[s].pending_count >= Cardinality(QueuedOf(s))
                  THEN sevs[s].pending_count - Cardinality(QueuedOf(s)) ELSE 0
  <2>3. n \in Nat
    BY <1>1, <2>2
  <2>4. [sevs[s] EXCEPT !.pending_count = n] \in SevState
    <3> HIDE DEF n
    <3> QED BY <2>1, <2>3 DEF SevState
  <2>5. QED BY <2>1, <2>4 DEF SevState
<1>3. QED BY <1>2 DEF Drain

LEMMA CountDropStats ==
    ASSUME TypeOK,
           NEW f \in {"dropped_reporting_off", "dropped_block_state",
                      "dropped_sampling", "dropped_threshold"},
           CountDrop(f)
    PROVE  /\ stats' \in Stats
           /\ stats'[f] = stats[f] + 1
           /\ \A g \in (DOMAIN ZeroStats) \ {f} : stats'[g] = stats[g]
<1>1. stats \in Stats /\ stats' = [stats EXCEPT ![f] = stats[f] + 1]
  BY DEF CountDrop, TypeOK
<1>2. stats[f] \in Nat /\ f \in DOMAIN stats /\ DOMAIN ZeroStats = DOMAIN stats
  BY <1>1 DEF Stats, ZeroStats
<1>3. ASSUME NEW k \in Nat
      PROVE  [stats EXCEPT ![f] = k] \in Stats
  <2>1. CASE f = "dropped_reporting_off"
    BY <1>1, <2>1 DEF Stats
  <2>2. CASE f = "dropped_block_state"
    BY <1>1, <2>2 DEF Stats
  <2>3. CASE f = "dropped_sampling"
    BY <1>1, <2>3 DEF Stats
  <2>4. CASE f = "dropped_threshold"
    BY <1>1, <2>4 DEF Stats
  <2>5. QED BY <2>1, <2>2, <2>3, <2>4
<1>4. stats' \in Stats
  <2> DEFINE k == stats[f] + 1
  <2>1. k \in Nat /\ stats' = [stats EXCEPT ![f] = k]
    BY <1>1, <1>2
  <2> HIDE DEF k
  <2>2. QED BY <1>3, <2>1
<1>5. QED
  BY <1>1, <1>2, <1>4

\* processEvent on the first event of the batch.
LEMMA ProcessTypes ==
    ASSUME TypeOK, batch # <<>>, Head(batch).sev \in DOMAIN sevs,
           ProcessEvent(Head(batch))
    PROVE  /\ DOMAIN sevs' = DOMAIN sevs
           /\ sevs' \in [DOMAIN sevs -> SevState]
           /\ stats' \in Stats
           /\ qualified' \in [Sev -> Nat]
           /\ lastDirect' \in Nat
           /\ tally' \in Tally
<1> DEFINE e == Head(batch)
           s == e.sev
<1>1. /\ e \in Event /\ s \in DOMAIN sevs /\ s \in Sev
      /\ e.count \in Nat /\ e.count # 0 /\ e.seq \in Nat
  <2>1. e \in Event
    BY DEF TypeOK
  <2>2. s \in DOMAIN sevs /\ s \in Sev
    BY DEF TypeOK
  <2> HIDE DEF e
  <2>3. e.count \in Nat /\ e.count # 0 /\ e.seq \in Nat
    BY <2>1, FilterAssumption DEF Event
  <2>4. QED BY <2>1, <2>2, <2>3
<1>2. config[s] \in SevConfig /\ sevs[s] \in SevState
  BY <1>1 DEF TypeOK
<1>3. Accepted(sevs[s]) \in SevState
  BY <1>2 DEF Accepted, SevState
<1>4. Counted(e) \in SevState
  BY <1>1, <1>2, <1>3, NthType DEF Counted
<1> HIDE DEF e, s
<1>5. ASSUME NEW f \in {"dropped_reporting_off", "dropped_block_state",
                       "dropped_sampling", "dropped_threshold"}, CountDrop(f)
      PROVE  stats' \in Stats
  BY <1>5, CountDropStats
<1>6. ASSUME NEW st \in SevState, SevAfter(e, st)
      PROVE  DOMAIN sevs' = DOMAIN sevs /\ sevs' \in [DOMAIN sevs -> SevState]
  BY <1>1, <1>6 DEF SevAfter, TypeOK, s
<1>7. ASSUME QualifyEvent(e)
      PROVE  /\ stats' \in Stats /\ qualified' \in [Sev -> Nat]
             /\ lastDirect' \in Nat /\ tally' = tally
  <2>1. stats' \in Stats
    BY <1>1, <1>7, DispatchStats DEF QualifyEvent, s
  <2>2. qualified \in [Sev -> Nat] /\ s \in Sev
    BY <1>1 DEF TypeOK, s
  <2>3. QED BY <1>1, <1>7, <2>1, <2>2 DEF QualifyEvent, s
<1>8. ProcessEvent(e)
  BY DEF e
<1>9. /\ DOMAIN sevs = DOMAIN sevs /\ sevs \in [DOMAIN sevs -> SevState]
      /\ stats \in Stats /\ qualified \in [Sev -> Nat] /\ lastDirect \in Nat
      /\ tally \in Tally
  BY DEF TypeOK
<1>10. CASE DropReportingOff(e)
  BY <1>5, <1>9, <1>10 DEF DropReportingOff
<1>11. CASE QualifyBypassing(e)
  BY <1>3, <1>6, <1>7, <1>9, <1>11 DEF QualifyBypassing, s
<1>12. CASE DropBlocked(e)
  BY <1>3, <1>5, <1>6, <1>9, <1>12 DEF DropBlocked, s
<1>13. CASE DropSampled(e)
  BY <1>4, <1>5, <1>6, <1>9, <1>13 DEF DropSampled
<1>14. CASE Absorb(e)
  <2>1. AfterAggregation(Counted(e), e.count, now) \in SevState
    BY <1>1, <1>4, AggregationType DEF TypeOK
  <2>2. tally' \in Tally
    BY <1>9, <1>14 DEF Absorb, Tally
  <2>3. QED BY <1>6, <1>9, <1>14, <2>1, <2>2 DEF Absorb
<1>15. AfterThreshold(config[e.sev], Counted(e), e.count, now) \in SevState
  BY <1>1, <1>2, <1>4, ThresholdType DEF TypeOK, s
<1>16. CASE DropBelowThreshold(e)
  BY <1>5, <1>6, <1>9, <1>15, <1>16 DEF DropBelowThreshold
<1>17. CASE QualifyFiltered(e)
  BY <1>6, <1>7, <1>9, <1>15, <1>17 DEF QualifyFiltered
<1>18. QED
  BY <1>8, <1>10, <1>11, <1>12, <1>13, <1>14, <1>16, <1>17 DEF ProcessEvent

LEMMA EmptyEvents == <<>> \in Seq(Event)
OBVIOUS

\* One more report pending, one more event reported.
LEMMA PendingType ==
    ASSUME NEW st \in SevState, NEW k \in Nat
    PROVE  [st EXCEPT !.pending_count = k] \in SevState
BY DEF SevState

LEMMA ReportedType ==
    ASSUME NEW st \in Stats, NEW k \in Nat
    PROVE  [st EXCEPT !.events_reported = k] \in Stats
BY DEF Stats

TypedLifecycle == TypeOK /\ Lifecycle

LEMMA TypedInit == Init => TypedLifecycle
<1> SUFFICES ASSUME Init PROVE TypedLifecycle
  OBVIOUS
<1>1. TypeOK
  <2>1. ZeroStats \in Stats
    BY DEF ZeroStats, Stats
  <2>2. DOMAIN NoSevs = {}
    BY DEF NoSevs
  <2>3. NoSevs \in [DOMAIN NoSevs -> SevState] /\ NoSevs \in [DOMAIN NoSevs -> SevConfig]
    BY DEF NoSevs
  <2>4. tally \in Tally /\ stats \in Stats
    BY <2>1 DEF Init, Tally
  <2>5. queue \in Seq(Event) /\ batch \in Seq(Event)
    BY EmptyEvents DEF Init
  <2>6. /\ DOMAIN sevs \subseteq Sev /\ sevs \in [DOMAIN sevs -> SevState]
        /\ config \in [DOMAIN sevs -> SevConfig]
    BY <2>2, <2>3 DEF Init
  <2>7. /\ cpc \in [Callers -> {"idle", "checked", "notify"}]
        /\ reported \in [Sev -> Nat] /\ qualified \in [Sev -> Nat]
    BY DEF Init
  <2>8. QED
    BY <2>4, <2>5, <2>6, <2>7, EngineAssumption DEF Init, TypeOK, WorkerPcs
<1>2. Lifecycle
  BY DEF Init, Lifecycle, NoSevs
<1>3. QED BY <1>1, <1>2 DEF TypedLifecycle

LEMMA TypedStep == TypedLifecycle /\ [Next]_vars => TypedLifecycle'
<1> SUFFICES ASSUME TypeOK, Lifecycle, [Next]_vars PROVE TypeOK' /\ Lifecycle'
  BY DEF TypedLifecycle
<1> USE DEF WorkerPcs
<1>1. ASSUME NEW c \in Configs, InitEngine(c) PROVE TypeOK' /\ Lifecycle'
  <2>1. c.sevs \in [DOMAIN c.sevs -> SevConfig] /\ DOMAIN c.sevs \subseteq Sev
    BY EngineAssumption DEF IsConfig
  <2>2. sevs' \in [DOMAIN sevs' -> SevState] /\ DOMAIN sevs' = DOMAIN c.sevs
    BY <1>1, <2>1, FreshType DEF InitEngine
  <2>3. stats' \in Stats /\ tally' \in Tally
    BY <1>1 DEF InitEngine, ZeroStats, Stats, Tally
  <2>4. TypeOK'
    BY <1>1, <2>1, <2>2, <2>3, EngineAssumption DEF InitEngine, TypeOK
  <2>5. Lifecycle'
    BY <1>1 DEF InitEngine, Lifecycle, TypeOK
  <2>6. QED BY <2>4, <2>5
<1>2. CASE DeInitStop
  BY <1>2 DEF DeInitStop, TypeOK, Lifecycle, ghosts
<1>3. CASE DeInitNotify
  BY <1>3 DEF DeInitNotify, Notify, TypeOK, Lifecycle, ghosts
<1>4. CASE DeInitClear
  <2>1. sevs' \in [DOMAIN sevs' -> SevState] /\ config' \in [DOMAIN sevs' -> SevConfig]
        /\ DOMAIN sevs' = {}
    BY <1>4 DEF DeInitClear, NoSevs
  <2>2. stats' \in Stats /\ tally' \in Tally
    BY <1>4 DEF DeInitClear, ZeroStats, Stats, Tally
  <2>3. TypeOK'
    BY <1>4, <2>1, <2>2, EmptyEvents DEF DeInitClear, TypeOK
  <2>4. Lifecycle'
    BY <1>4, <2>1 DEF DeInitClear, Lifecycle
  <2>5. QED BY <2>3, <2>4
<1>5. ASSUME NEW c \in Callers, ReportCheck(c) PROVE TypeOK' /\ Lifecycle'
  BY <1>5 DEF ReportCheck, TypeOK, Lifecycle, ghosts
<1>6. ASSUME NEW c \in Callers, NEW s \in Sev, ReportUnknown(c, s)
      PROVE TypeOK' /\ Lifecycle'
  BY <1>6 DEF ReportUnknown, TypeOK, Lifecycle, ghosts
<1>7. ASSUME NEW c \in Callers, NEW s \in Sev, NEW n \in Counts, ReportPush(c, s, n)
      PROVE TypeOK' /\ Lifecycle'
  <2> DEFINE count == IF n = 0 THEN 1 ELSE n
             e == [sev |-> s, count |-> count, seq |-> issued + 1]
  <2>1. count \in Nat /\ e \in Event
    BY SMTT(20), EngineAssumption, FilterAssumption DEF Event, TypeOK
  <2>2. /\ queue' = Append(queue, e) /\ s \in DOMAIN sevs
        /\ reported' = [reported EXCEPT ![s] = reported[s] + count]
        /\ sevs' = [sevs EXCEPT ![s].pending_count = @ + 1]
        /\ stats' = [stats EXCEPT !.events_reported = @ + 1]
    BY <1>7 DEF ReportPush
  <2>3. queue' \in Seq(Event) /\ DOMAIN sevs' = DOMAIN sevs
    BY <2>1, <2>2 DEF TypeOK
  <2>4. sevs' \in [DOMAIN sevs -> SevState]
    <3> DEFINE k == sevs[s].pending_count + 1
    <3>1. sevs[s] \in SevState /\ k \in Nat
      BY SMTT(20), <2>2 DEF TypeOK, SevState
    <3>2. sevs' = [sevs EXCEPT ![s] = [sevs[s] EXCEPT !.pending_count = k]]
      BY <2>2 DEF TypeOK
    <3> HIDE DEF k
    <3>3. [sevs[s] EXCEPT !.pending_count = k] \in SevState
      BY <3>1, PendingType
    <3>4. QED BY <2>2, <3>2, <3>3 DEF TypeOK
  <2>5. reported' \in [Sev -> Nat]
    BY <2>1, <2>2 DEF TypeOK
  <2>6. stats' \in Stats
    <3>1. stats \in Stats /\ stats.events_reported + 1 \in Nat
      BY SMTT(20) DEF TypeOK, Stats
    <3>2. stats' = [stats EXCEPT !.events_reported = stats.events_reported + 1]
      BY <2>2, <3>1
    <3>3. QED BY <3>1, <3>2, ReportedType
  <2>7. TypeOK'
    BY SMTT(20), <1>7, <2>3, <2>4, <2>5, <2>6 DEF ReportPush, TypeOK
  <2>8. \A i \in DOMAIN queue' : queue'[i].sev \in DOMAIN sevs'
    <3>1. \A i \in DOMAIN queue' : (i \in DOMAIN queue /\ queue'[i] = queue[i]) \/ queue'[i] = e
      BY <2>2 DEF TypeOK
    <3>2. e.sev = s
      OBVIOUS
    <3>3. QED BY <2>2, <2>3, <3>1, <3>2 DEF Lifecycle
  <2>9. ctl # "down"
    BY <2>2 DEF Lifecycle
  <2>10. Lifecycle'
    BY <1>7, <2>3, <2>8, <2>9 DEF ReportPush, Lifecycle
  <2>11. QED BY <2>7, <2>10
<1>8. ASSUME NEW c \in Callers, ReportNotify(c) PROVE TypeOK' /\ Lifecycle'
  BY <1>8 DEF ReportNotify, Notify, TypeOK, Lifecycle, ghosts
<1>9. CASE WorkerTop
  BY <1>9 DEF WorkerTop, TypeOK, Lifecycle, ghosts
<1>10. ASSUME Drain, wpc \notin {"none", "exited", "batch"} PROVE TypeOK' /\ Lifecycle'
  <2>1. TypeOK'
    <3>1. queue' \in Seq(Event) /\ batch' \in Seq(Event)
      BY <1>10, EmptyEvents DEF Drain, TypeOK
    <3>2. DOMAIN sevs' = DOMAIN sevs /\ sevs' \in [DOMAIN sevs -> SevState]
      BY <1>10, DrainTypes
    <3>3. QED BY <1>10, <3>1, <3>2 DEF Drain, TypeOK, ghosts
  <2>2. Lifecycle'
    BY <1>10, DrainTypes DEF Drain, Lifecycle, TypeOK
  <2>3. QED BY <2>1, <2>2
<1>11. CASE WorkerDrain
  BY <1>10, <1>11 DEF WorkerDrain
<1>12. CASE WorkerResume
  BY <1>10, <1>12 DEF WorkerResume
<1>13. CASE WorkerIdle
  BY <1>13, ExpireTypes DEF WorkerIdle, TypeOK, Lifecycle
<1>14. CASE WorkerTick
  BY <1>14, ExpireTypes DEF WorkerTick, TypeOK, Lifecycle
<1>15. CASE WorkerBlock
  BY <1>15 DEF WorkerBlock, TypeOK, Lifecycle, ghosts
<1>16. CASE SpuriousWakeup
  BY <1>16 DEF SpuriousWakeup, TypeOK, Lifecycle, ghosts
<1>17. CASE WorkerWaitAgain
  BY <1>17 DEF WorkerWaitAgain, TypeOK, Lifecycle, ghosts
<1>18. CASE WorkerStop
  BY <1>18 DEF WorkerStop, TypeOK, Lifecycle, ghosts
<1>19. CASE WorkerProcess
  <2>1. batch # <<>> /\ batch \in Seq(Event) /\ ProcessEvent(Head(batch))
    BY <1>19 DEF WorkerProcess, TypeOK
  <2>2. Head(batch).sev \in DOMAIN sevs
    BY <2>1 DEF Lifecycle
  <2>3. /\ DOMAIN sevs' = DOMAIN sevs
        /\ sevs' \in [DOMAIN sevs -> SevState]
        /\ stats' \in Stats
        /\ qualified' \in [Sev -> Nat]
        /\ lastDirect' \in Nat
        /\ tally' \in Tally
    BY <2>1, <2>2, ProcessTypes
  <2>4. batch' \in Seq(Event)
    BY <1>19, <2>1 DEF WorkerProcess
  <2>5. \A i \in DOMAIN batch' : batch'[i].sev \in DOMAIN sevs'
    <3>1. batch' = Tail(batch)
      BY <1>19 DEF WorkerProcess
    <3>2. \A i \in DOMAIN batch' : i + 1 \in DOMAIN batch /\ batch'[i] = batch[i + 1]
      BY <2>1, <3>1
    <3>3. QED BY <2>3, <3>2 DEF Lifecycle
  <2>6. TypeOK'
    BY <1>19, <2>3, <2>4 DEF WorkerProcess, TypeOK, threads
  <2>7. Lifecycle'
    BY <1>19, <2>3, <2>5 DEF WorkerProcess, Lifecycle, threads
  <2>8. QED BY <2>6, <2>7
<1>20. ASSUME NEW s \in Sev, NEW mode \in Modes, SetReportingMode(s, mode)
       PROVE  TypeOK' /\ Lifecycle'
  <2>1. sevs' \in [DOMAIN sevs -> SevState] /\ DOMAIN sevs' = DOMAIN sevs
    BY <1>20 DEF SetReportingMode, TypeOK, SevState
  <2>2. QED BY SMTT(20), <1>20, <2>1 DEF SetReportingMode, TypeOK, Lifecycle, threads, ghosts
<1>21. ASSUME NEW b \in BlockStates, BswM_StateChanged(b) PROVE TypeOK' /\ Lifecycle'
  BY <1>21 DEF BswM_StateChanged, TypeOK, Lifecycle, threads, ghosts
<1>22. ASSUME NEW s \in Sev, ResetDetectionStatus(s) PROVE TypeOK' /\ Lifecycle'
  <2>1. sevs' \in [DOMAIN sevs -> SevState] /\ DOMAIN sevs' = DOMAIN sevs
    BY <1>22 DEF ResetDetectionStatus, TypeOK, SevState
  <2>2. QED BY SMTT(20), <1>22, <2>1 DEF ResetDetectionStatus, TypeOK, Lifecycle, threads, ghosts
<1>23. ASSUME NEW s \in Sev, FlushEvents(s) PROVE TypeOK' /\ Lifecycle'
  <2>1. AfterRelease(config[s], sevs[s], now) \in SevState
    BY <1>23, ReleaseType DEF FlushEvents, TypeOK
  <2>2. sevs' \in [DOMAIN sevs -> SevState] /\ DOMAIN sevs' = DOMAIN sevs
    BY <1>23, <2>1 DEF FlushEvents, TypeOK
  <2>3. Release({s}) /\ {s} \subseteq DOMAIN sevs
    BY <1>23 DEF FlushEvents
  <2>4. PICK n \in Nat : /\ stats' \in Stats
                         /\ tally' = [tally EXCEPT !.released = @ + n]
                         /\ qualified' \in [Sev -> Nat]
    BY <2>3, ReleaseCounts
  <2>5. tally' \in Tally
    <3>1. tally \in Tally
      BY DEF TypeOK
    <3>2. QED BY <2>4, <3>1 DEF Tally
  <2>6. QED BY <1>23, <2>2, <2>4, <2>5 DEF FlushEvents, TypeOK, Lifecycle, threads
<1>24. ASSUME NEW r \in BOOLEAN, SetDemReportCallback(r) PROVE TypeOK' /\ Lifecycle'
  BY <1>24 DEF SetDemReportCallback, TypeOK, Lifecycle, threads, ghosts
<1>25. ASSUME NEW r \in BOOLEAN, RegisterIdsrSink(r) PROVE TypeOK' /\ Lifecycle'
  BY <1>25 DEF RegisterIdsrSink, TypeOK, Lifecycle, threads, ghosts
<1>26. CASE ResetStats
  <2>1. stats' \in Stats /\ tally' \in Tally
    BY <1>26 DEF ResetStats, ZeroStats, Stats, Tally, TypeOK
  <2>2. QED BY <1>26, <2>1 DEF ResetStats, TypeOK, Lifecycle, threads
<1>27. CASE Tick
  BY <1>27 DEF Tick, TypeOK, Lifecycle, threads, ghosts
<1>28. CASE UNCHANGED vars
  BY <1>28 DEF vars, TypeOK, Lifecycle, threads, ghosts
<1>29. QED
  BY <1>1, <1>2, <1>3, <1>4, <1>5, <1>6, <1>7, <1>8, <1>9, <1>11, <1>12, <1>13,
     <1>14, <1>15, <1>16, <1>17, <1>18, <1>19, <1>20, <1>21, <1>22, <1>23, <1>24,
     <1>25, <1>26, <1>27, <1>28
     DEF Next, Control, Report, WorkerStep, ApiCall

LEMMA TypedAlways == Spec => []TypedLifecycle
BY TypedInit, TypedStep, PTL DEF Spec

\* No step of any thread takes a variable of the engine out of its type: the
\* members of IdsM_Manager, the queue entries and the statistics.
THEOREM TypeCorrect == Spec => []TypeOK
<1>1. TypedLifecycle => TypeOK
  BY DEF TypedLifecycle
<1>2. QED BY <1>1, TypedAlways, PTL

\* Whatever reporters do between the running check and the push, a DeInit that
\* has returned leaves no event and no SEv behind.  Lifecycle is what makes
\* this inductive: a worker that has exited holds no batch.
THEOREM StopLeavesNothing == Spec => []StoppedClean
<1>1. TypedLifecycle => StoppedClean
  <2> SUFFICES ASSUME TypeOK, Lifecycle, ctl = "down"
               PROVE  batch \o queue = <<>> /\ DOMAIN sevs = {}
    BY DEF TypedLifecycle, StoppedClean, InFlight
  <2>1. batch = <<>> /\ queue = <<>> /\ DOMAIN sevs = {}
    BY DEF Lifecycle
  <2>2. QED BY <2>1
<1>2. QED BY <1>1, TypedAlways, PTL

-----------------------------------------------------------------------------
\* The worker never blocks without a timeout on a staged aggregate.

\* Only a SEv with an aggregation interval stages aggregates.
StagedAggregates ==
    \A s \in DOMAIN sevs : sevs[s].agg_pending # NoAggregate => Aggregates(config[s])

\* From the evaluation of wait()'s predicate until the worker has the mutex
\* again nothing is staged: only the worker itself stages.
NothingStagedInWait ==
    wpc \in {"toWait", "wait", "woken"} =>
        \A s \in DOMAIN sevs : sevs[s].agg_pending = NoAggregate

NoSleepInv == StagedAggregates /\ NothingStagedInWait

\* A step that leaves every staged aggregate as it is, or releases it, and does
\* not put the worker to sleep, keeps the invariant.
LEMMA StagedKept ==
    ASSUME NoSleepInv, DOMAIN sevs' = DOMAIN sevs, config' = config,
           \A s \in DOMAIN sevs :
              sevs'[s].agg_pending \in {sevs[s].agg_pending, NoAggregate},
           wpc' \in {"toWait", "wait", "woken"} => wpc \in {"toWait", "wait", "woken"}
    PROVE  NoSleepInv'
BY DEF NoSleepInv, StagedAggregates, NothingStagedInWait

\* expireWindows releases what is due and keeps the rest.
LEMMA ExpiryReleases ==
    ASSUME TypeOK, ExpireWindows
    PROVE  /\ DOMAIN sevs' = DOMAIN sevs
           /\ \A s \in DOMAIN sevs :
                sevs'[s].agg_pending =
                    IF AggDue(config[s], sevs[s], now) THEN NoAggregate
                    ELSE sevs[s].agg_pending
<1>1. sevs' = [s \in DOMAIN sevs |-> AfterExpiry(config[s], sevs[s], now)]
  BY DEF ExpireWindows
<1>2. \A s \in DOMAIN sevs : AfterExpiry(config[s], sevs[s], now).agg_pending =
        IF AggDue(config[s], sevs[s], now) THEN NoAggregate ELSE sevs[s].agg_pending
  <2>1. now \in Nat /\ \A s \in DOMAIN sevs : config[s] \in SevConfig /\ sevs[s] \in SevState
    BY DEF TypeOK
  <2>2. QED BY <2>1, ExpiryType
<1>3. QED BY <1>1, <1>2

\* processEvent stages an aggregate only for a SEv with an interval.
LEMMA ProcessStages ==
    ASSUME TypeOK, StagedAggregates, batch # <<>>, Head(batch).sev \in DOMAIN sevs,
           ProcessEvent(Head(batch)), config' = config
    PROVE  StagedAggregates'
<1> DEFINE e == Head(batch)
           s == e.sev
<1>1. s \in DOMAIN sevs /\ e \in Event /\ config[s] \in SevConfig /\ sevs[s] \in SevState
  BY DEF TypeOK
<1> HIDE DEF e
<1>2. e.count \in Nat
  BY <1>1 DEF Event
<1>3. Accepted(sevs[s]) \in SevState /\ Accepted(sevs[s]).agg_pending = sevs[s].agg_pending
  BY <1>1 DEF Accepted, SevState
<1>4. Counted(e) \in SevState /\ Counted(e).agg_pending = sevs[s].agg_pending
  BY <1>1, <1>2, <1>3, NthType DEF Counted
<1>5. AfterThreshold(config[s], Counted(e), e.count, now).agg_pending =
        sevs[s].agg_pending
  <2>1. now \in Nat
    BY DEF TypeOK
  <2> HIDE DEF s
  <2>2. QED BY <1>1, <1>2, <1>4, <2>1, ThresholdType
<1> HIDE DEF s
<1>6. ASSUME NEW st, st.agg_pending = sevs[s].agg_pending, SevAfter(e, st)
      PROVE  StagedAggregates'
  BY <1>1, <1>6 DEF SevAfter, StagedAggregates, s, TypeOK
<1>7. ASSUME NEW st, Aggregates(config[s]), SevAfter(e, st)
      PROVE  StagedAggregates'
  BY <1>1, <1>7 DEF SevAfter, StagedAggregates, s, TypeOK
<1>8. CASE DropReportingOff(e)
  BY <1>8 DEF DropReportingOff, StagedAggregates
<1>9. CASE QualifyBypassing(e) \/ DropBlocked(e)
  BY <1>3, <1>6, <1>9 DEF QualifyBypassing, DropBlocked, s
<1>10. CASE DropSampled(e)
  BY <1>4, <1>6, <1>10 DEF DropSampled, s
<1>11. CASE Absorb(e)
  BY <1>7, <1>11 DEF Absorb, s
<1>12. CASE DropBelowThreshold(e) \/ QualifyFiltered(e)
  BY <1>5, <1>6, <1>12 DEF DropBelowThreshold, QualifyFiltered, s
<1>13. ProcessEvent(e)
  BY DEF e
<1>14. QED
  BY <1>8, <1>9, <1>10, <1>11, <1>12, <1>13 DEF ProcessEvent

LEMMA NoSleepStep == TypedLifecycle /\ NoSleepInv /\ [Next]_vars => NoSleepInv'
<1> SUFFICES ASSUME TypeOK, Lifecycle, NoSleepInv, [Next]_vars PROVE NoSleepInv'
  BY DEF TypedLifecycle
<1>1. ASSUME NEW c \in Configs, InitEngine(c) PROVE NoSleepInv'
  BY <1>1 DEF InitEngine, FreshSev, NoSleepInv, StagedAggregates, NothingStagedInWait
<1>2. CASE DeInitStop \/ DeInitNotify
  BY <1>2, StagedKept DEF DeInitStop, DeInitNotify, Notify
<1>3. CASE DeInitClear
  BY <1>3 DEF DeInitClear, NoSevs, NoSleepInv, StagedAggregates, NothingStagedInWait
<1>4. ASSUME NEW c \in Callers,
             ReportCheck(c) \/ ReportNotify(c) \/ \E s \in Sev : ReportUnknown(c, s)
      PROVE  NoSleepInv'
  BY <1>4, StagedKept DEF ReportCheck, ReportNotify, ReportUnknown, Notify
<1>5. ASSUME NEW c \in Callers, NEW s \in Sev, NEW n \in Counts, ReportPush(c, s, n)
      PROVE  NoSleepInv'
  <2>1. /\ DOMAIN sevs' = DOMAIN sevs /\ config' = config /\ wpc' = wpc
        /\ \A r \in DOMAIN sevs : sevs'[r].agg_pending = sevs[r].agg_pending
    BY <1>5 DEF ReportPush, TypeOK, SevState
  <2>2. QED BY <2>1, StagedKept
<1>6. CASE WorkerTop \/ WorkerBlock \/ WorkerWaitAgain \/ WorkerStop \/ SpuriousWakeup
  BY <1>6, StagedKept
     DEF WorkerTop, WorkerBlock, WorkerWaitAgain, WorkerStop, SpuriousWakeup
<1>7. CASE WorkerDrain \/ WorkerResume
  <2>1. Drain
    BY <1>7 DEF WorkerDrain, WorkerResume
  <2>2. /\ DOMAIN sevs' = DOMAIN sevs /\ config' = config /\ wpc' = "batch"
        /\ \A r \in DOMAIN sevs : sevs'[r].agg_pending = sevs[r].agg_pending
    BY <2>1 DEF Drain, TypeOK, SevState
  <2>3. QED BY <2>2, StagedKept
<1>8. CASE WorkerIdle
  <2>1. /\ DOMAIN sevs' = DOMAIN sevs /\ config' = config
        /\ \A s \in DOMAIN sevs : sevs'[s].agg_pending =
              IF AggDue(config[s], sevs[s], now) THEN NoAggregate ELSE sevs[s].agg_pending
    BY <1>8, ExpiryReleases DEF WorkerIdle
  <2>2. wpc' = "toWait" => \A s \in DOMAIN sevs : ~LeavesDeadline(config[s], sevs[s], now)
    BY <1>8 DEF WorkerIdle
  <2>3. wpc' = "toWait" => \A s \in DOMAIN sevs : sevs'[s].agg_pending = NoAggregate
    BY <2>1, <2>2 DEF LeavesDeadline, NoSleepInv, StagedAggregates
  <2>4. wpc' \in {"toWait", "timed", "exited"}
    BY <1>8 DEF WorkerIdle
  <2>5. QED
    BY <2>1, <2>3, <2>4 DEF NoSleepInv, StagedAggregates, NothingStagedInWait
<1>9. CASE WorkerTick
  BY <1>9, ExpiryReleases, StagedKept DEF WorkerTick
<1>10. CASE WorkerProcess
  <2>1. /\ batch # <<>> /\ batch \in Seq(Event) /\ ProcessEvent(Head(batch))
        /\ config' = config /\ wpc' = "batch"
    BY <1>10 DEF WorkerProcess, TypeOK, threads
  <2>2. Head(batch).sev \in DOMAIN sevs
    BY <2>1 DEF Lifecycle
  <2>3. QED
    BY <2>1, <2>2, ProcessStages DEF NoSleepInv, NothingStagedInWait
<1>11. ASSUME NEW s \in Sev,
              ResetDetectionStatus(s) \/ \E mode \in Modes : SetReportingMode(s, mode)
       PROVE  NoSleepInv'
  <2>1. CASE ResetDetectionStatus(s)
    <3>1. /\ DOMAIN sevs' = DOMAIN sevs /\ config' = config /\ wpc' = wpc
          /\ \A r \in DOMAIN sevs : sevs'[r].agg_pending = sevs[r].agg_pending
      BY <2>1 DEF ResetDetectionStatus, TypeOK, SevState, threads
    <3>2. QED BY <3>1, StagedKept
  <2>2. ASSUME NEW mode \in Modes, SetReportingMode(s, mode)
        PROVE  NoSleepInv'
    <3>1. /\ DOMAIN sevs' = DOMAIN sevs /\ config' = config /\ wpc' = wpc
          /\ \A r \in DOMAIN sevs : sevs'[r].agg_pending = sevs[r].agg_pending
      BY <2>2 DEF SetReportingMode, TypeOK, SevState, threads
    <3>2. QED BY <3>1, StagedKept
  <2>3. QED BY <1>11, <2>1, <2>2
<1>12. ASSUME NEW s \in Sev, FlushEvents(s) PROVE NoSleepInv'
  <2>1. AfterRelease(config[s], sevs[s], now).agg_pending = NoAggregate
    BY <1>12, ReleaseType DEF FlushEvents, TypeOK
  <2>2. /\ DOMAIN sevs' = DOMAIN sevs /\ config' = config /\ wpc' = wpc
        /\ \A r \in DOMAIN sevs : sevs'[r].agg_pending \in {sevs[r].agg_pending, NoAggregate}
    BY <1>12, <2>1 DEF FlushEvents, TypeOK, threads
  <2>3. QED BY <2>2, StagedKept
<1>13. ASSUME (\E b \in BlockStates : BswM_StateChanged(b))
              \/ (\E r \in BOOLEAN : SetDemReportCallback(r) \/ RegisterIdsrSink(r))
              \/ ResetStats \/ Tick \/ UNCHANGED vars
       PROVE  NoSleepInv'
  BY <1>13, StagedKept
     DEF BswM_StateChanged, SetDemReportCallback, RegisterIdsrSink, ResetStats, Tick,
         vars, threads
<1>14. QED
  BY <1>1, <1>2, <1>3, <1>4, <1>5, <1>6, <1>7, <1>8, <1>9, <1>10, <1>11, <1>12, <1>13
     DEF Next, Control, Report, WorkerStep, ApiCall

\* The bound on the worker's wait covers every staged aggregate: whenever it is
\* in the unbounded wait, expireWindows has left none behind and no other
\* thread can have staged one since.
THEOREM NoStagedSleep == Spec => []NoSleepOnStaged
<1>1. Init => NoSleepInv
  BY DEF Init, NoSevs, NoSleepInv, StagedAggregates, NothingStagedInWait
<1>2. NoSleepInv => NoSleepOnStaged
  BY DEF NoSleepInv, NothingStagedInWait, NoSleepOnStaged
<1>3. QED
  BY <1>1, <1>2, TypedAlways, NoSleepStep, PTL DEF Spec

-----------------------------------------------------------------------------
\* The statistics account for every event.

LEMMA StatsAreNumbers ==
    ASSUME TypeOK
    PROVE  /\ stats.events_reported \in Nat /\ stats.events_qualified \in Nat
           /\ Dropped(stats) \in Nat
           /\ tally.absorbed \in Nat /\ tally.released \in Nat /\ tally.carried \in Nat
           /\ Len(queue) \in Nat /\ Len(batch) \in Nat
<1>1. stats \in Stats /\ tally \in Tally /\ queue \in Seq(Event) /\ batch \in Seq(Event)
  BY DEF TypeOK
<1>2. /\ stats.events_reported \in Nat /\ stats.events_qualified \in Nat
      /\ Dropped(stats) \in Nat
  BY <1>1 DEF Stats, Dropped
<1>3. tally.absorbed \in Nat /\ tally.released \in Nat /\ tally.carried \in Nat
  BY <1>1 DEF Tally
<1>4. QED BY <1>1, <1>2, <1>3

LEMMA NothingCounted ==
    ASSUME Accounting, stats' = stats, tally' = tally, queue' = queue, batch' = batch
    PROVE  Accounting'
BY DEF Accounting

LEMMA FromZero ==
    ASSUME stats' = ZeroStats, queue' = <<>>, batch' = <<>>,
           tally' = [absorbed |-> 0, released |-> 0, carried |-> 0]
    PROVE  Accounting'
BY DEF Accounting, ZeroStats, Dropped

\* Releasing aggregates, by the worker or by FlushEvents.
LEMMA ReleaseAccounted ==
    ASSUME TypeOK, Accounting, NEW S, S \subseteq DOMAIN sevs, Release(S),
           queue' = queue, batch' = batch
    PROVE  Accounting'
<1>1. PICK n \in Nat :
        /\ stats'.events_qualified = stats.events_qualified + n
        /\ \A f \in {"events_reported", "dropped_reporting_off",
                     "dropped_block_state", "dropped_sampling",
                     "dropped_threshold"} : stats'[f] = stats[f]
        /\ tally' = [tally EXCEPT !.released = @ + n]
  BY ReleaseCounts
<1>2. stats'.events_reported = stats.events_reported /\ Dropped(stats') = Dropped(stats)
  BY <1>1 DEF Dropped
<1>3. /\ tally'.released = tally.released + n
      /\ tally'.absorbed = tally.absorbed /\ tally'.carried = tally.carried
  BY <1>1 DEF TypeOK, Tally
<1>4. QED
  BY <1>1, <1>2, <1>3, StatsAreNumbers DEF Accounting

\* processEvent takes one event out of the batch and counts it exactly once.
LEMMA ProcessAccounted ==
    ASSUME TypeOK, Lifecycle, Accounting, WorkerProcess
    PROVE  Accounting'
<1> DEFINE e == Head(batch)
           s == e.sev
<1>1. batch # <<>> /\ batch \in Seq(Event) /\ ProcessEvent(e) /\ s \in DOMAIN sevs
  BY DEF WorkerProcess, TypeOK, Lifecycle
<1>2. Len(batch') = Len(batch) - 1 /\ queue' = queue
  BY <1>1 DEF WorkerProcess
<1>3. s \in Sev
  BY <1>1 DEF TypeOK
<1> HIDE DEF e, s
<1>4. ASSUME NEW f \in {"dropped_reporting_off", "dropped_block_state",
                       "dropped_sampling", "dropped_threshold"},
             CountDrop(f), tally' = tally
      PROVE  Accounting'
  <2>1. stats'[f] = stats[f] + 1 /\ \A g \in (DOMAIN ZeroStats) \ {f} : stats'[g] = stats[g]
    BY <1>4, CountDropStats
  <2>2. DOMAIN ZeroStats =
          {"events_reported", "dropped_reporting_off", "dropped_block_state",
           "dropped_sampling", "dropped_threshold", "events_qualified",
           "sent_to_dem", "sent_to_idsr"}
    BY DEF ZeroStats
  <2>3. stats'.events_reported = stats.events_reported
        /\ stats'.events_qualified = stats.events_qualified
    BY <2>1, <2>2
  <2>4. Dropped(stats') = Dropped(stats) + 1
    <3>1. \A g \in {"dropped_reporting_off", "dropped_block_state",
                    "dropped_sampling", "dropped_threshold"} :
            stats[g] \in Nat /\ stats'[g] = IF g = f THEN stats[g] + 1 ELSE stats[g]
      BY <2>1, <2>2 DEF TypeOK, Stats
    <3>2. CASE f = "dropped_reporting_off"
      BY <3>1, <3>2 DEF Dropped
    <3>3. CASE f = "dropped_block_state"
      BY <3>1, <3>3 DEF Dropped
    <3>4. CASE f = "dropped_sampling"
      BY <3>1, <3>4 DEF Dropped
    <3>5. CASE f = "dropped_threshold"
      BY <3>1, <3>5 DEF Dropped
    <3>6. QED BY <3>2, <3>3, <3>4, <3>5
  <2>5. QED
    BY <1>2, <1>4, <2>3, <2>4, StatsAreNumbers DEF Accounting
<1>5. ASSUME QualifyEvent(e) PROVE Accounting'
  <2>1. Cardinality({s}) = 1
    BY FS_Singleton
  <2>2. /\ stats'.events_qualified = stats.events_qualified + 1
        /\ \A f \in {"events_reported", "dropped_reporting_off",
                     "dropped_block_state", "dropped_sampling",
                     "dropped_threshold"} : stats'[f] = stats[f]
    BY <1>1, <1>5, <2>1, DispatchStats DEF QualifyEvent, s
  <2>3. /\ stats'.events_reported = stats.events_reported
        /\ Dropped(stats') = Dropped(stats)
        /\ tally' = tally
    BY <1>5, <2>2 DEF QualifyEvent, Dropped
  <2>4. QED
    BY SMTT(20), <1>2, <2>2, <2>3, StatsAreNumbers DEF Accounting
<1>6. CASE Absorb(e)
  <2>1. /\ tally'.absorbed = tally.absorbed + 1
        /\ tally'.released = tally.released /\ tally'.carried = tally.carried
        /\ stats' = stats
    BY <1>6 DEF Absorb, TypeOK, Tally
  <2>2. QED
    BY <1>2, <2>1, StatsAreNumbers DEF Accounting
<1>7. CASE DropReportingOff(e) \/ DropBlocked(e) \/ DropSampled(e) \/ DropBelowThreshold(e)
  BY <1>4, <1>7 DEF DropReportingOff, DropBlocked, DropSampled, DropBelowThreshold
<1>8. CASE QualifyBypassing(e) \/ QualifyFiltered(e)
  BY <1>5, <1>8 DEF QualifyBypassing, QualifyFiltered
<1>9. QED
  BY <1>1, <1>6, <1>7, <1>8 DEF ProcessEvent

LEMMA AccountingStep == TypedLifecycle /\ Accounting /\ [Next]_vars => Accounting'
<1> SUFFICES ASSUME TypeOK, Lifecycle, Accounting, [Next]_vars PROVE Accounting'
  BY DEF TypedLifecycle
<1>1. ASSUME NEW c \in Configs, InitEngine(c) PROVE Accounting'
  <2>1. queue = <<>> /\ batch = <<>>
    BY <1>1 DEF InitEngine, Lifecycle
  <2>2. QED BY <1>1, <2>1, FromZero DEF InitEngine
<1>2. CASE DeInitClear
  <2>1. batch = <<>>
    BY <1>2 DEF DeInitClear, Lifecycle
  <2>2. QED BY <1>2, <2>1, FromZero DEF DeInitClear
<1>3. ASSUME NEW c \in Callers, NEW s \in Sev, NEW n \in Counts, ReportPush(c, s, n)
      PROVE  Accounting'
  <2>1. stats'.events_reported = stats.events_reported + 1
        /\ \A f \in {"dropped_reporting_off", "dropped_block_state", "dropped_sampling",
                     "dropped_threshold", "events_qualified"} : stats'[f] = stats[f]
    BY <1>3 DEF ReportPush, TypeOK, Stats
  <2>2. Dropped(stats') = Dropped(stats) /\ stats'.events_qualified = stats.events_qualified
    BY <2>1 DEF Dropped
  <2>3. Len(queue') = Len(queue) + 1 /\ batch' = batch /\ tally' = tally
    <3>1. PICK x : queue' = Append(queue, x)
      BY <1>3 DEF ReportPush
    <3>2. QED BY <1>3, <3>1 DEF ReportPush, TypeOK
  <2>4. Len(queue') + Len(batch') = (Len(queue) + Len(batch)) + 1
    BY <2>3, StatsAreNumbers
  <2>5. stats'.events_reported + tally'.carried
          = (stats.events_reported + tally.carried) + 1
    BY <2>1, <2>3, StatsAreNumbers
  <2>6. QED
    <3> DEFINE n0 == Len(queue) + Len(batch)
               n1 == Len(queue') + Len(batch')
               r0 == stats.events_reported + tally.carried
               r1 == stats'.events_reported + tally'.carried
    <3>1. n0 \in Nat /\ r0 \in Nat /\ n1 = n0 + 1 /\ r1 = r0 + 1
      BY <2>4, <2>5, StatsAreNumbers
    <3>2. r0 = n0 + Dropped(stats) + tally.absorbed
                 + (stats.events_qualified - tally.released)
      BY DEF Accounting
    <3> HIDE DEF n0, n1, r0, r1
    <3>3. r1 = n1 + Dropped(stats') + tally'.absorbed
                 + (stats'.events_qualified - tally'.released)
      BY SMTT(60), <2>2, <2>3, <3>1, <3>2, StatsAreNumbers
    <3>4. QED BY <3>3 DEF Accounting, n1, r1
<1>4. CASE WorkerDrain \/ WorkerResume
  <2>1. Drain /\ batch = <<>>
    BY <1>4 DEF WorkerDrain, WorkerResume, Lifecycle
  <2>2. batch' = queue /\ queue' = <<>> /\ stats' = stats /\ tally' = tally
    BY <2>1 DEF Drain, ghosts
  <2>3. QED
    BY <2>1, <2>2, StatsAreNumbers DEF Accounting
<1>5. CASE WorkerIdle \/ WorkerTick
  <2>1. ExpireWindows /\ queue' = queue /\ batch' = batch
    BY <1>5 DEF WorkerIdle, WorkerTick
  <2> DEFINE due == {s \in DOMAIN sevs : AggDue(config[s], sevs[s], now)}
  <2>2. Release(due) /\ due \subseteq DOMAIN sevs
    BY <2>1 DEF ExpireWindows
  <2> HIDE DEF due
  <2>3. QED BY <2>1, <2>2, ReleaseAccounted
<1>6. CASE WorkerProcess
  BY <1>6, ProcessAccounted
<1>7. ASSUME NEW s \in Sev, FlushEvents(s) PROVE Accounting'
  <2>1. Release({s}) /\ {s} \subseteq DOMAIN sevs /\ queue' = queue /\ batch' = batch
    BY <1>7 DEF FlushEvents
  <2>2. QED BY <2>1, ReleaseAccounted
<1>8. CASE ResetStats
  BY <1>8, StatsAreNumbers DEF ResetStats, Accounting, ZeroStats, Dropped
<1>9. ASSUME NEW c \in Callers,
             ReportCheck(c) \/ ReportNotify(c) \/ \E s \in Sev : ReportUnknown(c, s)
      PROVE  Accounting'
  BY <1>9, NothingCounted DEF ReportCheck, ReportNotify, ReportUnknown, ghosts
<1>10. CASE DeInitStop \/ DeInitNotify
  BY <1>10, NothingCounted DEF DeInitStop, DeInitNotify, ghosts
<1>11. CASE WorkerTop \/ WorkerBlock \/ WorkerWaitAgain \/ WorkerStop \/ SpuriousWakeup
  BY <1>11, NothingCounted
     DEF WorkerTop, WorkerBlock, WorkerWaitAgain, WorkerStop, SpuriousWakeup, ghosts
<1>12. ASSUME NEW s \in Sev,
              ResetDetectionStatus(s) \/ \E mode \in Modes : SetReportingMode(s, mode)
       PROVE  Accounting'
  BY <1>12, NothingCounted DEF ResetDetectionStatus, SetReportingMode, ghosts
<1>13. ASSUME (\E b \in BlockStates : BswM_StateChanged(b))
              \/ (\E r \in BOOLEAN : SetDemReportCallback(r) \/ RegisterIdsrSink(r))
              \/ Tick \/ UNCHANGED vars
       PROVE  Accounting'
  BY <1>13, NothingCounted
     DEF BswM_StateChanged, SetDemReportCallback, RegisterIdsrSink, Tick, vars, ghosts
<1>14. QED
  BY <1>1, <1>2, <1>3, <1>4, <1>5, <1>6, <1>7, <1>8, <1>9, <1>10, <1>11, <1>12, <1>13
     DEF Next, Control, Report, WorkerStep, ApiCall

\* The counters of m_stats account for every event ReportSecurityEvent has
\* accepted, under any interleaving of reporters, worker, FlushEvents and
\* ResetStats, and over restarts.
THEOREM EveryEventAccounted == Spec => []Accounting
<1>1. Init => Accounting
  BY DEF Init, Accounting, ZeroStats, Dropped
<1>2. QED
  BY <1>1, TypedAlways, AccountingStep, PTL DEF Spec

-----------------------------------------------------------------------------
\* pending_count is the number of queue entries.

LEMMA PendingKept ==
    ASSUME PendingMatchesQueue, DOMAIN sevs' = DOMAIN sevs, queue' = queue,
           \A s \in DOMAIN sevs : sevs'[s].pending_count = sevs[s].pending_count
    PROVE  PendingMatchesQueue'
BY DEF PendingMatchesQueue, QueuedOf

LEMMA PendingOfEmpty ==
    ASSUME queue' = <<>>, \A s \in DOMAIN sevs' : sevs'[s].pending_count = 0
    PROVE  PendingMatchesQueue'
<1>1. \A s : QueuedOf(s)' = {}
  BY DEF QueuedOf
<1>2. QED BY <1>1, FS_EmptySet DEF PendingMatchesQueue

\* A push adds one entry, of one SEv.
LEMMA PushCounted ==
    ASSUME TypeOK, NEW e \in Event, queue' = Append(queue, e)
    PROVE  \A s : Cardinality(QueuedOf(s)') =
                  IF s = e.sev THEN Cardinality(QueuedOf(s)) + 1
                  ELSE Cardinality(QueuedOf(s))
<1> DEFINE k == Len(queue) + 1
<1>1. /\ queue \in Seq(Event) /\ k \in Nat /\ DOMAIN queue = 1..Len(queue)
      /\ DOMAIN queue' = DOMAIN queue \cup {k} /\ k \notin DOMAIN queue
      /\ queue'[k] = e /\ \A i \in DOMAIN queue : queue'[i] = queue[i]
  BY DEF TypeOK
<1> HIDE DEF k
<1>2. SUFFICES ASSUME NEW s
               PROVE  Cardinality(QueuedOf(s)') =
                        IF s = e.sev THEN Cardinality(QueuedOf(s)) + 1
                        ELSE Cardinality(QueuedOf(s))
  OBVIOUS
<1>3. CASE s = e.sev
  <2>1. QueuedOf(s)' = QueuedOf(s) \cup {k} /\ k \notin QueuedOf(s)
    BY <1>1, <1>3 DEF QueuedOf
  <2>2. IsFiniteSet(QueuedOf(s))
    BY QueuedFinite
  <2>3. QED BY <1>3, <2>1, <2>2, FS_AddElement
<1>4. CASE s # e.sev
  <2>1. QueuedOf(s)' = QueuedOf(s)
    BY <1>1, <1>4 DEF QueuedOf
  <2>2. QED BY <1>4, <2>1
<1>5. QED BY <1>3, <1>4

\* The filter chain never touches a pending counter.
LEMMA ProcessKeepsPending ==
    ASSUME TypeOK, batch # <<>>, Head(batch).sev \in DOMAIN sevs,
           ProcessEvent(Head(batch))
    PROVE  /\ DOMAIN sevs' = DOMAIN sevs
           /\ \A s \in DOMAIN sevs : sevs'[s].pending_count = sevs[s].pending_count
<1> DEFINE e == Head(batch)
           s == e.sev
<1>1. /\ s \in DOMAIN sevs /\ e \in Event /\ config[s] \in SevConfig
      /\ sevs[s] \in SevState /\ now \in Nat
  BY DEF TypeOK
<1> HIDE DEF e
<1>2. e.count \in Nat /\ e.count # 0
  BY <1>1, FilterAssumption DEF Event
<1>3. /\ Accepted(sevs[s]) \in SevState
      /\ Accepted(sevs[s]).pending_count = sevs[s].pending_count
  BY <1>1 DEF Accepted, SevState
<1>4. Counted(e) \in SevState /\ Counted(e).pending_count = sevs[s].pending_count
  BY <1>1, <1>2, <1>3, NthType DEF Counted
<1> HIDE DEF s
<1>5. AfterThreshold(config[s], Counted(e), e.count, now).pending_count
        = sevs[s].pending_count
  BY <1>1, <1>2, <1>4, ThresholdType
<1>6. AfterAggregation(Counted(e), e.count, now).pending_count = sevs[s].pending_count
  BY <1>1, <1>2, <1>4, AggregationType
<1>7. ASSUME NEW st, st.pending_count = sevs[s].pending_count, SevAfter(e, st)
      PROVE  /\ DOMAIN sevs' = DOMAIN sevs
             /\ \A r \in DOMAIN sevs : sevs'[r].pending_count = sevs[r].pending_count
  BY <1>1, <1>7 DEF SevAfter, s, TypeOK
<1>8. CASE DropReportingOff(e)
  BY <1>8 DEF DropReportingOff
<1>9. CASE QualifyBypassing(e) \/ DropBlocked(e)
  BY <1>3, <1>7, <1>9 DEF QualifyBypassing, DropBlocked, s
<1>10. CASE DropSampled(e)
  BY <1>4, <1>7, <1>10 DEF DropSampled, s
<1>11. CASE Absorb(e)
  BY <1>6, <1>7, <1>11 DEF Absorb, s
<1>12. CASE DropBelowThreshold(e) \/ QualifyFiltered(e)
  BY <1>5, <1>7, <1>12 DEF DropBelowThreshold, QualifyFiltered, s
<1>13. ProcessEvent(e)
  BY DEF e
<1>14. QED
  BY <1>8, <1>9, <1>10, <1>11, <1>12, <1>13 DEF ProcessEvent

LEMMA ExpiryKeepsPending ==
    ASSUME TypeOK, ExpireWindows
    PROVE  /\ DOMAIN sevs' = DOMAIN sevs
           /\ \A s \in DOMAIN sevs : sevs'[s].pending_count = sevs[s].pending_count
<1>1. sevs' = [s \in DOMAIN sevs |-> AfterExpiry(config[s], sevs[s], now)]
  BY DEF ExpireWindows
<1>2. now \in Nat /\ \A s \in DOMAIN sevs : config[s] \in SevConfig /\ sevs[s] \in SevState
  BY DEF TypeOK
<1>3. \A s \in DOMAIN sevs :
        AfterExpiry(config[s], sevs[s], now).pending_count = sevs[s].pending_count
  BY <1>2, ExpiryType
<1>4. QED BY <1>1, <1>3

LEMMA PendingStep ==
    TypedLifecycle /\ PendingMatchesQueue /\ [Next]_vars => PendingMatchesQueue'
<1> SUFFICES ASSUME TypeOK, Lifecycle, PendingMatchesQueue, [Next]_vars
             PROVE  PendingMatchesQueue'
  BY DEF TypedLifecycle
<1>1. ASSUME NEW c \in Configs, InitEngine(c) PROVE PendingMatchesQueue'
  <2>1. queue = <<>>
    BY <1>1 DEF InitEngine, Lifecycle
  <2>2. QED BY <1>1, <2>1, PendingOfEmpty DEF InitEngine, FreshSev
<1>2. CASE DeInitClear
  BY <1>2, PendingOfEmpty DEF DeInitClear, NoSevs
<1>3. ASSUME NEW c \in Callers, NEW s \in Sev, NEW n \in Counts, ReportPush(c, s, n)
      PROVE  PendingMatchesQueue'
  <2> DEFINE e == [sev |-> s, count |-> IF n = 0 THEN 1 ELSE n, seq |-> issued + 1]
  <2>1. e \in Event /\ e.sev = s
    <3>1. (IF n = 0 THEN 1 ELSE n) \in 1..CountMax
      BY EngineAssumption, FilterAssumption
    <3>2. issued + 1 \in Nat \ {0}
      BY DEF TypeOK
    <3>3. QED BY <3>1, <3>2 DEF Event
  <2>2. queue' = Append(queue, e) /\ s \in DOMAIN sevs
    BY <1>3 DEF ReportPush
  <2>3. /\ DOMAIN sevs' = DOMAIN sevs
        /\ \A r \in DOMAIN sevs : sevs'[r].pending_count =
              IF r = s THEN sevs[r].pending_count + 1 ELSE sevs[r].pending_count
    <3>1. sevs' = [sevs EXCEPT ![s].pending_count = @ + 1]
      BY <1>3 DEF ReportPush
    <3>2. \A r \in DOMAIN sevs : "pending_count" \in DOMAIN sevs[r]
      BY DEF TypeOK, SevState
    <3>3. QED BY <2>2, <3>1, <3>2 DEF TypeOK
  <2> HIDE DEF e
  <2>4. \A r : Cardinality(QueuedOf(r)') =
              IF r = s THEN Cardinality(QueuedOf(r)) + 1 ELSE Cardinality(QueuedOf(r))
    BY <2>1, <2>2, PushCounted
  <2>5. QED BY <2>3, <2>4 DEF PendingMatchesQueue
<1>4. CASE WorkerDrain \/ WorkerResume
  <2>1. Drain
    BY <1>4 DEF WorkerDrain, WorkerResume
  <2>2. ASSUME NEW s \in DOMAIN sevs PROVE sevs'[s].pending_count = 0
    <3>1. Cardinality(QueuedOf(s)) \in Nat
          /\ sevs[s].pending_count = Cardinality(QueuedOf(s))
      BY QueuedFinite DEF PendingMatchesQueue
    <3>2. "pending_count" \in DOMAIN sevs[s]
      BY DEF TypeOK, SevState
    <3>3. sevs'[s] = [sevs[s] EXCEPT !.pending_count =
                       IF @ >= Cardinality(QueuedOf(s))
                       THEN @ - Cardinality(QueuedOf(s)) ELSE 0]
      BY <2>1 DEF Drain
    <3>4. QED BY <3>1, <3>2, <3>3
  <2>3. DOMAIN sevs' = DOMAIN sevs /\ queue' = <<>>
    BY <2>1 DEF Drain
  <2>4. QED BY <2>2, <2>3, PendingOfEmpty
<1>5. CASE WorkerIdle \/ WorkerTick
  BY <1>5, ExpiryKeepsPending, PendingKept DEF WorkerIdle, WorkerTick
<1>6. CASE WorkerProcess
  <2>1. batch # <<>> /\ batch \in Seq(Event) /\ ProcessEvent(Head(batch)) /\ queue' = queue
    BY <1>6 DEF WorkerProcess, TypeOK
  <2>2. Head(batch).sev \in DOMAIN sevs
    BY <2>1 DEF Lifecycle
  <2>3. QED BY <2>1, <2>2, ProcessKeepsPending, PendingKept
<1>7. ASSUME NEW s \in Sev, FlushEvents(s) PROVE PendingMatchesQueue'
  <2>1. AfterRelease(config[s], sevs[s], now).pending_count = sevs[s].pending_count
    <3>1. config[s] \in SevConfig /\ sevs[s] \in SevState /\ now \in Nat
      BY <1>7 DEF FlushEvents, TypeOK
    <3>2. QED BY <3>1, ReleaseType
  <2>2. /\ DOMAIN sevs' = DOMAIN sevs /\ queue' = queue
        /\ \A r \in DOMAIN sevs : sevs'[r].pending_count = sevs[r].pending_count
    BY <1>7, <2>1 DEF FlushEvents, TypeOK
  <2>3. QED BY <2>2, PendingKept
<1>8. ASSUME NEW s \in Sev, ResetDetectionStatus(s) PROVE PendingMatchesQueue'
  <2>1. /\ DOMAIN sevs' = DOMAIN sevs /\ queue' = queue
        /\ \A r \in DOMAIN sevs : sevs'[r].pending_count = sevs[r].pending_count
    BY <1>8 DEF ResetDetectionStatus, TypeOK, SevState
  <2>2. QED BY <2>1, PendingKept
<1>9. ASSUME NEW s \in Sev, NEW mode \in Modes, SetReportingMode(s, mode)
      PROVE  PendingMatchesQueue'
  <2>1. /\ DOMAIN sevs' = DOMAIN sevs /\ queue' = queue
        /\ \A r \in DOMAIN sevs : sevs'[r].pending_count = sevs[r].pending_count
    BY <1>9 DEF SetReportingMode, TypeOK, SevState
  <2>2. QED BY <2>1, PendingKept
<1>10. ASSUME NEW c \in Callers,
              ReportCheck(c) \/ ReportNotify(c) \/ \E s \in Sev : ReportUnknown(c, s)
       PROVE  PendingMatchesQueue'
  BY <1>10, PendingKept DEF ReportCheck, ReportNotify, ReportUnknown
<1>11. CASE DeInitStop \/ DeInitNotify
  BY <1>11, PendingKept DEF DeInitStop, DeInitNotify
<1>12. CASE WorkerTop \/ WorkerBlock \/ WorkerWaitAgain \/ WorkerStop \/ SpuriousWakeup
  BY <1>12, PendingKept
     DEF WorkerTop, WorkerBlock, WorkerWaitAgain, WorkerStop, SpuriousWakeup
<1>13. ASSUME (\E b \in BlockStates : BswM_StateChanged(b))
              \/ (\E r \in BOOLEAN : SetDemReportCallback(r) \/ RegisterIdsrSink(r))
              \/ ResetStats \/ Tick \/ UNCHANGED vars
       PROVE  PendingMatchesQueue'
  BY <1>13, PendingKept
     DEF BswM_StateChanged, SetDemReportCallback, RegisterIdsrSink, ResetStats, Tick, vars
<1>14. QED
  BY <1>1, <1>2, <1>3, <1>4, <1>5, <1>6, <1>7, <1>8, <1>9, <1>10, <1>11, <1>12, <1>13
     DEF Next, Control, Report, WorkerStep, ApiCall

\* What reporters add to pending_count is what the drain loop takes away: the
\* clamp at zero in worker_loop never hides a lost count.
THEOREM PendingExact == Spec => []PendingMatchesQueue
<1>1. Init => PendingMatchesQueue
  BY DEF Init, NoSevs, PendingMatchesQueue
<1>2. QED
  BY <1>1, TypedAlways, PendingStep, PTL DEF Spec

-----------------------------------------------------------------------------
\* The order of events.

\* A sequence of events in order, later than low and not later than high.
Ordered(es, low, high) ==
    /\ \A i, j \in DOMAIN es : i < j => es[i].seq < es[j].seq
    /\ \A i \in DOMAIN es : es[i].seq \in low + 1 .. high

LEMMA EventTyped ==
    ASSUME NEW e \in Event
    PROVE  e.seq \in Nat /\ e.count \in Nat /\ e.count # 0 /\ e.sev \in Sev
BY FilterAssumption DEF Event

LEMMA OrderedTail ==
    ASSUME NEW es \in Seq(Event), es # <<>>, NEW low \in Nat, NEW high \in Nat,
           Ordered(es, low, high)
    PROVE  /\ Ordered(Tail(es), low, high)
           /\ Ordered(Tail(es), Head(es).seq, high)
           /\ Head(es).seq \in low + 1 .. high
<1>1. /\ Len(es) \in Nat \ {0} /\ DOMAIN es = 1..Len(es) /\ Head(es) = es[1]
      /\ DOMAIN Tail(es) = 1..(Len(es) - 1)
      /\ \A i \in DOMAIN Tail(es) : Tail(es)[i] = es[i + 1] /\ i + 1 \in DOMAIN es
  OBVIOUS
<1>2. \A i \in DOMAIN es : es[i].seq \in Nat
  BY EventTyped
<1>3. ASSUME NEW i \in DOMAIN Tail(es), NEW j \in DOMAIN Tail(es), i < j
      PROVE  Tail(es)[i].seq < Tail(es)[j].seq
  BY <1>1, <1>3 DEF Ordered
<1>4. ASSUME NEW i \in DOMAIN Tail(es)
      PROVE  Tail(es)[i].seq \in low + 1 .. high /\ Tail(es)[i].seq > es[1].seq
  BY <1>1, <1>2 DEF Ordered
<1>5. 1 \in DOMAIN es /\ es[1].seq \in low + 1 .. high
  BY <1>1 DEF Ordered
<1>6. QED BY <1>1, <1>2, <1>3, <1>4, <1>5 DEF Ordered

LEMMA OrderedAppend ==
    ASSUME NEW es \in Seq(Event), NEW e \in Event, NEW low \in Nat, NEW high \in Nat,
           Ordered(es, low, high), low <= high, e.seq = high + 1
    PROVE  Ordered(Append(es, e), low, high + 1)
<1>1. /\ Len(es) \in Nat /\ DOMAIN es = 1..Len(es)
      /\ DOMAIN Append(es, e) = 1..(Len(es) + 1)
      /\ Append(es, e)[Len(es) + 1] = e
      /\ \A i \in DOMAIN es : Append(es, e)[i] = es[i]
  OBVIOUS
<1>2. \A i \in DOMAIN es : es[i].seq \in low + 1 .. high
  BY DEF Ordered
<1>3. ASSUME NEW i \in DOMAIN Append(es, e), NEW j \in DOMAIN Append(es, e), i < j
      PROVE  Append(es, e)[i].seq < Append(es, e)[j].seq
  <2>1. i \in DOMAIN es
    BY <1>1, <1>3
  <2>2. CASE j \in DOMAIN es
    BY <1>1, <1>3, <2>1, <2>2 DEF Ordered
  <2>3. CASE j = Len(es) + 1
    BY <1>1, <1>2, <2>1, <2>3
  <2>4. QED BY <1>1, <2>2, <2>3
<1>4. ASSUME NEW i \in DOMAIN Append(es, e)
      PROVE  Append(es, e)[i].seq \in low + 1 .. high + 1
  <2>1. CASE i \in DOMAIN es
    BY <1>1, <1>2, <2>1
  <2>2. CASE i = Len(es) + 1
    BY <1>1, <2>2
  <2>3. QED BY <1>1, <2>1, <2>2
<1>5. QED BY <1>3, <1>4 DEF Ordered

\* With nothing in flight the last event that was qualified is the last that was issued,
\* or an earlier one.
OrderInv == InOrder /\ lastDirect <= issued

LEMMA InOrderIsOrdered == InOrder <=> Ordered(InFlight, lastDirect, issued)
BY DEF InOrder, Ordered

LEMMA OrderKept ==
    ASSUME OrderInv, UNCHANGED <<InFlight, lastDirect, issued>>
    PROVE  OrderInv'
BY DEF OrderInv, InOrder

\* What process does to the order: events are qualified as themselves or not at all.
LEMMA ProcessDirect ==
    ASSUME NEW e, ProcessEvent(e)
    PROVE  lastDirect' \in {lastDirect, e.seq}
BY DEF ProcessEvent, DropReportingOff, QualifyBypassing, DropBlocked, DropSampled, Absorb,
       DropBelowThreshold, QualifyFiltered, QualifyEvent

LEMMA OrderStep == TypedLifecycle /\ OrderInv /\ [Next]_vars => OrderInv'
<1> SUFFICES ASSUME TypeOK, Lifecycle, OrderInv, [Next]_vars PROVE OrderInv'
  BY DEF TypedLifecycle
<1>1. /\ queue \in Seq(Event) /\ batch \in Seq(Event) /\ InFlight \in Seq(Event)
      /\ lastDirect \in Nat /\ issued \in Nat
  BY DEF TypeOK, InFlight
<1>2. Ordered(InFlight, lastDirect, issued) /\ lastDirect <= issued
  BY InOrderIsOrdered DEF OrderInv
<1>3. ASSUME InFlight' = <<>>, UNCHANGED <<lastDirect, issued>> PROVE OrderInv'
  BY <1>2, <1>3 DEF OrderInv, InOrder
<1>4. CASE DeInitClear \/ \E c \in Configs : InitEngine(c)
  <2>1. CASE DeInitClear
    BY <1>3, <2>1 DEF DeInitClear, Lifecycle, InFlight
  <2>2. ASSUME NEW c \in Configs, InitEngine(c) PROVE OrderInv'
    BY <2>2, OrderKept DEF InitEngine, InFlight
  <2>3. QED BY <1>4, <2>1, <2>2
<1>5. ASSUME NEW c \in Callers, NEW s \in Sev, NEW n \in Counts, ReportPush(c, s, n)
      PROVE  OrderInv'
  <2> DEFINE e == [sev |-> s, count |-> IF n = 0 THEN 1 ELSE n, seq |-> issued + 1]
  <2>1. e \in Event /\ e.seq = issued + 1
    <3>1. (IF n = 0 THEN 1 ELSE n) \in 1..CountMax
      BY EngineAssumption, FilterAssumption
    <3>2. QED BY <1>1, <3>1 DEF Event
  <2>2. queue' = Append(queue, e) /\ batch' = batch /\ lastDirect' = lastDirect
        /\ issued' = issued + 1
    BY <1>5 DEF ReportPush
  <2> HIDE DEF e
  <2>3. InFlight' = Append(InFlight, e)
    BY <1>1, <2>1, <2>2, JoinedSequences DEF InFlight
  <2>4. Ordered(Append(InFlight, e), lastDirect, issued + 1)
    BY <1>1, <1>2, <2>1, OrderedAppend
  <2>5. lastDirect' <= issued'
    BY <1>1, <1>2, <2>2
  <2>6. QED BY <2>2, <2>3, <2>4, <2>5 DEF OrderInv, InOrder, Ordered
<1>6. CASE WorkerDrain \/ WorkerResume
  <2>1. Drain /\ batch = <<>>
    BY <1>6 DEF WorkerDrain, WorkerResume, Lifecycle
  <2>2. batch' = queue /\ queue' = <<>> /\ UNCHANGED <<lastDirect, issued>>
    BY <2>1 DEF Drain, ghosts
  <2>3. InFlight' = InFlight
    BY <1>1, <2>1, <2>2, JoinedSequences DEF InFlight
  <2>4. QED BY <2>2, <2>3, OrderKept
<1>7. CASE WorkerProcess
  <2>1. batch # <<>> /\ batch' = Tail(batch) /\ UNCHANGED <<queue, issued>>
        /\ ProcessEvent(Head(batch))
    BY <1>7 DEF WorkerProcess
  <2>2. InFlight' = Tail(InFlight) /\ InFlight # <<>> /\ Head(InFlight) = Head(batch)
    BY <1>1, <2>1 DEF InFlight
  <2>3. lastDirect' \in {lastDirect, Head(InFlight).seq}
    BY <2>1, <2>2, ProcessDirect
  <2>4. /\ Ordered(Tail(InFlight), lastDirect, issued)
        /\ Ordered(Tail(InFlight), Head(InFlight).seq, issued)
        /\ Head(InFlight).seq \in lastDirect + 1 .. issued
    BY <1>1, <1>2, <2>2, OrderedTail
  <2>5. Ordered(InFlight', lastDirect', issued') /\ lastDirect' <= issued'
    BY <1>1, <1>2, <2>1, <2>2, <2>3, <2>4
  <2>6. QED BY <2>5 DEF OrderInv, InOrder, Ordered
<1>8. CASE WorkerIdle \/ WorkerTick
  BY <1>8, OrderKept DEF WorkerIdle, WorkerTick, InFlight
<1>9. ASSUME NEW c \in Callers,
             ReportCheck(c) \/ ReportNotify(c) \/ \E s \in Sev : ReportUnknown(c, s)
      PROVE  OrderInv'
  BY <1>9, OrderKept DEF ReportCheck, ReportNotify, ReportUnknown, ghosts, InFlight
<1>10. CASE DeInitStop \/ DeInitNotify
  BY <1>10, OrderKept DEF DeInitStop, DeInitNotify, ghosts, InFlight
<1>11. CASE WorkerTop \/ WorkerBlock \/ WorkerWaitAgain \/ WorkerStop \/ SpuriousWakeup
  BY <1>11, OrderKept
     DEF WorkerTop, WorkerBlock, WorkerWaitAgain, WorkerStop, SpuriousWakeup, ghosts, InFlight
<1>12. CASE ApiCall
  BY <1>12, OrderKept
     DEF ApiCall, SetReportingMode, BswM_StateChanged, ResetDetectionStatus, FlushEvents,
         SetDemReportCallback, RegisterIdsrSink, ResetStats, ghosts, InFlight
<1>13. CASE Tick \/ UNCHANGED vars
  BY <1>13, OrderKept DEF Tick, vars, ghosts, InFlight
<1>14. QED
  BY <1>4, <1>5, <1>6, <1>7, <1>8, <1>9, <1>10, <1>11, <1>12, <1>13
     DEF Next, Control, Report, WorkerStep

\* Events leave the engine in the order in which ReportSecurityEvent took them, over
\* stops and restarts: the worker takes the whole queue at once and works it off
\* from its front (worker_loop).
THEOREM EventsInOrder == Spec => []InOrder
<1>1. Init => OrderInv
  BY DEF Init, OrderInv, InOrder, InFlight
<1>2. OrderInv => InOrder
  BY DEF OrderInv
<1>3. QED BY <1>1, <1>2, TypedAlways, OrderStep, PTL DEF Spec

-----------------------------------------------------------------------------
\* Occurrences.

LEMMA TotalIsSum ==
    ASSUME NEW ns \in Seq(Nat)
    PROVE  \E f : IsSums(f, ns, Len(ns)) /\ Total(ns) = f[Len(ns)]
<1>1. \E f : IsSums(f, ns, Len(ns))
  BY SumsExist DEF NumbersTo
<1>2. QED BY <1>1 DEF Total, IsSums

\* The occurrences of SEv s at each place of a sequence of events.
Parts(es, s) == [i \in DOMAIN es |-> IF es[i].sev = s THEN es[i].count ELSE 0]

LEMMA PartsTyped ==
    ASSUME NEW es \in Seq(Event), NEW s
    PROVE  /\ Parts(es, s) \in Seq(Nat) /\ Len(Parts(es, s)) = Len(es)
           /\ Occurrences(es, s) = Total(Parts(es, s))
           /\ Occurrences(es, s) \in Nat
<1>1. \A i \in DOMAIN es : es[i].count \in Nat
  BY EventTyped
<1>2. Parts(es, s) \in [1..Len(es) -> Nat] /\ Len(es) \in Nat
  BY <1>1 DEF Parts
<1>3. Parts(es, s) \in Seq(Nat) /\ Len(Parts(es, s)) = Len(es)
  BY <1>2
<1>4. Occurrences(es, s) = Total(Parts(es, s))
  BY DEF Occurrences, Parts
<1>5. PICK f : IsSums(f, Parts(es, s), Len(es)) /\ Total(Parts(es, s)) = f[Len(es)]
  BY <1>3, TotalIsSum
<1>6. NumbersTo(Parts(es, s), Len(es))
  BY <1>2 DEF NumbersTo
<1>7. f[Len(es)] \in Nat
  <2>1. \A n \in 0..Len(es) : f[n] \in Nat
    BY <1>2, <1>5, <1>6, SumsFacts
  <2>2. QED BY <1>2, <2>1
<1>8. QED BY <1>3, <1>4, <1>5, <1>7

LEMMA NoOccurrences == \A s : Occurrences(<<>>, s) = 0
<1> SUFFICES ASSUME NEW s PROVE Occurrences(<<>>, s) = 0
  OBVIOUS
<1>1. <<>> \in Seq(Event) /\ Len(<<>>) = 0
  BY EmptyEvents
<1>2. Parts(<<>>, s) \in Seq(Nat) /\ Len(Parts(<<>>, s)) = 0
      /\ Occurrences(<<>>, s) = Total(Parts(<<>>, s))
  BY <1>1, PartsTyped
<1>3. PICK f : IsSums(f, Parts(<<>>, s), 0) /\ Total(Parts(<<>>, s)) = f[0]
  BY <1>2, TotalIsSum
<1>4. f[0] = 0
  BY <1>3 DEF IsSums
<1>5. QED BY <1>2, <1>3, <1>4

LEMMA OccurrencesAppended ==
    ASSUME NEW es \in Seq(Event), NEW e \in Event, NEW s
    PROVE  Occurrences(Append(es, e), s)
             = Occurrences(es, s) + (IF e.sev = s THEN e.count ELSE 0)
<1> DEFINE h == Parts(es, s)
           k == Parts(Append(es, e), s)
           m == Len(es)
<1>1. Append(es, e) \in Seq(Event) /\ Len(Append(es, e)) = m + 1 /\ m \in Nat
  OBVIOUS
<1>2. h \in Seq(Nat) /\ Len(h) = m /\ Occurrences(es, s) = Total(h)
  BY PartsTyped
<1>3. k \in Seq(Nat) /\ Len(k) = m + 1 /\ Occurrences(Append(es, e), s) = Total(k)
  BY <1>1, PartsTyped
<1>4. \A i \in 1..m : h[i] = k[i]
  BY DEF Parts
<1>5. k[m + 1] = IF e.sev = s THEN e.count ELSE 0
  BY DEF Parts
<1> HIDE DEF h, k, m
<1>6. PICK f : IsSums(f, h, m) /\ Total(h) = f[m]
  BY <1>2, TotalIsSum
<1>7. PICK g : IsSums(g, k, m + 1) /\ Total(k) = g[m + 1]
  BY <1>3, TotalIsSum
<1>8. NumbersTo(h, m) /\ NumbersTo(k, m + 1)
  BY <1>1, <1>2, <1>3 DEF NumbersTo
<1>9. g[m + 0] = g[0] + f[m]
  <2>1. Alike(h, k, m, 0)
    BY <1>4 DEF Alike
  <2>2. 0 \in Nat /\ m + 1 \in Nat /\ m <= m /\ m + 0 <= m + 1
    BY <1>1
  <2>3. QED BY ONLY <1>1, <1>6, <1>7, <1>8, <2>1, <2>2, SumsAgree
<1>10. g[0] = 0 /\ g[m + 1] = g[(m + 1) - 1] + k[m + 1]
  <2>1. m + 1 \in Nat /\ m + 1 \in 1..(m + 1)
    BY <1>1
  <2>2. QED BY <1>7, <1>8, <2>1, SumsFacts
<1>11. f[m] \in Nat
  <2>1. m \in 0..m
    BY <1>1
  <2>2. QED BY <1>1, <1>6, <1>8, <2>1, SumsFacts
<1>12. m + 0 = m /\ (m + 1) - 1 = m
  BY <1>1
<1>13. QED BY <1>2, <1>3, <1>5, <1>6, <1>7, <1>9, <1>10, <1>11, <1>12

LEMMA OccurrencesTaken ==
    ASSUME NEW es \in Seq(Event), es # <<>>, NEW s
    PROVE  Occurrences(es, s)
             = Occurrences(Tail(es), s) + (IF Head(es).sev = s THEN Head(es).count ELSE 0)
<1> DEFINE h == Parts(Tail(es), s)
           k == Parts(es, s)
           m == Len(es) - 1
<1>1. Tail(es) \in Seq(Event) /\ Len(Tail(es)) = m /\ m \in Nat /\ Len(es) = m + 1
  OBVIOUS
<1>2. h \in Seq(Nat) /\ Len(h) = m /\ Occurrences(Tail(es), s) = Total(h)
  BY <1>1, PartsTyped
<1>3. k \in Seq(Nat) /\ Len(k) = m + 1 /\ Occurrences(es, s) = Total(k)
  BY <1>1, PartsTyped
<1>4. \A i \in 1..m : h[i] = k[i + 1]
  <2>1. ASSUME NEW i \in 1..m PROVE h[i] = k[i + 1]
    <3>1. i \in DOMAIN Tail(es) /\ i + 1 \in DOMAIN es /\ Tail(es)[i] = es[i + 1]
      OBVIOUS
    <3>2. QED BY <3>1 DEF Parts
  <2>2. QED BY <2>1
<1>5. k[1] = IF Head(es).sev = s THEN Head(es).count ELSE 0
  BY DEF Parts
<1> HIDE DEF h, k, m
<1>6. PICK f : IsSums(f, h, m) /\ Total(h) = f[m]
  BY <1>2, TotalIsSum
<1>7. PICK g : IsSums(g, k, m + 1) /\ Total(k) = g[m + 1]
  BY <1>3, TotalIsSum
<1>8. NumbersTo(h, m) /\ NumbersTo(k, m + 1)
  BY <1>1, <1>2, <1>3 DEF NumbersTo
<1>9. g[m + 1] = g[1] + f[m]
  <2>1. Alike(h, k, m, 1) /\ 1 \in Nat /\ m + 1 \in Nat /\ m <= m /\ m + 1 <= m + 1
    BY <1>1, <1>4 DEF Alike
  <2>2. QED BY ONLY <1>1, <1>6, <1>7, <1>8, <2>1, SumsAgree
<1>10. g[0] = 0 /\ g[1] = g[1 - 1] + k[1] /\ k[1] \in Nat
  <2>1. m + 1 \in Nat /\ 1 \in 1..(m + 1)
    BY <1>1
  <2>2. k[1] \in Nat
    BY <1>8, <2>1 DEF NumbersTo
  <2>3. QED BY <1>7, <1>8, <2>1, <2>2, SumsFacts
<1>11. f[m] \in Nat
  <2>1. m \in 0..m
    BY <1>1
  <2>2. QED BY <1>1, <1>6, <1>8, <2>1, SumsFacts
<1>12. g[1] = k[1]
  BY <1>10
<1>13. QED BY <1>2, <1>3, <1>5, <1>6, <1>7, <1>9, <1>10, <1>11, <1>12

\* What is staged for a SEv and qualified of it, and what of it is in flight.
Kept(s) == sevs[s].agg_pending + qualified[s]

LEMMA Numbers ==
    ASSUME TypeOK, NEW s \in DOMAIN sevs
    PROVE  /\ s \in Sev /\ sevs[s] \in SevState /\ config[s] \in SevConfig
           /\ sevs[s].agg_pending \in Nat /\ qualified[s] \in Nat /\ reported[s] \in Nat
           /\ InFlight \in Seq(Event) /\ Occurrences(InFlight, s) \in Nat
<1>1. s \in Sev /\ sevs[s] \in SevState /\ config[s] \in SevConfig
  BY DEF TypeOK
<1>2. sevs[s].agg_pending \in Nat
  BY <1>1 DEF SevState
<1>3. qualified[s] \in Nat /\ reported[s] \in Nat /\ InFlight \in Seq(Event)
  BY <1>1 DEF TypeOK, InFlight
<1>4. QED BY <1>1, <1>2, <1>3, PartsTyped

\* A step that leaves the events in flight alone and keeps no more of any SEv.
LEMMA NothingMore ==
    ASSUME NothingInvented, UNCHANGED <<InFlight, reported>>, DOMAIN sevs' = DOMAIN sevs,
           TypeOK, TypeOK', \A s \in DOMAIN sevs : Kept(s)' <= Kept(s)
    PROVE  NothingInvented'
<1> SUFFICES ASSUME NEW s \in DOMAIN sevs
             PROVE  (Occurrences(InFlight, s) + sevs[s].agg_pending + qualified[s])'
                       <= reported'[s]
  BY DEF NothingInvented
<1>1. Occurrences(InFlight, s) + sevs[s].agg_pending + qualified[s] <= reported[s]
  BY DEF NothingInvented
<1>2. Occurrences(InFlight, s)' = Occurrences(InFlight, s) /\ reported'[s] = reported[s]
  OBVIOUS
<1>3. sevs[s].agg_pending \in Nat /\ qualified[s] \in Nat /\ reported[s] \in Nat
      /\ Occurrences(InFlight, s) \in Nat
  BY Numbers
<1>4. sevs'[s].agg_pending \in Nat /\ qualified'[s] \in Nat
  BY DEF TypeOK, SevState
<1>5. sevs'[s].agg_pending + qualified'[s] <= sevs[s].agg_pending + qualified[s]
  BY DEF Kept
<1>6. QED BY <1>1, <1>2, <1>3, <1>4, <1>5

\* Releasing aggregates hands on what was staged, or drops it.
LEMMA ReleaseKeeps ==
    ASSUME TypeOK, NEW S, S \subseteq DOMAIN sevs, Release(S), DOMAIN sevs' = DOMAIN sevs,
           \A s \in DOMAIN sevs : sevs'[s].agg_pending =
               IF s \in S THEN NoAggregate ELSE sevs[s].agg_pending
    PROVE  \A s \in DOMAIN sevs : Kept(s)' <= Kept(s)
<1> SUFFICES ASSUME NEW s \in DOMAIN sevs PROVE Kept(s)' <= Kept(s)
  OBVIOUS
<1>1. sevs[s].agg_pending \in Nat /\ qualified[s] \in Nat /\ s \in Sev
  BY Numbers
<1>2. qualified'[s] \in {qualified[s], qualified[s] + sevs[s].agg_pending}
      /\ (s \notin S => qualified'[s] = qualified[s])
  BY <1>1 DEF Release
<1>3. CASE s \in S
  BY <1>1, <1>2, <1>3 DEF Kept, NoAggregate
<1>4. CASE s \notin S
  BY <1>1, <1>2, <1>4 DEF Kept
<1>5. QED BY <1>3, <1>4

\* The filter chain keeps of an event at most its count, and of no other SEv more.
LEMMA ProcessKeeps ==
    ASSUME TypeOK, NEW e \in Event, e.sev \in DOMAIN sevs, ProcessEvent(e)
    PROVE  \A r \in DOMAIN sevs :
              Kept(r)' <= Kept(r) + (IF r = e.sev THEN e.count ELSE 0)
<1> DEFINE s == e.sev
<1>1. /\ s \in DOMAIN sevs /\ s \in Sev /\ config[s] \in SevConfig /\ sevs[s] \in SevState
      /\ now \in Nat /\ e.count \in Nat /\ e.count # 0
      /\ sevs[s].agg_pending \in Nat
  BY Numbers, EventTyped DEF TypeOK
<1>2. Accepted(sevs[s]) \in SevState /\ Accepted(sevs[s]).agg_pending = sevs[s].agg_pending
  BY <1>1 DEF Accepted, SevState
<1>3. Counted(e) \in SevState /\ Counted(e).agg_pending = sevs[s].agg_pending
  BY <1>1, <1>2, NthType DEF Counted
<1>4. AfterThreshold(config[s], Counted(e), e.count, now).agg_pending = sevs[s].agg_pending
  <2> HIDE DEF s
  <2>1. /\ config[s] \in SevConfig /\ Counted(e) \in SevState /\ e.count \in Nat /\ now \in Nat
        /\ Counted(e).agg_pending = sevs[s].agg_pending
    BY <1>1, <1>3
  <2>2. QED BY ONLY <2>1, ThresholdType
<1>5. /\ AfterAggregation(Counted(e), e.count, now).agg_pending
           <= sevs[s].agg_pending + e.count
      /\ AfterAggregation(Counted(e), e.count, now).agg_pending \in Nat
  <2>1. CASE Counted(e).agg_pending = NoAggregate
    <3>1. AfterAggregation(Counted(e), e.count, now).agg_pending = e.count
      BY <1>3, <2>1 DEF AfterAggregation, SevState
    <3>2. QED BY <1>1, <3>1
  <2>2. CASE Counted(e).agg_pending # NoAggregate
    <3>1. AfterAggregation(Counted(e), e.count, now).agg_pending
             = Saturate(Counted(e).agg_pending + e.count)
      BY <1>3, <2>2 DEF AfterAggregation, SevState
    <3>2. QED BY <1>1, <1>3, <3>1, FilterAssumption DEF Saturate
  <2>3. QED BY <2>1, <2>2
<1>6. \A r \in DOMAIN sevs : Kept(r) \in Nat
  BY Numbers DEF Kept
<1>7. ASSUME NEW st, SevAfter(e, st)
      PROVE  \A r \in DOMAIN sevs : sevs'[r].agg_pending =
                IF r = s THEN st.agg_pending ELSE sevs[r].agg_pending
  BY <1>1, <1>7 DEF SevAfter
<1> HIDE DEF s
<1>8. ASSUME NEW st, SevAfter(e, st), st.agg_pending = sevs[s].agg_pending,
             UNCHANGED qualified
      PROVE  \A r \in DOMAIN sevs : Kept(r)' = Kept(r)
  BY <1>7, <1>8 DEF Kept
<1>9. ASSUME NEW st, SevAfter(e, st), st.agg_pending = sevs[s].agg_pending, QualifyEvent(e)
      PROVE  \A r \in DOMAIN sevs : Kept(r)' = Kept(r) + (IF r = s THEN e.count ELSE 0)
  <2>1. ASSUME NEW r \in DOMAIN sevs
        PROVE  Kept(r)' = Kept(r) + (IF r = s THEN e.count ELSE 0)
    <3>1. qualified'[r] = qualified[r] + (IF r = s THEN e.count ELSE 0)
      <4>1. qualified \in [Sev -> Nat] /\ r \in Sev /\ qualified[r] \in Nat
        BY Numbers DEF TypeOK
      <4>2. qualified' = [qualified EXCEPT ![s] = @ + e.count]
        BY <1>9 DEF QualifyEvent, s
      <4>3. QED BY <1>1, <4>1, <4>2
    <3>2. sevs'[r].agg_pending = sevs[r].agg_pending
      BY <1>7, <1>9
    <3>3. sevs[r].agg_pending \in Nat /\ qualified[r] \in Nat
      BY Numbers
    <3>4. QED BY <1>1, <3>1, <3>2, <3>3 DEF Kept
  <2>2. QED BY <2>1
<1>10. CASE DropReportingOff(e)
  BY <1>1, <1>6, <1>10 DEF DropReportingOff, Kept
<1>11. CASE DropBlocked(e)
  BY <1>1, <1>2, <1>6, <1>8, <1>11 DEF DropBlocked, s
<1>12. CASE DropSampled(e)
  BY <1>1, <1>3, <1>6, <1>8, <1>12 DEF DropSampled, s
<1>13. CASE DropBelowThreshold(e)
  BY <1>1, <1>4, <1>6, <1>8, <1>13 DEF DropBelowThreshold, s
<1>14. CASE QualifyBypassing(e)
  BY <1>1, <1>2, <1>6, <1>9, <1>14 DEF QualifyBypassing, s
<1>15. CASE QualifyFiltered(e)
  BY <1>1, <1>4, <1>6, <1>9, <1>15 DEF QualifyFiltered, s
<1>16. CASE Absorb(e)
  <2>1. ASSUME NEW r \in DOMAIN sevs
        PROVE  Kept(r)' <= Kept(r) + (IF r = s THEN e.count ELSE 0)
    <3>1. sevs'[r].agg_pending = IF r = s THEN AfterAggregation(Counted(e), e.count, now).agg_pending
                                 ELSE sevs[r].agg_pending
      BY <1>7, <1>16 DEF Absorb
    <3>2. qualified'[r] = qualified[r] /\ qualified[r] \in Nat /\ sevs[r].agg_pending \in Nat
      BY <1>16, Numbers DEF Absorb
    <3>3. QED BY <1>1, <1>5, <3>1, <3>2 DEF Kept
  <2>2. QED BY <2>1 DEF s
<1>17. QED
  BY <1>10, <1>11, <1>12, <1>13, <1>14, <1>15, <1>16 DEF ProcessEvent, s

\* What one event takes from the queue it adds at most to what its SEv keeps.
LEMMA TakenOver ==
    ASSUME NEW before \in Nat, NEW after \in Nat, NEW taken \in Nat, NEW kept \in Nat,
           NEW keptNext \in Nat, NEW passed \in Nat, NEW passedNext \in Nat, NEW all \in Nat,
           before = after + taken, keptNext + passedNext <= kept + passed + taken,
           before + kept + passed <= all
    PROVE  after + keptNext + passedNext <= all
  OBVIOUS

LEMMA InventedStep ==
    TypedLifecycle /\ TypedLifecycle' /\ NothingInvented /\ [Next]_vars => NothingInvented'
<1> SUFFICES ASSUME TypeOK, TypeOK', Lifecycle, NothingInvented, [Next]_vars
             PROVE  NothingInvented'
  BY DEF TypedLifecycle
<1>0. queue \in Seq(Event) /\ batch \in Seq(Event)
  BY DEF TypeOK
<1>00. ASSUME UNCHANGED <<queue, batch, reported, sevs, qualified>>
       PROVE  NothingInvented'
  BY <1>00 DEF NothingInvented, InFlight
<1>1. ASSUME NEW c \in Configs, InitEngine(c) PROVE NothingInvented'
  <2>1. queue' = <<>> /\ batch' = <<>>
    BY <1>1 DEF InitEngine, Lifecycle
  <2>2. InFlight' = <<>>
    BY <2>1 DEF InFlight
  <2>3. ASSUME NEW s \in DOMAIN sevs'
        PROVE  sevs'[s].agg_pending = 0 /\ qualified'[s] = 0 /\ reported'[s] = 0
    <3>1. s \in Sev
      BY DEF TypeOK
    <3>2. QED BY <1>1, <3>1 DEF InitEngine, FreshSev, NoAggregate
  <2>4. QED BY <2>2, <2>3, NoOccurrences DEF NothingInvented
<1>2. CASE DeInitClear
  BY <1>2 DEF DeInitClear, NoSevs, NothingInvented
<1>3. ASSUME NEW c \in Callers, NEW s \in Sev, NEW n \in Counts, ReportPush(c, s, n)
      PROVE  NothingInvented'
  <2> DEFINE e == [sev |-> s, count |-> IF n = 0 THEN 1 ELSE n, seq |-> issued + 1]
  <2>1. e \in Event /\ e.sev = s
    <3>1. (IF n = 0 THEN 1 ELSE n) \in 1..CountMax
      BY EngineAssumption, FilterAssumption
    <3>2. issued + 1 \in Nat \ {0}
      BY SMTT(20) DEF TypeOK
    <3>3. QED BY <3>1, <3>2 DEF Event
  <2>2. /\ queue' = Append(queue, e) /\ batch' = batch
        /\ reported' = [reported EXCEPT ![s] = @ + e.count]
        /\ sevs' = [sevs EXCEPT ![s].pending_count = @ + 1]
        /\ qualified' = qualified
    BY <1>3 DEF ReportPush
  <2> HIDE DEF e
  <2>3. InFlight' = Append(InFlight, e)
    BY <1>0, <2>1, <2>2, JoinedSequences DEF InFlight
  <2>4. ASSUME NEW r \in DOMAIN sevs'
        PROVE  (Occurrences(InFlight, r) + sevs[r].agg_pending + qualified[r])' <= reported'[r]
    <3>1. /\ r \in DOMAIN sevs /\ r \in Sev /\ InFlight \in Seq(Event)
          /\ sevs[r].agg_pending \in Nat /\ qualified[r] \in Nat /\ reported[r] \in Nat
          /\ Occurrences(InFlight, r) \in Nat /\ sevs[r] \in SevState
      BY <2>2, Numbers
    <3>2. sevs'[r].agg_pending = sevs[r].agg_pending
      BY <2>2, <3>1 DEF SevState
    <3>3. Occurrences(InFlight, r)'
            = Occurrences(InFlight, r) + (IF e.sev = r THEN e.count ELSE 0)
      BY <2>1, <2>3, <3>1, OccurrencesAppended
    <3>4. reported'[r] = reported[r] + (IF e.sev = r THEN e.count ELSE 0)
      <4>1. reported \in [Sev -> Nat]
        BY DEF TypeOK
      <4>2. QED BY <2>1, <2>2, <3>1, <4>1
    <3>5. e.count \in Nat
      BY <2>1, EventTyped
    <3>6. Occurrences(InFlight, r) + sevs[r].agg_pending + qualified[r] <= reported[r]
      BY <3>1 DEF NothingInvented
    <3>7. qualified'[r] = qualified[r]
      BY <2>2
    <3>8. QED BY ONLY <3>1, <3>2, <3>3, <3>4, <3>5, <3>6, <3>7
  <2>5. QED BY <2>4 DEF NothingInvented
<1>4. CASE WorkerDrain \/ WorkerResume
  <2>1. Drain /\ batch = <<>>
    BY <1>4 DEF WorkerDrain, WorkerResume, Lifecycle
  <2>2. /\ batch' = queue /\ queue' = <<>> /\ UNCHANGED <<reported, qualified>>
        /\ DOMAIN sevs' = DOMAIN sevs
    BY <2>1 DEF Drain, ghosts
  <2>3. InFlight' = InFlight
    BY <1>0, <2>1, <2>2, JoinedSequences DEF InFlight
  <2>4. ASSUME NEW s \in DOMAIN sevs PROVE Kept(s)' <= Kept(s)
    <3>1. sevs'[s].agg_pending = sevs[s].agg_pending
      BY <2>1, Numbers DEF Drain, SevState
    <3>2. sevs[s].agg_pending + qualified[s] \in Nat
      BY Numbers
    <3>3. QED BY <2>2, <3>1, <3>2 DEF Kept
  <2>5. QED BY <2>2, <2>3, <2>4, NothingMore
<1>5. CASE WorkerIdle \/ WorkerTick
  <2>1. ExpireWindows /\ UNCHANGED <<queue, batch, reported>>
    BY <1>5 DEF WorkerIdle, WorkerTick
  <2> DEFINE due == {s \in DOMAIN sevs : AggDue(config[s], sevs[s], now)}
  <2>2. Release(due) /\ due \subseteq DOMAIN sevs
    BY <2>1 DEF ExpireWindows
  <2>3. /\ DOMAIN sevs' = DOMAIN sevs
        /\ \A s \in DOMAIN sevs : sevs'[s].agg_pending =
              IF s \in due THEN NoAggregate ELSE sevs[s].agg_pending
    BY <2>1, ExpiryReleases
  <2> HIDE DEF due
  <2>4. \A s \in DOMAIN sevs : Kept(s)' <= Kept(s)
    BY <2>2, <2>3, ReleaseKeeps
  <2>5. InFlight' = InFlight
    BY <2>1 DEF InFlight
  <2>6. QED BY <2>1, <2>3, <2>4, <2>5, NothingMore
<1>6. CASE WorkerProcess
  <2> DEFINE e == Head(batch)
  <2>1. batch # <<>> /\ batch' = Tail(batch) /\ UNCHANGED <<queue, reported>> /\ ProcessEvent(e)
    BY <1>6 DEF WorkerProcess
  <2>2. e \in Event /\ e.sev \in DOMAIN sevs
    BY <1>0, <2>1 DEF Lifecycle
  <2>3. InFlight' = Tail(InFlight) /\ InFlight # <<>> /\ Head(InFlight) = e
    BY <1>0, <2>1 DEF InFlight
  <2>4. DOMAIN sevs' = DOMAIN sevs
    BY <2>1, <2>2, ProcessTypes
  <2> HIDE DEF e
  <2>5. ASSUME NEW r \in DOMAIN sevs'
        PROVE  (Occurrences(InFlight, r) + sevs[r].agg_pending + qualified[r])' <= reported'[r]
    <3> DEFINE taken == IF e.sev = r THEN e.count ELSE 0
    <3>1. /\ r \in DOMAIN sevs /\ InFlight \in Seq(Event)
          /\ sevs[r].agg_pending \in Nat /\ qualified[r] \in Nat /\ reported[r] \in Nat
          /\ Occurrences(InFlight, r) \in Nat
      BY <2>4, Numbers
    <3>2. /\ sevs'[r].agg_pending \in Nat /\ qualified'[r] \in Nat
          /\ Tail(InFlight) \in Seq(Event)
      BY <2>3, <3>1 DEF TypeOK, SevState
    <3>3. taken \in Nat /\ Occurrences(Tail(InFlight), r) \in Nat
      BY <2>2, <3>2, EventTyped, PartsTyped
    <3>4. Occurrences(InFlight, r) = Occurrences(Tail(InFlight), r) + taken
      BY <2>3, <3>1, OccurrencesTaken
    <3>5. sevs'[r].agg_pending + qualified'[r] <= sevs[r].agg_pending + qualified[r] + taken
      BY <2>1, <2>2, <3>1, ProcessKeeps DEF Kept
    <3>6. Occurrences(InFlight, r) + sevs[r].agg_pending + qualified[r] <= reported[r]
      BY <3>1 DEF NothingInvented
    <3>7. Occurrences(InFlight, r)' = Occurrences(Tail(InFlight), r)
          /\ reported'[r] = reported[r]
      BY <2>1, <2>3
    <3> DEFINE before == Occurrences(InFlight, r)
               after  == Occurrences(Tail(InFlight), r)
               kept   == sevs[r].agg_pending
               next   == sevs'[r].agg_pending
               passed == qualified[r]
               through == qualified'[r]
               all    == reported[r]
    <3>8. /\ before \in Nat /\ after \in Nat /\ taken \in Nat /\ kept \in Nat
          /\ next \in Nat /\ passed \in Nat /\ through \in Nat /\ all \in Nat
          /\ before = after + taken /\ next + through <= kept + passed + taken
          /\ before + kept + passed <= all
      BY <3>1, <3>2, <3>3, <3>4, <3>5, <3>6
    <3>9. (Occurrences(InFlight, r) + sevs[r].agg_pending + qualified[r])' = after + next + through
          /\ reported'[r] = all
      BY <3>7
    <3> HIDE DEF before, after, taken, kept, next, passed, through, all
    <3>10. after + next + through <= all
      BY ONLY <3>8, TakenOver
    <3>11. QED BY ONLY <3>9, <3>10
  <2>6. QED BY <2>5 DEF NothingInvented
<1>7. ASSUME NEW s \in Sev, FlushEvents(s) PROVE NothingInvented'
  <2>1. Release({s}) /\ s \in DOMAIN sevs /\ UNCHANGED <<queue, batch, reported>>
        /\ sevs' = [sevs EXCEPT ![s] = AfterRelease(config[s], sevs[s], now)]
    BY <1>7 DEF FlushEvents
  <2>2. AfterRelease(config[s], sevs[s], now).agg_pending = NoAggregate
    <3>1. now \in Nat
      BY DEF TypeOK
    <3>2. QED BY <2>1, <3>1, Numbers, ReleaseType
  <2>3. /\ DOMAIN sevs' = DOMAIN sevs
        /\ \A r \in DOMAIN sevs : sevs'[r].agg_pending =
              IF r \in {s} THEN NoAggregate ELSE sevs[r].agg_pending
    BY <2>1, <2>2
  <2>4. \A r \in DOMAIN sevs : Kept(r)' <= Kept(r)
    BY <2>1, <2>3, ReleaseKeeps
  <2>5. InFlight' = InFlight
    BY <2>1 DEF InFlight
  <2>6. QED BY <2>1, <2>3, <2>4, <2>5, NothingMore
<1>8. ASSUME NEW s \in Sev,
             ResetDetectionStatus(s) \/ \E mode \in Modes : SetReportingMode(s, mode)
      PROVE  NothingInvented'
  <2>1. /\ UNCHANGED <<queue, batch, reported, qualified>> /\ DOMAIN sevs' = DOMAIN sevs
        /\ s \in DOMAIN sevs
        /\ sevs' = [sevs EXCEPT ![s].detection_status = "OK"]
           \/ \E mode \in Modes : sevs' = [sevs EXCEPT ![s].reporting_mode = mode]
    BY <1>8 DEF ResetDetectionStatus, SetReportingMode, ghosts
  <2>2. ASSUME NEW r \in DOMAIN sevs PROVE Kept(r)' <= Kept(r)
    <3>1. sevs'[r].agg_pending = sevs[r].agg_pending
      <4>1. sevs[r] \in SevState
        BY Numbers
      <4>2. CASE sevs' = [sevs EXCEPT ![s].detection_status = "OK"]
        BY <2>1, <4>1, <4>2 DEF SevState
      <4>3. ASSUME NEW mode \in Modes, sevs' = [sevs EXCEPT ![s].reporting_mode = mode]
            PROVE  sevs'[r].agg_pending = sevs[r].agg_pending
        BY <2>1, <4>1, <4>3 DEF SevState
      <4>4. QED BY <2>1, <4>2, <4>3
    <3>2. sevs[r].agg_pending + qualified[r] \in Nat
      BY Numbers
    <3>3. QED BY <2>1, <3>1, <3>2 DEF Kept
  <2>3. InFlight' = InFlight
    BY <2>1 DEF InFlight
  <2>4. QED BY <2>1, <2>2, <2>3, NothingMore
<1>9. ASSUME NEW c \in Callers,
             ReportCheck(c) \/ ReportNotify(c) \/ \E s \in Sev : ReportUnknown(c, s)
      PROVE  NothingInvented'
  BY <1>00, <1>9 DEF ReportCheck, ReportNotify, ReportUnknown, ghosts
<1>10. CASE DeInitStop \/ DeInitNotify
  BY <1>00, <1>10 DEF DeInitStop, DeInitNotify, ghosts
<1>11. CASE WorkerTop \/ WorkerBlock \/ WorkerWaitAgain \/ WorkerStop \/ SpuriousWakeup
  BY <1>00, <1>11
     DEF WorkerTop, WorkerBlock, WorkerWaitAgain, WorkerStop, SpuriousWakeup, ghosts
<1>12. ASSUME (\E b \in BlockStates : BswM_StateChanged(b))
              \/ (\E r \in BOOLEAN : SetDemReportCallback(r) \/ RegisterIdsrSink(r))
              \/ ResetStats \/ Tick \/ UNCHANGED vars
       PROVE  NothingInvented'
  BY <1>00, <1>12
     DEF BswM_StateChanged, SetDemReportCallback, RegisterIdsrSink, ResetStats, Tick, vars,
         ghosts
<1>13. QED
  BY <1>1, <1>2, <1>3, <1>4, <1>5, <1>6, <1>7, <1>8, <1>9, <1>10, <1>11, <1>12
     DEF Next, Control, Report, WorkerStep, ApiCall

\* The sinks are told of no occurrence twice, and of none that was not reported in this
\* session: what is in the queues, staged by the aggregation filter and qualified
\* comes from ReportSecurityEvent, however windows expire, are flushed or merge counts.
THEOREM NoOccurrenceInvented == Spec => []NothingInvented
<1>1. Init => NothingInvented
  BY DEF Init, NoSevs, NothingInvented
<1>2. QED
  BY <1>1, TypedAlways, InventedStep, PTL DEF Spec
=============================================================================
