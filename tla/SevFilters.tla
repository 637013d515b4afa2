----------------------------- MODULE SevFilters -----------------------------
(***************************************************************************)
(* The per-SEv filter chain of the IdsM engine (src/IdsM_Manager.cpp):     *)
(* BlockState -> ForwardEveryNth -> Aggregation -> Threshold, and the time *)
(* windows of the last two.  Every operator is a function of the static    *)
(* configuration cfg of a SEv, its runtime state st (IdsM_SevState) and    *)
(* the clock; IdsM.tla calls them where the engine calls the C++ helpers.  *)
(*                                                                         *)
(* The clock is the true number of milliseconds.  nowMs() truncates it to  *)
(* 32 bits and so do the stored window starts; since (a + b) mod m =       *)
(* ((a mod m) + b) mod m the starts are kept untruncated here and the      *)
(* truncation is applied where deadlines are computed and compared.        *)
(***************************************************************************)
EXTENDS Integers

CONSTANTS
    CountMax,   \* saturation of a QSEv's count, 0xFFFF in the code
    ClockMod    \* range of the millisecond clock, 2^32 in the code

ASSUME FilterAssumption ==
    /\ CountMax \in Nat \ {0}
    /\ ClockMod \in Nat \ {0}

NoAggregate == 0    \* agg_pending == nullptr: a staged count is at least 1

Modes == {"OFF", "BRIEF", "DETAILED", "BRIEF_BYPASSING", "DETAILED_BYPASSING"}

Bypassing(mode) == mode \in {"BRIEF_BYPASSING", "DETAILED_BYPASSING"}

\* IdsM_SevState, the fields that outlive one call.
SevState ==
    [reporting_mode      : Modes,
     detection_status    : {"UNINITIALIZED", "OK", "VIOLATION"},
     pending_count       : Nat,
     nth_counter         : Nat,
     agg_pending         : Nat,
     agg_window_start_ms : Nat,
     thr_accumulated     : Nat,
     thr_window_start_ms : Nat,
     thr_window_open     : BOOLEAN]

\* What Init builds for a configured SEv: the first event is forwarded
\* because the sampling counter starts at n.
FreshSev(cfg) ==
    [reporting_mode      |-> cfg.default_reporting_mode,
     detection_status    |-> "UNINITIALIZED",
     pending_count       |-> 0,
     nth_counter         |-> cfg.forward_every_nth,
     agg_pending         |-> NoAggregate,
     agg_window_start_ms |-> 0,
     thr_accumulated     |-> 0,
     thr_window_start_ms |-> 0,
     thr_window_open     |-> FALSE]

-----------------------------------------------------------------------------
\* Block state filter.

IsBlockedByState(cfg, block_state) == block_state \in cfg.blocked_states

-----------------------------------------------------------------------------
\* Forward-every-nth filter.

NthPasses(cfg, st, count) ==
    \/ cfg.forward_every_nth = 0
    \/ st.nth_counter + count >= cfg.forward_every_nth

AfterNth(cfg, st, count) ==
    [st EXCEPT !.nth_counter =
        IF cfg.forward_every_nth = 0 THEN @
        ELSE IF NthPasses(cfg, st, count) THEN 0 ELSE @ + count]

-----------------------------------------------------------------------------
\* Aggregation filter.

Aggregates(cfg) == cfg.aggregation_interval_ms # 0

Saturate(n) == IF n > CountMax THEN CountMax ELSE n

AfterAggregation(st, count, now) ==
    IF st.agg_pending = NoAggregate
    THEN [st EXCEPT !.agg_pending = count, !.agg_window_start_ms = now]
    ELSE [st EXCEPT !.agg_pending = Saturate(@ + count)]

-----------------------------------------------------------------------------
\* Threshold filter.

ThrTotal(st, count) ==
    count + (IF st.thr_window_open THEN st.thr_accumulated ELSE 0)

ThrPasses(cfg, st, count) ==
    cfg.threshold = 0 \/ ThrTotal(st, count) >= cfg.threshold

AfterThreshold(cfg, st, count, now) ==
    IF cfg.threshold = 0
    THEN st
    ELSE [st EXCEPT !.thr_window_open     = TRUE,
                    !.thr_window_start_ms = IF st.thr_window_open THEN @ ELSE now,
                    !.thr_accumulated     = ThrTotal(st, count)]

-----------------------------------------------------------------------------
\* Time windows.

Due(start, interval, now) == now % ClockMod >= (start + interval) % ClockMod

AggDue(cfg, st, now) ==
    /\ st.agg_pending # NoAggregate
    /\ Aggregates(cfg)
    /\ Due(st.agg_window_start_ms, cfg.aggregation_interval_ms, now)

ThrDue(cfg, st, now) ==
    st.thr_window_open /\ Due(st.thr_window_start_ms, cfg.thr_interval_ms, now)

\* Mutant of AfterRelease: agg_pending is not reset when it is released.
AfterReleaseKept(cfg, st, now) == AfterThreshold(cfg, st, st.agg_pending, now)

\* The staged aggregate leaves the aggregation filter for the threshold filter.
AfterRelease(cfg, st, now) ==
    AfterThreshold(cfg, [st EXCEPT !.agg_pending = NoAggregate], st.agg_pending, now)

\* One iteration of expireWindows.  A released aggregate ends the iteration,
\* so the threshold window of that SEv is then not looked at.
AfterExpiry(cfg, st, now) ==
    CASE AggDue(cfg, st, now) -> AfterRelease(cfg, st, now)
      [] ~AggDue(cfg, st, now) /\ ThrDue(cfg, st, now) ->
            [st EXCEPT !.thr_window_open = FALSE, !.thr_accumulated = 0]
      [] OTHER -> st

\* Mutant of LeavesDeadline: only threshold windows wake the worker up.
LeavesThresholdDeadline(cfg, st, now) ==
    ~AggDue(cfg, st, now) /\ st.thr_window_open /\ ~ThrDue(cfg, st, now)

\* The iteration contributes a deadline to the value expireWindows returns.
LeavesDeadline(cfg, st, now) ==
    /\ ~AggDue(cfg, st, now)
    /\ \/ st.agg_pending # NoAggregate /\ Aggregates(cfg)
       \/ st.thr_window_open /\ ~ThrDue(cfg, st, now)
=============================================================================
