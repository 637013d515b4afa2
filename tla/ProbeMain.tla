----------------------------- MODULE ProbeMain -----------------------------
(***************************************************************************)
(* What the main programs of the three probes have in common (main.cpp of  *)
(* can_probe, host_probe and eth_probe): start, the signal that stops the  *)
(* capture, the alerts they report to the IdsM engine in the same process, *)
(* and the shutdown that must not lose the last of them.                   *)
(*                                                                         *)
(* The engine is the part of IdsM that the probes configure: its queue,    *)
(* one aggregation window for each kind of security event, and the sink    *)
(* that IdsRm has registered.  A unit of time is the width of that window. *)
(***************************************************************************)
EXTENDS Integers, Sequences, FiniteSets

CONSTANT
    MaxClock    \* bound

ASSUME MainAssumption == MaxClock \in Nat /\ MaxClock > 2

VARIABLES
    scenario,   \* the command line and the traffic, chosen at the start:
                \*   probe, live (or a replay), limits; inputs and most, what may
                \*   be captured and how often (bound); ends, whether the capture
                \*   does (bound); and sevs, the security events that its
                \*   detectors report, in their order
    clock,      \* the time, in units
    phase,      \* where main() is
    stop,       \* stop_ of the capture
    nextFlush,  \* the security event that is flushed next
    wake        \* when the sleep before the shutdown ends

\* The engine.
VARIABLES
    ingress,    \* IdsM's queue
    staged,     \* for each security event: how many are in its window, and until when
    owed        \* for each security event: reported, and not handed to IdsRm yet

\* History variables.
VARIABLES
    traffic,    \* what was captured, and when
    alarms      \* the alerts, and when

mainVars   == <<scenario, clock, phase, stop, nextFlush, wake>>
engineVars == <<ingress, staged, owed>>
historyVars == <<traffic, alarms>>
probeVars  == <<mainVars, engineVars, historyVars>>

AggregationWindow == 1
DrainTime == 2

\* The bound on the time: when there is a shutdown, it needs some of it.
Horizon == IF scenario.ends THEN MaxClock ELSE MaxClock - DrainTime

Sevs == {scenario.sevs[i] : i \in DOMAIN scenario.sevs}

InitMain(scenarios) ==
    /\ scenario \in scenarios
    /\ clock = 1
    /\ phase = "ready"
    /\ stop = FALSE
    /\ nextFlush = 1
    /\ wake = 0
    /\ ingress = <<>>
    /\ staged = [s \in Sevs |-> [count |-> 0, due |-> 0]]
    /\ owed = [s \in Sevs |-> 0]
    /\ traffic = <<>>
    /\ alarms = <<>>

-----------------------------------------------------------------------------
\* The capture.

\* IdsM and IdsRm are up, the signal handlers installed and the source is open.
Opens ==
    /\ phase = "ready"
    /\ phase' = "capture"
    /\ UNCHANGED <<scenario, clock, stop, nextFlush, wake, engineVars, historyVars>>

\* The interface or the file cannot be opened.  (The poller of the host
\* probe only refuses an interval of 0: main then returns before it captures.)
OpenFails ==
    /\ phase = "ready" /\ scenario.ends
    /\ scenario.probe # "host" \/ ~scenario.live
    /\ phase' = "flush"
    /\ UNCHANGED <<scenario, clock, stop, nextFlush, wake, engineVars, historyVars>>

\* on_signal: a signal that comes while no capture object is set is lost, and so
\* is one in a replay: nothing reads g_stop.
OnSignal ==
    /\ phase \in {"ready", "capture"} /\ scenario.ends
    /\ stop' = (phase = "capture" /\ scenario.live)
    /\ UNCHANGED <<scenario, clock, phase, nextFlush, wake, engineVars, historyVars>>

\* The time an input is given: live, the time at which it was received; in a
\* replay that of the record, which need not be in order.  A pcap file's times are
\* counted from its first record, and none is before that here.
TimeStamps ==
    IF scenario.live THEN {clock}
    ELSE IF traffic = <<>> /\ scenario.probe # "host" THEN {0}
    ELSE 0 .. Horizon

\* An alert, or nothing, of a detector.  The kind tells alerts of one security
\* event apart, as aux does; the key is what the detector keeps apart.
When(raised, sev, kind, key) ==
    IF raised THEN <<[sev |-> sev, kind |-> kind, key |-> key]>> ELSE <<>>

\* report_alert for each alert of a feed().
Report(alerts, at) ==
    LET sevs == [i \in DOMAIN alerts |-> alerts[i].sev] IN
    /\ ingress' = ingress \o sevs
    /\ owed' = [s \in Sevs |->
                   owed[s] + Cardinality({i \in DOMAIN sevs : sevs[i] = s})]
    /\ alarms' = alarms \o [i \in DOMAIN alerts |->
                   [kind |-> alerts[i].kind, key |-> alerts[i].key, at |-> at]]
    /\ UNCHANGED staged

\* An input is fed to the pipeline.
Fed(input, at) == traffic' = Append(traffic, [input |-> input, at |-> at])

\* The loop of run(): an input that was awaited when the capture was stopped is
\* still fed; the flag is looked at after it.  The bounds leave time to shut down.
Capture(input, at) ==
    /\ phase = "capture"
    /\ Len(traffic) < scenario.most /\ clock + DrainTime <= MaxClock
    /\ Fed(input, at)
    /\ phase' = IF stop THEN "flush" ELSE "capture"
    /\ UNCHANGED <<scenario, clock, stop, nextFlush, wake>>

\* The flag is seen after a timeout, recv() fails, or the file has ended.
CaptureEnds ==
    /\ phase = "capture" /\ scenario.ends
    /\ phase' = "flush"
    /\ UNCHANGED <<scenario, clock, stop, nextFlush, wake, engineVars, historyVars>>

-----------------------------------------------------------------------------
\* The worker of IdsM.

\* The sink of IdsRm is called, as long as it is registered.
Hand(s, n) ==
    owed' = IF phase \in {"ready", "capture", "flush", "sleep"}
            THEN [owed EXCEPT ![s] = @ - n] ELSE owed

\* An event opens the window of its kind or is added to it.
Stage ==
    /\ phase # "down" /\ ingress # <<>>
    /\ LET s == Head(ingress) IN
        staged' = [staged EXCEPT ![s].count = @ + 1,
                       ![s].due = IF staged[s].count = 0 THEN clock + AggregationWindow ELSE @]
    /\ ingress' = Tail(ingress)
    /\ UNCHANGED <<mainVars, owed, historyVars>>

Due(s) == staged[s].count > 0 /\ staged[s].due <= clock

Release(s) ==
    /\ phase # "down" /\ Due(s)
    /\ Hand(s, staged[s].count)
    /\ staged' = [staged EXCEPT ![s] = [count |-> 0, due |-> 0]]
    /\ UNCHANGED <<mainVars, ingress, historyVars>>

\* Time passes.  A worker with work is not held up for a whole unit of it.
Tick ==
    /\ clock < Horizon
    /\ ingress = <<>> /\ \A s \in Sevs : ~Due(s)
    /\ clock' = clock + 1
    /\ UNCHANGED <<scenario, phase, stop, nextFlush, wake, engineVars, historyVars>>

-----------------------------------------------------------------------------
\* The shutdown.

\* IdsM_FlushEvents for one kind after the other: what is in its window goes out.
Flush ==
    /\ phase = "flush" /\ nextFlush <= Len(scenario.sevs)
    /\ LET s == scenario.sevs[nextFlush] IN
        /\ Hand(s, staged[s].count)
        /\ staged' = [staged EXCEPT ![s] = [count |-> 0, due |-> 0]]
    /\ nextFlush' = nextFlush + 1
    /\ UNCHANGED <<scenario, clock, phase, stop, wake, ingress, historyVars>>

\* Mutant of Sleep: the shutdown waits neither for the flushes nor for the queue.
SleepNot ==
    /\ phase = "flush"
    /\ phase' = "sleep"
    /\ wake' = clock
    /\ UNCHANGED <<scenario, clock, stop, nextFlush, engineVars, historyVars>>

\* What is still in the queue of IdsM is staged after its flush, and has this
\* time to go out.
Sleep ==
    /\ phase = "flush" /\ nextFlush > Len(scenario.sevs)
    /\ phase' = "sleep"
    /\ wake' = clock + DrainTime
    /\ UNCHANGED <<scenario, clock, stop, nextFlush, engineVars, historyVars>>

\* IdsRm_DeInit unregisters the sink, then forwards what it has got.
RmDeInit ==
    /\ phase = "sleep" /\ clock >= wake
    /\ phase' = "unregistered"
    /\ UNCHANGED <<scenario, clock, stop, nextFlush, wake, engineVars, historyVars>>

\* IdsM_DeInit joins the worker; what the engine still holds is dropped.
MDeInit ==
    /\ phase = "unregistered"
    /\ phase' = "down"
    /\ ingress' = <<>>
    /\ staged' = [s \in Sevs |-> [count |-> 0, due |-> 0]]
    /\ UNCHANGED <<scenario, clock, stop, nextFlush, wake, owed, historyVars>>

Engine == Stage \/ \E s \in Sevs : Release(s)
Shutdown == Flush \/ Sleep \/ RmDeInit \/ MDeInit

MainNext == OpenFails \/ OnSignal \/ Engine \/ Tick \/ Shutdown

-----------------------------------------------------------------------------
MainTypeOK ==
    /\ clock \in 1..MaxClock
    /\ phase \in {"ready", "capture", "flush", "sleep", "unregistered", "down"}
    /\ stop \in BOOLEAN
    /\ nextFlush \in 1..(Len(scenario.sevs) + 1)
    /\ wake \in 0..(MaxClock + DrainTime)
    /\ ingress \in Seq(Sevs)
    /\ staged \in [Sevs -> [count : Nat, due : 0..(MaxClock + AggregationWindow)]]
    /\ owed \in [Sevs -> Nat]
    /\ scenario.probe # "host" \/ ~scenario.live => Len(traffic) <= scenario.most

\* main.cpp, shutdown: "so tail alerts are not lost".  However the capture ends
\* and whatever the worker was doing then, every alert that a probe has reported
\* was handed to IdsRm before its sink is gone.
TailForwarded ==
    phase \in {"unregistered", "down"} => \A s \in Sevs : owed[s] = 0
=============================================================================
