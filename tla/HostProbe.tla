----------------------------- MODULE HostProbe -----------------------------
(***************************************************************************)
(* The host probe (apps/host_probe): the poller that walks /proc, the      *)
(* thread that receives exec events from the kernel when it may, the       *)
(* processes, files and kernel modules they look at, and the detectors     *)
(* (capture.cpp, pipeline.cpp, detectors.cpp, main.cpp).                   *)
(*                                                                         *)
(* Processes start and end at any time, also while the walk is on its way: *)
(* readdir returns, whenever it is asked, the next pid there is then.      *)
(* Where the scenario says so (fails), /proc or an entry of it cannot be   *)
(* opened ("proc"), and neither the modules nor a file be read ("files").  *)
(***************************************************************************)
EXTENDS ProbeMain, DetectorWindows

CONSTANTS
    Pids,           \* pids, which the walk meets in their order
    MaxPasses,      \* bound on the walks
    HostWindow,     \* the width of the windows
    HostCooldown    \* how long a key is muted

ASSUME HostAssumption ==
    /\ Pids \subseteq Nat /\ MaxPasses \in Nat
    /\ HostWindow \in Nat \ {0} /\ HostCooldown \in Nat

\* The system.
VARIABLES
    procs,       \* the processes: for each pid in use, which birth it was
    births,      \* every start of a process: pid, program, the walks begun then,
                 \* and when it ended those that were complete, else MaxPasses
    system       \* zombies: pids of processes that nobody waits for; modules: the
                 \* kernel modules; file: the state of a monitored file

\* The captures.
VARIABLES
    netlink,     \* "off", "run" or "ended"
    events,      \* what the kernel has queued for it: births
    scan,        \* the poller: pc, pass, pos (the next pid), stamp, cur, missed
                 \* (history: what this walk did not read), known, zombies, mods, primed
    host,        \* the state of the detectors: muted, forks, zombies
    sightings,   \* history: the pids that each complete walk has met
    misses,      \* history: and those that it could not read
    reported     \* history: for each birth, the exec events that told of it, each
                 \* by the number of walks begun then

systemVars == <<procs, births, system>>
captureVars == <<netlink, events, scan>>
walkVars == <<sightings, misses>>
hostVars == <<systemVars, captureVars, host, walkVars, reported>>

\* The security events of the detectors, in the order of their numbers.
HostSevs == <<"unknownExec", "privEsc", "forkFlood", "revShell", "fileMod", "newSetuid",
              "kmodLoad", "zombieStorm", "resExhaust", "rootShell">>

\* The kinds of alerts that have a limit.
HostKinds == {"forkFlood", "zombieStorm"}

Gone == [name |-> "", allowed |-> FALSE, setuid |-> FALSE, shell |-> FALSE,
         root |-> FALSE, net |-> "", kthread |-> FALSE]

InitHost ==
    /\ procs = <<>> /\ births = <<>>
    /\ system = [zombies |-> {}, modules |-> {}, file |-> "same"]
    /\ netlink = "off" /\ events = <<>>
    /\ scan = [pc |-> "top", pass |-> 0, pos |-> 0, stamp |-> 0, cur |-> {}, known |-> {},
               missed |-> {}, zombies |-> 0, mods |-> {}, primed |-> FALSE]
    /\ host = [muted |-> <<>>, forks |-> Counter(NotOpen), zombies |-> Counter(NotOpen)]
    /\ sightings = <<>> /\ misses = <<>> /\ reported = <<>>

-----------------------------------------------------------------------------
\* The detectors.

\* Those that mute a key after each alert, for the keys that the input has.
MutedAlert(muted, raised, sev, kind, key, at) ==
    When(raised /\ ~Muted(muted, <<sev, key>>, at), sev, kind, key)

MutedAfter(muted, alerts, at) ==
    LET keys == {<<alerts[i].sev, alerts[i].key>> : i \in DOMAIN alerts}
    IN  [k \in DOMAIN muted \cup keys |-> IF k \in keys THEN at + HostCooldown ELSE muted[k]]

HostLimit(kind) == scenario.limits[kind]

UnknownExec(e, at) ==
    MutedAlert(host.muted, ~e.allowed, "unknownExec", "unknownExec", e.name, at)

PrivEsc(e, at) == MutedAlert(host.muted, e.setuid, "privEsc", "privEsc", e.name, at)

RevShell(e, at) ==
    MutedAlert(host.muted, e.shell /\ e.net # "", "revShell", "revShell", e.net, at)

RootShell(e, at) ==
    MutedAlert(host.muted, e.root /\ e.shell, "rootShell", "rootShell", e.name, at)

OpenForks(at) == Opened(host.forks, Counter(NotOpen), at, HostWindow)
ForksAfter(at) == Counted(OpenForks(at), HostLimit("forkFlood"))
ForkFlood(at) ==
    When(Raised(OpenForks(at), ForksAfter(at)), "forkFlood", "forkFlood", "host")

\* EXEC: the five detectors of an exec event, in the order of feed_event.
FeedExec(e, at) ==
    LET shells == RevShell(e, at) \o RootShell(e, at)
        execs == UnknownExec(e, at) \o PrivEsc(e, at)
    IN  /\ host' = [host EXCEPT !.forks = ForksAfter(at),
                        !.muted = MutedAfter(@, execs \o shells, at)]
        /\ Report(execs \o ForkFlood(at) \o shells, at)
        /\ Fed(e, at)

\* SNAPSHOT: the zombie storm goes by the most zombies a pass of the window saw.
OpenZombies(at) == Opened(host.zombies, Counter(NotOpen), at, HostWindow)

ZombiesAfter(n, at) ==
    LET open == OpenZombies(at)
        most == IF n > open.count THEN n ELSE open.count
    IN  [open EXCEPT !.count = most, !.alerted = @ \/ most >= HostLimit("zombieStorm")]

ZombieStorm(n, at) ==
    When(Raised(OpenZombies(at), ZombiesAfter(n, at)), "zombieStorm", "zombieStorm", "host")

\* A process may use too much of the processor, or else of the memory.
ResExhaust(hog, at) == MutedAlert(host.muted, hog # "none", "resExhaust", hog, "host", at)

SnapshotAlerts(n, hog, at) == ZombieStorm(n, at) \o ResExhaust(hog, at)

\* FILE_SCAN: NewSetuidDetector passes over the files of the baseline, which are
\* the only ones that the poller scans.
FileMod(path, state, at) ==
    MutedAlert(host.muted, path = "monitored" /\ state # "same", "fileMod", state, path, at)

NewSetuid(path, state, at) ==
    MutedAlert(host.muted, path # "monitored" /\ state = "setuid", "newSetuid", state, path, at)

FileAlerts(path, state, at) == FileMod(path, state, at) \o NewSetuid(path, state, at)

\* MODULE_SCAN.  No module of the baseline is ever loaded here.
ModuleAlerts(mods, at) ==
    IF mods = {} THEN <<>>
    ELSE LET mod == CHOOSE x \in mods : TRUE
         IN  MutedAlert(host.muted, TRUE, "kmodLoad", "kmodLoad", mod, at)

-----------------------------------------------------------------------------
\* The system, while the probe captures.

Birth(pid, program) ==
    /\ phase = "capture" /\ scenario.live
    /\ pid \notin DOMAIN procs /\ Len(births) < scenario.most
    /\ births' = Append(births, [pid |-> pid, program |-> program,
                                 born |-> scan.pass, ended |-> MaxPasses])
    /\ procs' = [p \in DOMAIN procs \cup {pid} |->
                    IF p = pid THEN Len(births') ELSE procs[p]]
    /\ events' = IF netlink = "run" /\ ~program.kthread
                 THEN Append(events, Len(births')) ELSE events
    /\ reported' = Append(reported, <<>>)
    /\ UNCHANGED <<probeVars, system, netlink, scan, host, walkVars>>

Dies(pid) ==
    /\ procs' = [p \in DOMAIN procs \ {pid} |-> procs[p]]
    /\ births' = [births EXCEPT ![procs[pid]].ended = Len(sightings)]
    /\ system' = [system EXCEPT !.zombies = @ \ {pid}]

Death(pid) ==
    /\ phase = "capture" /\ pid \in DOMAIN procs
    /\ Dies(pid)
    /\ UNCHANGED <<probeVars, captureVars, host, walkVars, reported>>

\* What else may be found by the next pass.
SystemChange ==
    /\ phase = "capture" /\ scenario.changes
    /\ \/ \E pid \in DOMAIN procs \ system.zombies :
            system' = [system EXCEPT !.zombies = @ \cup {pid}]
       \/ system.modules = {} /\ system' = [system EXCEPT !.modules = {"rootkit"}]
       \/ \E state \in {"changed", "missing"} \ {system.file} :
            system' = [system EXCEPT !.file = state]
    /\ UNCHANGED <<probeVars, procs, births, captureVars, host, walkVars, reported>>

-----------------------------------------------------------------------------
\* The captures.

\* set_emit_execs(!use_netlink), and after the first pass.
EmitExecs == netlink = "off" /\ scan.primed

\* NetlinkProcCapture::open: whether the kernel's events can be subscribed to;
\* where it is refused, not wanted, or in a replay, netlink stays off.
NetlinkOpens == IF scenario.live THEN scenario.netlink ELSE {"off"}

HostOpens ==
    /\ Opens
    /\ netlink' \in NetlinkOpens
    /\ UNCHANGED <<systemVars, events, scan, host, walkVars, reported>>

\* Both captures are stopped by the signal, and netlink at the latest after the
\* poller.
NetlinkStopped == stop \/ scan.pc = "done"

\* read_proc_details: what /proc tells of the pid by now, nothing if the process has
\* gone or cannot be read.
Details(pid) ==
    (IF pid \in DOMAIN procs THEN {births[procs[pid]].program} ELSE {Gone})
    \cup (IF "proc" \in scenario.fails THEN {Gone} ELSE {})

\* An exec event tells of the birth n.
Tell(n) == reported' = [reported EXCEPT ![n] = Append(@, scan.pass)]

\* recv().
Receive ==
    /\ netlink = "run" /\ events # <<>>
    /\ \E e \in Details(births[Head(events)].pid) : FeedExec(e, clock)
    /\ Tell(Head(events))
    /\ events' = Tail(events)
    /\ netlink' = IF NetlinkStopped THEN "ended" ELSE "run"
    /\ UNCHANGED <<mainVars, systemVars, scan, walkVars>>

\* The flag is seen, or recv() fails, which nobody but a log line is told of.
NetlinkEnds ==
    /\ netlink = "run"
    /\ netlink' = "ended"
    /\ UNCHANGED <<probeVars, systemVars, events, scan, host, walkVars, reported>>

\* opendir("/proc"): a walk that cannot begin misses everything.
Unopened == IF "proc" \in scenario.fails THEN {{}, Pids} ELSE {{}}

\* A pass begins: its events all bear this time.
PassBegins ==
    /\ phase = "capture" /\ scan.pc = "top" /\ scenario.live
    /\ \/ stop /\ scan' = [scan EXCEPT !.pc = "done"]
       \/ /\ ~stop /\ scan.pass < scenario.passes /\ clock + DrainTime <= MaxClock
          /\ \E missed \in Unopened :
                scan' = [scan EXCEPT !.pc = "walk", !.pass = @ + 1, !.pos = 0, !.stamp = clock,
                                     !.cur = {}, !.missed = missed, !.zombies = 0]
    /\ UNCHANGED <<probeVars, systemVars, netlink, events, host, walkVars, reported>>

NextPids == {p \in DOMAIN procs : p >= scan.pos /\ p \notin scan.missed}
NextPid == CHOOSE p \in NextPids : \A q \in NextPids : p <= q

\* readdir and read_stat of the next process.
Meets(pid) ==
    scan' = [scan EXCEPT !.pos = pid + 1, !.cur = @ \cup {pid},
                 !.zombies = @ + (IF pid \in system.zombies THEN 1 ELSE 0)]

\* read_stat fails, as it does for a process that has vanished: it is passed over.
VisitFails ==
    /\ scan.pc = "walk" /\ NextPids # {} /\ "proc" \in scenario.fails
    /\ scan' = [scan EXCEPT !.pos = NextPid + 1, !.missed = @ \cup {NextPid}]
    /\ UNCHANGED <<probeVars, systemVars, netlink, events, host, walkVars, reported>>

\* It is not reported: it is known, a kernel thread, or netlink reports.
New(pid) ==
    EmitExecs /\ pid \notin scan.known /\ ~births[procs[pid]].program.kthread

Visit ==
    /\ scan.pc = "walk" /\ NextPids # {} /\ ~New(NextPid)
    /\ Meets(NextPid)
    /\ UNCHANGED <<probeVars, systemVars, netlink, events, host, walkVars, reported>>

\* It is reported, with what /proc tells of it, even if it ends meanwhile.
VisitNew ==
    /\ scan.pc = "walk" /\ NextPids # {} /\ New(NextPid)
    /\ Meets(NextPid)
    /\ Tell(procs[NextPid])
    /\ \/ (\E e \in Details(NextPid) : FeedExec(e, scan.stamp)) /\ UNCHANGED systemVars
       \/ FeedExec(Gone, scan.stamp) /\ Dies(NextPid)
    /\ UNCHANGED <<mainVars, netlink, events, walkVars>>

\* Mutant of Known: the pids are read a second time.
KnownAnew == DOMAIN procs

\* The known pids are those that this pass has met.
Known == scan.cur

\* /proc/modules and the monitored file, as they are or cannot be read.
ModulesRead == {system.modules} \cup (IF "files" \in scenario.fails THEN {{}} ELSE {})
FileRead == {system.file} \cup (IF "files" \in scenario.fails THEN {"changed", "missing"} ELSE {})

\* The rest of a pass: snapshot, modules, files.
PassEnds ==
    /\ scan.pc = "walk" /\ NextPids = {}
    /\ \E hog \in scenario.hogs, modules \in ModulesRead, file \in FileRead :
        LET at == scan.stamp
            mods == modules \ scan.mods
            snapshot == IF scan.primed THEN SnapshotAlerts(scan.zombies, hog, at) ELSE <<>>
            others == (IF scan.primed THEN ModuleAlerts(mods, at) ELSE <<>>)
                      \o FileAlerts("monitored", file, at)
        IN  /\ Report(snapshot \o others, at)
            /\ host' = [host EXCEPT
                    !.zombies = IF scan.primed THEN ZombiesAfter(scan.zombies, at) ELSE @,
                    !.muted = MutedAfter(@, SelectSeq(snapshot \o others,
                                    LAMBDA a : a.sev # "zombieStorm"), at)]
            /\ scan' = [scan EXCEPT !.pc = "sleep", !.known = Known, !.primed = TRUE,
                                    !.mods = @ \cup modules]
    /\ sightings' = Append(sightings, scan.cur)
    /\ misses' = Append(misses, scan.missed)
    /\ UNCHANGED <<mainVars, traffic, systemVars, netlink, events, reported>>

\* The interval has passed, or stop() was called.
PassSleeps ==
    /\ scan.pc = "sleep" /\ (stop \/ clock > scan.stamp)
    /\ scan' = [scan EXCEPT !.pc = "top"]
    /\ UNCHANGED <<probeVars, systemVars, netlink, events, host, walkVars, reported>>

\* run() of the poller has returned and the netlink thread was joined.
HostCaptureEnds ==
    /\ phase = "capture" /\ scan.pc = "done" /\ netlink # "run"
    /\ phase' = "flush"
    /\ UNCHANGED <<scenario, clock, stop, nextFlush, wake, engineVars, historyVars, hostVars>>

\* The replay of a file of events: of execs, and of files, monitored or not.
ReplayExec ==
    \E e \in scenario.inputs, at \in TimeStamps :
        /\ phase = "capture" /\ ~scenario.live /\ Len(traffic) < scenario.most
        /\ FeedExec(e, at)
        /\ UNCHANGED <<mainVars, systemVars, captureVars, walkVars, reported>>

ReplayFile ==
    \E at \in TimeStamps :
        /\ phase = "capture" /\ ~scenario.live
        /\ Report(FileAlerts("elsewhere", "setuid", at), at)
        /\ host' = [host EXCEPT !.muted = MutedAfter(@, FileAlerts("elsewhere", "setuid", at), at)]
        /\ FileAlerts("elsewhere", "setuid", at) # <<>>
        /\ UNCHANGED <<mainVars, traffic, systemVars, captureVars, walkVars, reported>>

ReplayEnds ==
    /\ ~scenario.live /\ CaptureEnds
    /\ UNCHANGED hostVars

HostNext ==
    \/ HostOpens
    \/ \E pid \in Pids : Death(pid) \/ \E program \in scenario.inputs : Birth(pid, program)
    \/ SystemChange
    \/ Receive \/ NetlinkEnds
    \/ PassBegins \/ Visit \/ VisitFails \/ VisitNew \/ PassEnds \/ PassSleeps
    \/ HostCaptureEnds
    \/ ReplayExec \/ ReplayFile \/ ReplayEnds

-----------------------------------------------------------------------------
HostTypeOK ==
    /\ DOMAIN procs \subseteq Pids /\ \A p \in DOMAIN procs : procs[p] \in DOMAIN births
    /\ system.zombies \subseteq DOMAIN procs
    /\ netlink \in {"off", "run", "ended"}
    /\ scan.pc \in {"top", "walk", "sleep", "done"} /\ scan.pass \in 0..MaxPasses
    /\ scan.cur \subseteq Pids /\ scan.missed \subseteq Pids /\ scan.known \subseteq Pids
    /\ DOMAIN reported = DOMAIN births /\ DOMAIN misses = DOMAIN sightings

\* capture.cpp, "a process born between the walk and the rebuild": while the
\* poller reports execs, a process that was there during a whole pass, and was not
\* met by the one before, was reported if this pass could read it, wherever the walk
\* was when it was born; and a start is told again only after a pass that could not
\* read the process, and never again where the kernel tells.
StartsReported ==
    \A n \in DOMAIN births :
        /\ netlink = "off" \/ Len(reported[n]) <= 1
        /\ \A i \in 1..(Len(reported[n]) - 1) : \E p \in DOMAIN misses :
            /\ reported[n][i] < p /\ p < reported[n][i + 1]
            /\ births[n].pid \in misses[p]
        /\ \A p \in DOMAIN sightings \ {1} :
            /\ netlink = "off" /\ ~births[n].program.kthread
            /\ births[n].born < p /\ p <= births[n].ended
            /\ births[n].pid \notin sightings[p - 1] \cup misses[p]
            => reported[n] # <<>>
=============================================================================
