---------------------------- MODULE Probes_proofs ----------------------------
(***************************************************************************)
(* Proofs about the probes, for every scenario and all limits.             *)
(***************************************************************************)
EXTENDS Probes, SequenceLemmas, FiniteSetTheorems, FunctionTheorems, TLAPS

-----------------------------------------------------------------------------
\* The host probe: the inductive invariant.

BirthRecord == [pid : Pids, program : scenario.inputs, born : Nat, ended : Nat]

HostTyped ==
    /\ scenario \in Scenarios /\ clock \in Nat
    /\ births \in Seq(BirthRecord)
    /\ reported \in Seq(Seq(Nat)) /\ Len(reported) = Len(births)
    /\ sightings \in Seq(SUBSET Pids)
    /\ misses \in Seq(SUBSET Pids) /\ Len(misses) = Len(sightings)
    /\ DOMAIN procs \subseteq Pids
    /\ \A p \in DOMAIN procs : procs[p] \in DOMAIN births
    /\ system \in [zombies : SUBSET Pids, modules : SUBSET {"rootkit"},
                   file : {"same", "changed", "missing"}]
    /\ system.zombies \subseteq DOMAIN procs
    /\ netlink \in {"off", "run", "ended"}
    /\ events \in Seq(DOMAIN births)
    /\ scan \in [pc : {"top", "walk", "sleep", "done"}, pass : 0..MaxPasses, pos : Nat,
                 stamp : Nat, cur : SUBSET Pids, missed : SUBSET Pids, known : SUBSET Pids,
                 zombies : Nat, mods : SUBSET {"rootkit"}, primed : BOOLEAN]

\* What the poller knows is what it saw in the last complete walk.
WalksSeen ==
    /\ scan.pass = IF scan.pc = "walk" THEN Len(sightings) + 1 ELSE Len(sightings)
    /\ scan.primed <=> sightings # <<>>
    /\ scan.known = IF scan.primed THEN sightings[Len(sightings)] ELSE {}

Alive(n) == births[n].pid \in DOMAIN procs /\ procs[births[n].pid] = n

\* A process is there, or it ended before the walk that is under way.
BirthsKept ==
    /\ \A p \in DOMAIN procs : births[procs[p]].pid = p
    /\ \A n \in DOMAIN births :
        /\ births[n].born <= scan.pass
        /\ IF Alive(n) THEN births[n].ended = MaxPasses ELSE births[n].ended <= Len(sightings)

NothingYet == phase = "ready" => births = <<>> /\ netlink = "off"

\* What the walk is past, and what it has met or missed there, or knows of before.
PassedPid(pid, walk) == walk.pc = "walk" /\ (pid < walk.pos \/ pid \in walk.missed)
MetPid(pid, walk) ==
    pid \in (IF PassedPid(pid, walk) THEN walk.cur \cup walk.missed ELSE walk.known)

\* A complete walk has missed it since it was told; the one under way has told it, and
\* met it.
MissedSince(n) ==
    \E p \in DOMAIN misses : Last(reported[n]) < p /\ births[n].pid \in misses[p]
ToldNow(n) ==
    Last(reported[n]) = scan.pass /\ scan.pc = "walk" /\ (Alive(n) => births[n].pid \in scan.cur)

\* The poller reports: what was reported is known, or this walk has met or missed it, or a
\* walk has missed it since; and of what was there before the walk, what it has passed is
\* known, or was missed or reported.
MetApart ==
    /\ scan.cur \cap scan.missed = {}
    /\ scan.pc = "walk" => \A p \in scan.cur : p < scan.pos
ToldIsKnown(n) ==
    reported[n] # <<>> =>
        /\ Last(reported[n]) <= Len(sightings) \/ ToldNow(n)
        /\ Alive(n) => MetPid(births[n].pid, scan) \/ MissedSince(n)
PassedIsTold(n) ==
    /\ Alive(n) /\ PassedPid(births[n].pid, scan) /\ scan.primed
    /\ ~births[n].program.kthread /\ births[n].born < scan.pass
    /\ births[n].pid \notin scan.known \cup scan.missed
    => reported[n] # <<>>

PollerTells ==
    netlink = "off" =>
        /\ events = <<>> /\ MetApart
        /\ \A n \in DOMAIN births : ToldIsKnown(n) /\ PassedIsTold(n)

\* The kernel reports: each event once, and none that was received.
KernelTells ==
    netlink # "off" =>
        /\ IsInjective(events)
        /\ \A i \in DOMAIN events : reported[events[i]] = <<>>

\* The parts of StartsReported.
ToldOnce(n) == netlink = "off" \/ Len(reported[n]) <= 1
MissedBetween(told, pid, missed) ==
    \A i \in 1..(Len(told) - 1) : \E p \in DOMAIN missed :
        told[i] < p /\ p < told[i + 1] /\ pid \in missed[p]
NewIsTold(n) ==
    \A p \in DOMAIN sightings \ {1} :
        /\ netlink = "off" /\ ~births[n].program.kthread
        /\ births[n].born < p /\ p <= births[n].ended
        /\ births[n].pid \notin sightings[p - 1] \cup misses[p]
        => reported[n] # <<>>

HostInv ==
    /\ HostTyped /\ WalksSeen /\ BirthsKept /\ NothingYet
    /\ PollerTells /\ KernelTells /\ StartsReported

-----------------------------------------------------------------------------
\* The steps of everybody else.

core == <<scenario, procs, births, system, netlink, events, scan, walkVars, reported>>

\* The parts make up the whole.
LEMMA StartsParts ==
    StartsReported <=>
        \A n \in DOMAIN births : /\ ToldOnce(n) /\ NewIsTold(n)
                                /\ MissedBetween(reported[n], births[n].pid, misses)
BY DEF StartsReported, ToldOnce, MissedBetween, NewIsTold

\* Steps that change nothing of the processes, the captures and what was reported.
LEMMA Quiet ==
    ASSUME HostInv, UNCHANGED core, clock' \in Nat, phase' = "ready" => phase = "ready"
    PROVE  HostInv'
<1> USE DEF HostInv, core, walkVars
<1>1. HostTyped'
  BY DEF HostTyped, BirthRecord
<1>2. WalksSeen' /\ BirthsKept' /\ NothingYet'
  BY DEF WalksSeen, BirthsKept, NothingYet, Alive
<1>3. PollerTells'
  BY DEF PollerTells, MetApart, ToldIsKnown, PassedIsTold, Alive, ToldNow, MissedSince
<1>4. KernelTells' /\ StartsReported'
  BY DEF KernelTells, StartsReported, IsInjective
<1>5. QED BY <1>1, <1>2, <1>3, <1>4

\* The steps of the others, and those here that only end the capture or replay.
LEMMA OthersQuiet ==
    ASSUME HostInv,
           \/ (MainNext \/ OpensOrEnds) /\ UNCHANGED hostVars
           \/ CanNext
           \/ EthNext
           \/ UNCHANGED vars
           \/ HostCaptureEnds \/ ReplayExec \/ ReplayFile \/ ReplayEnds
    PROVE  HostInv'
<1>1. clock \in Nat
  BY DEF HostInv, HostTyped
<1>2. CASE (MainNext \/ OpensOrEnds) /\ UNCHANGED hostVars
  <2> USE <1>1, <1>2 DEF hostVars, systemVars, captureVars, core, historyVars, engineVars
  <2>1. CASE OpenFails \/ OpensOrEnds
    BY <2>1, Quiet DEF OpenFails, OpensOrEnds, Opens, CaptureEnds
  <2>2. CASE OnSignal
    BY <2>2, Quiet DEF OnSignal
  <2>3. CASE Engine
    BY <2>3, Quiet DEF Engine, Stage, Release, mainVars
  <2>4. CASE Tick
    BY <2>4, Quiet DEF Tick
  <2>5. CASE Shutdown
    BY <2>5, Quiet DEF Shutdown, Flush, Sleep, RmDeInit, MDeInit
  <2>6. QED BY <2>1, <2>2, <2>3, <2>4, <2>5 DEF MainNext
<1>3. CASE CanNext
  <2>1. UNCHANGED hostVars /\ \E f \in scenario.inputs, at \in TimeStamps : Capture(f, at)
    BY <1>3 DEF CanNext, FeedFrame
  <2>2. QED BY <1>1, <2>1, Quiet DEF Capture, hostVars, systemVars, captureVars, core
<1>4. CASE EthNext
  <2>1. UNCHANGED hostVars /\ \E p \in scenario.inputs, at \in TimeStamps : Capture(p, at)
    BY <1>4 DEF EthNext, FeedEthernet
  <2>2. QED BY <1>1, <2>1, Quiet DEF Capture, hostVars, systemVars, captureVars, core
<1>5. CASE UNCHANGED vars
  BY <1>1, <1>5, Quiet DEF vars, hostVars, probeVars, mainVars, systemVars, captureVars, core
<1>6. CASE HostCaptureEnds
  BY <1>1, <1>6, Quiet DEF HostCaptureEnds, hostVars, systemVars, captureVars, core
<1>7. CASE ReplayExec \/ ReplayFile
  <2>1. UNCHANGED <<mainVars, systemVars, captureVars, walkVars, reported>>
    BY <1>7 DEF ReplayExec, ReplayFile
  <2>2. QED BY <1>1, <2>1, Quiet DEF mainVars, systemVars, captureVars, core
<1>8. CASE ReplayEnds
  BY <1>1, <1>8, Quiet DEF ReplayEnds, CaptureEnds, hostVars, systemVars, captureVars, core
<1>9. QED BY <1>2, <1>3, <1>4, <1>5, <1>6, <1>7, <1>8

-----------------------------------------------------------------------------
\* The steps of the system and of the captures.

\* The captures are opened.
LEMMA OpensKept ==
    ASSUME HostInv, HostOpens, scenario.probe = "host"
    PROVE  HostInv'
<1> USE DEF HostInv
<1>1. /\ netlink' \in {"off", "run"} /\ phase = "ready" /\ phase' = "capture"
      /\ UNCHANGED <<scenario, clock, procs, births, system, events, scan, walkVars, reported>>
  BY ScenarioAssumption DEF HostOpens, NetlinkOpens, Opens, HostTyped, systemVars
<1>2. births = <<>> /\ events = <<>> /\ netlink = "off" /\ DOMAIN births = {}
  BY <1>1 DEF NothingYet, PollerTells
<1>3. HostTyped'
  BY <1>1 DEF HostTyped, BirthRecord, walkVars
<1>4. WalksSeen' /\ BirthsKept' /\ NothingYet'
  BY <1>1 DEF WalksSeen, BirthsKept, NothingYet, Alive, walkVars
<1>5. PollerTells' /\ KernelTells' /\ StartsReported'
  BY <1>1, <1>2 DEF PollerTells, MetApart, KernelTells, StartsReported, IsInjective, walkVars
<1>6. QED BY <1>3, <1>4, <1>5

\* A process starts.
LEMMA BirthKept ==
    ASSUME HostInv, NEW pid \in Pids, NEW program \in scenario.inputs, Birth(pid, program)
    PROVE  HostInv'
<1>0. PICK n : n = Len(births) + 1
  OBVIOUS
<1> DEFINE new == [pid |-> pid, program |-> program, born |-> scan.pass, ended |-> MaxPasses]
<1>1. /\ births' = Append(births, new) /\ reported' = Append(reported, <<>>)
      /\ pid \notin DOMAIN procs
      /\ events' = IF netlink = "run" /\ ~program.kthread THEN Append(events, Len(births')) ELSE events
      /\ procs' = [p \in DOMAIN procs \cup {pid} |-> IF p = pid THEN Len(births') ELSE procs[p]]
      /\ UNCHANGED <<scenario, clock, phase, system, netlink, scan, sightings, misses>>
      /\ phase = "capture"
  BY DEF Birth, probeVars, mainVars, walkVars
<1>2. /\ births \in Seq(BirthRecord) /\ Len(births) \in Nat /\ DOMAIN births = 1..Len(births)
      /\ reported \in Seq(Seq(Nat)) /\ Len(reported) = Len(births) /\ MaxPasses \in Nat
      /\ new \in BirthRecord /\ scan.pass \in 0..MaxPasses
  BY HostAssumption DEF HostInv, HostTyped, BirthRecord
<1>3. /\ births' \in Seq(BirthRecord) /\ Len(births') = n /\ DOMAIN births' = 1..n
      /\ reported' \in Seq(Seq(Nat)) /\ Len(reported') = n
      /\ \A m \in 1..Len(births) : births'[m] = births[m] /\ reported'[m] = reported[m]
      /\ births'[n] = new /\ reported'[n] = <<>> /\ n \in Nat /\ n \notin DOMAIN births
      /\ 1..n = 1..Len(births) \cup {n}
      /\ new.pid = pid /\ new.born = scan.pass /\ new.ended = MaxPasses
  <2>1. births' \in Seq(BirthRecord) /\ Len(births') = n /\ reported' \in Seq(Seq(Nat)) /\ Len(reported') = n
    BY <1>0, <1>1, <1>2
  <2>2. \A m \in 1..Len(births) : births'[m] = births[m] /\ reported'[m] = reported[m]
    BY <1>1, <1>2
  <2>3. births'[n] = new /\ reported'[n] = <<>>
    BY <1>0, <1>1, <1>2
  <2>4. n \in Nat /\ 1..n = 1..Len(births) \cup {n} /\ n \notin 1..Len(births)
    BY <1>0, <1>2
  <2>5. new.pid = pid /\ new.born = scan.pass /\ new.ended = MaxPasses
    OBVIOUS
  <2>6. DOMAIN births' = 1..n
    BY <2>1
  <2>7. QED BY <1>2, <2>1, <2>2, <2>3, <2>4, <2>5, <2>6
<1>4. \A m \in DOMAIN births : m # n /\ m \in DOMAIN births' /\ (Alive(m)' <=> Alive(m))
  <2>1. ASSUME NEW m \in DOMAIN births PROVE Alive(m)' <=> Alive(m)
    <3>1. births'[m] = births[m] /\ m # n
      BY <1>2, <1>3
    <3>2. CASE births[m].pid = pid
      BY <1>1, <1>3, <3>1, <3>2 DEF Alive
    <3>3. CASE births[m].pid # pid
      BY <1>1, <3>1, <3>3 DEF Alive
    <3>4. QED BY <3>2, <3>3
  <2>2. QED BY <1>2, <1>3, <2>1
<1>5. Alive(n)'
  BY <1>1, <1>3 DEF Alive
<1>6. HostTyped'
  <2>1. events' \in Seq(DOMAIN births')
    <3>1. events \in Seq(DOMAIN births') /\ n \in DOMAIN births'
      BY <1>2, <1>3 DEF HostInv, HostTyped
    <3>2. CASE events' = events
      BY <3>1, <3>2
    <3>3. CASE events' = Append(events, n)
      BY <3>1, <3>3
    <3>4. QED BY <1>1, <1>3, <3>2, <3>3
  <2>2. \A p \in DOMAIN procs' : procs'[p] \in DOMAIN births' /\ p \in Pids
    BY <1>1, <1>2, <1>3 DEF HostInv, HostTyped
  <2>3. BirthRecord' = BirthRecord
    BY <1>1 DEF BirthRecord
  <2>4. system.zombies \subseteq DOMAIN procs'
    BY <1>1 DEF HostInv, HostTyped
  <2>5. QED BY <1>1, <1>3, <2>1, <2>2, <2>3, <2>4 DEF HostInv, HostTyped
<1> HIDE DEF new
<1>7. BirthsKept'
  <2>1. ASSUME NEW p \in DOMAIN procs' PROVE births'[procs'[p]].pid = p
    <3>1. CASE p = pid
      BY <1>1, <1>3, <3>1
    <3>2. CASE p # pid
      <4>1. p \in DOMAIN procs /\ procs'[p] = procs[p] /\ procs[p] \in 1..Len(births)
        BY <1>1, <1>2, <3>2 DEF HostInv, HostTyped
      <4>2. QED BY <1>3, <4>1 DEF HostInv, BirthsKept
    <3>3. QED BY <3>1, <3>2
  <2>2. ASSUME NEW m \in DOMAIN births'
        PROVE  /\ births'[m].born <= scan'.pass
               /\ IF Alive(m)' THEN births'[m].ended = MaxPasses ELSE births'[m].ended <= Len(sightings')
    <3>1. CASE m = n
      <4>1. births'[m].born = scan.pass /\ births'[m].ended = MaxPasses /\ Alive(m)'
        BY <1>3, <1>5, <3>1
      <4>2. QED BY <1>1, <1>2, <4>1
    <3>2. CASE m \in DOMAIN births
      BY <1>1, <1>2, <1>3, <1>4, <3>2 DEF HostInv, BirthsKept
    <3>3. QED BY <1>2, <1>3, <3>1, <3>2
  <2>3. QED BY <2>1, <2>2 DEF BirthsKept
<1>8. WalksSeen' /\ NothingYet'
  BY <1>1 DEF HostInv, WalksSeen, NothingYet
<1>9. PollerTells'
  <2> SUFFICES ASSUME netlink' = "off" PROVE PollerTells'
    BY DEF PollerTells
  <2>1. netlink = "off" /\ events' = <<>>
    BY <1>1 DEF HostInv, PollerTells
  <2>2. MetApart'
    BY <1>1, <2>1 DEF HostInv, PollerTells, MetApart
  <2>3. ASSUME NEW m \in DOMAIN births' PROVE ToldIsKnown(m)' /\ PassedIsTold(m)'
    <3>1. CASE m = n
      <4>1. reported'[m] = <<>> /\ births'[m].born = scan.pass
        BY <1>3, <3>1
      <4>2. QED BY <1>1, <1>2, <4>1 DEF ToldIsKnown, PassedIsTold
    <3>2. CASE m \in DOMAIN births
      <4>1. births'[m] = births[m] /\ reported'[m] = reported[m] /\ (Alive(m)' <=> Alive(m))
        BY <1>2, <1>3, <1>4, <3>2
      <4>2. ToldIsKnown(m) /\ PassedIsTold(m)
        BY <2>1, <3>2 DEF HostInv, PollerTells
      <4>3. ToldIsKnown(m)'
        BY <1>1, <4>1, <4>2 DEF ToldIsKnown, ToldNow, MissedSince
      <4>4. PassedIsTold(m)'
        BY <1>1, <4>1, <4>2 DEF PassedIsTold
      <4>5. QED BY <4>3, <4>4
    <3>3. QED BY <1>2, <1>3, <3>1, <3>2
  <2>4. QED BY <2>1, <2>2, <2>3 DEF PollerTells
<1>10. KernelTells'
  <2> SUFFICES ASSUME netlink' # "off" PROVE KernelTells'
    BY DEF KernelTells
  <2>1. /\ events \in Seq(DOMAIN births) /\ IsInjective(events)
        /\ \A i \in DOMAIN events : events[i] \in DOMAIN births /\ events[i] # n /\ reported[events[i]] = <<>>
    <3>1. events \in Seq(DOMAIN births)
      BY DEF HostInv, HostTyped
    <3>2. \A i \in DOMAIN events : events[i] \in DOMAIN births
      BY <3>1
    <3>3. IsInjective(events) /\ \A i \in DOMAIN events : reported[events[i]] = <<>>
      BY <1>1 DEF HostInv, KernelTells
    <3>4. QED BY <1>3, <3>1, <3>2, <3>3
  <2>2. CASE events' = events
    BY <1>2, <1>3, <2>1, <2>2 DEF KernelTells
  <2>3. CASE events' = Append(events, n)
    <3>1. /\ DOMAIN events' = 1..(Len(events) + 1) /\ Len(events) \in Nat
          /\ DOMAIN events = 1..Len(events) /\ events'[Len(events) + 1] = n
          /\ \A i \in DOMAIN events : events'[i] = events[i]
      BY <2>1, <2>3
    <3>2. \A i \in DOMAIN events' : i \in DOMAIN events \/ i = Len(events) + 1
      BY <3>1
    <3>3. IsInjective(events')
      BY <2>1, <3>1, <3>2 DEF IsInjective
    <3>4. ASSUME NEW i \in DOMAIN events' PROVE reported'[events'[i]] = <<>>
      <4>1. CASE i \in DOMAIN events
        BY <1>2, <1>3, <2>1, <3>1, <4>1
      <4>2. CASE i = Len(events) + 1
        BY <1>3, <3>1, <4>2
      <4>3. QED BY <3>2, <4>1, <4>2
    <3>5. QED BY <3>3, <3>4 DEF KernelTells
  <2>4. QED BY <1>1, <1>3, <2>2, <2>3
<1>11. StartsReported'
  <2>1. \A m \in DOMAIN births' : m = n \/ m \in DOMAIN births
    BY <1>2, <1>3
  <2>2. ASSUME NEW m \in DOMAIN births'
        PROVE  (ToldOnce(m) /\ NewIsTold(m) /\ MissedBetween(reported[m], births[m].pid, misses))'
    <3>1. CASE m = n
      <4>1. reported'[m] = <<>> /\ births'[m].born = scan.pass
        BY <1>3, <3>1
      <4>2. \A p \in DOMAIN sightings' : p <= scan.pass /\ p \in Nat
        BY SMTT(20), <1>1, <1>2 DEF HostInv, HostTyped, WalksSeen
      <4>3. NewIsTold(m)'
        BY <1>2, <4>1, <4>2 DEF NewIsTold
      <4>4. Len(reported'[m]) = 0 /\ 1..(0 - 1) = {}
        BY <4>1
      <4>5. QED BY <4>3, <4>4 DEF ToldOnce, MissedBetween
    <3>2. CASE m \in DOMAIN births
      <4>1. births'[m] = births[m] /\ reported'[m] = reported[m]
        BY <1>2, <1>3, <3>2
      <4>2. ToldOnce(m) /\ NewIsTold(m) /\ MissedBetween(reported[m], births[m].pid, misses)
        BY <3>2, StartsParts DEF HostInv
      <4>3. QED BY <1>1, <4>1, <4>2 DEF ToldOnce, NewIsTold
    <3>3. QED BY <2>1, <3>1, <3>2
  <2>3. StartsReported' <=>
          \A m \in DOMAIN births' :
            (ToldOnce(m) /\ NewIsTold(m) /\ MissedBetween(reported[m], births[m].pid, misses))'
    BY DEF StartsReported, ToldOnce, MissedBetween, NewIsTold
  <2>4. QED BY <2>2, <2>3
<1>12. QED BY <1>6, <1>7, <1>8, <1>9, <1>10, <1>11 DEF HostInv

\* What is left when a process has ended, or not.
SystemLeft ==
    /\ births' \in Seq(BirthRecord) /\ DOMAIN births' = DOMAIN births
    /\ Len(births') = Len(births)
    /\ \A m \in DOMAIN births :
        /\ births'[m].pid = births[m].pid /\ births'[m].program = births[m].program
        /\ births'[m].born = births[m].born /\ births'[m].ended <= births[m].ended
        /\ Alive(m)' => Alive(m) /\ births'[m].ended = births[m].ended
        /\ ~Alive(m)' => births'[m].ended <= Len(sightings)
    /\ DOMAIN procs' \subseteq DOMAIN procs
    /\ \A p \in DOMAIN procs' : procs'[p] = procs[p]
    /\ system' \in [zombies : SUBSET Pids, modules : SUBSET {"rootkit"},
                    file : {"same", "changed", "missing"}]
    /\ system'.zombies \subseteq DOMAIN procs'

\* A process that ends or goes on leaves the others and what is known of it.
LEMMA EndedOrNot ==
    ASSUME HostTyped, WalksSeen, BirthsKept, NEW pid \in DOMAIN procs,
           UNCHANGED systemVars \/ Dies(pid)
    PROVE  SystemLeft
<1>1. /\ births \in Seq(BirthRecord) /\ DOMAIN births = 1..Len(births) /\ Len(births) \in Nat
      /\ Len(sightings) \in Nat /\ MaxPasses \in Nat /\ Len(sightings) <= MaxPasses
      /\ procs[pid] \in DOMAIN births
      /\ \A m \in DOMAIN births : births[m].ended \in Nat /\ births[m] \in BirthRecord
  <2>1. /\ births \in Seq(BirthRecord) /\ procs[pid] \in DOMAIN births
        /\ sightings \in Seq(SUBSET Pids) /\ scan.pass \in 0..MaxPasses /\ MaxPasses \in Nat
    BY HostAssumption DEF HostTyped
  <2>2. Len(sightings) \in Nat /\ Len(sightings) <= MaxPasses
    BY <2>1 DEF WalksSeen
  <2>3. \A m \in DOMAIN births : births[m] \in BirthRecord
    BY <2>1
  <2>4. \A m \in DOMAIN births : births[m].ended \in Nat
    BY <2>3 DEF BirthRecord
  <2>5. QED BY <2>1, <2>2, <2>3, <2>4
<1>2. CASE UNCHANGED systemVars
  <2>1. \A m \in DOMAIN births : Alive(m)' <=> Alive(m)
    BY <1>2 DEF systemVars, Alive
  <2>2. QED BY <1>1, <1>2, <2>1 DEF SystemLeft, HostTyped, BirthsKept, systemVars
<1>3. CASE Dies(pid)
  <2>1. PICK k \in DOMAIN births : k = procs[pid]
    BY <1>1
  <2>2. /\ births' = [births EXCEPT ![k].ended = Len(sightings)]
        /\ procs' = [p \in DOMAIN procs \ {pid} |-> procs[p]]
        /\ system' = [system EXCEPT !.zombies = @ \ {pid}]
    BY <1>3, <2>1 DEF Dies
  <2>3. births[k].pid = pid /\ Alive(k) /\ births[k].ended = MaxPasses
    BY <2>1 DEF BirthsKept, Alive
  <2>4. \A m \in DOMAIN births : m # k => births'[m] = births[m]
    BY <1>1, <2>2
  <2>5. births'[k] = [births[k] EXCEPT !.ended = Len(sightings)] /\ DOMAIN births' = DOMAIN births
    BY <1>1, <2>2
  <2>6. /\ births'[k] \in BirthRecord /\ births'[k].pid = pid /\ births'[k].ended = Len(sightings)
        /\ births'[k].program = births[k].program /\ births'[k].born = births[k].born
    BY <1>1, <2>3, <2>5 DEF BirthRecord
  <2>7. births' \in Seq(BirthRecord) /\ Len(births') = Len(births)
    BY <1>1, <2>2, <2>6
  <2>8. ~Alive(k)'
    BY <2>2, <2>6 DEF Alive
  <2>9. \A m \in DOMAIN births : m # k => (Alive(m)' <=> Alive(m))
    BY <2>1, <2>2, <2>3, <2>4 DEF Alive
  <2>10. ASSUME NEW m \in DOMAIN births
         PROVE  /\ births'[m].pid = births[m].pid /\ births'[m].program = births[m].program
                /\ births'[m].born = births[m].born /\ births'[m].ended <= births[m].ended
                /\ Alive(m)' => Alive(m) /\ births'[m].ended = births[m].ended
                /\ ~Alive(m)' => births'[m].ended <= Len(sightings)
    <3>1. CASE m = k
      BY <1>1, <2>3, <2>6, <2>8, <3>1
    <3>2. CASE m # k
      BY <1>1, <2>4, <2>9, <3>2 DEF BirthsKept
    <3>3. QED BY <3>1, <3>2
  <2>11. /\ DOMAIN procs' \subseteq DOMAIN procs
         /\ \A p \in DOMAIN procs' : procs'[p] = procs[p]
    BY <2>2
  <2>12. /\ system' \in [zombies : SUBSET Pids, modules : SUBSET {"rootkit"},
                         file : {"same", "changed", "missing"}]
         /\ system'.zombies \subseteq DOMAIN procs'
    BY <2>2 DEF HostTyped
  <2>13. QED BY <2>5, <2>7, <2>10, <2>11, <2>12 DEF SystemLeft
<1>4. QED BY <1>2, <1>3

\* What SystemLeft leaves of the parts of the invariant that the other variables do
\* not disturb.
LEMMA LeftKept ==
    ASSUME HostInv, SystemLeft, UNCHANGED <<scenario, clock>>, sightings' = sightings,
           scan'.pass = scan.pass
    PROVE  /\ BirthRecord' = BirthRecord
           /\ \A p \in DOMAIN procs' : procs'[p] \in DOMAIN births' /\ p \in Pids
           /\ BirthsKept'
<1>1. BirthRecord' = BirthRecord
  BY DEF BirthRecord
<1>2. \A p \in DOMAIN procs' : procs'[p] \in DOMAIN births' /\ p \in Pids
  BY DEF SystemLeft, HostInv, HostTyped
<1>3. BirthsKept'
  <2>1. ASSUME NEW p \in DOMAIN procs' PROVE births'[procs'[p]].pid = p
    <3>1. p \in DOMAIN procs /\ procs'[p] = procs[p] /\ procs[p] \in DOMAIN births
      BY DEF SystemLeft, HostInv, HostTyped
    <3>2. QED BY <3>1 DEF SystemLeft, HostInv, BirthsKept
  <2>2. ASSUME NEW m \in DOMAIN births'
        PROVE  /\ births'[m].born <= scan'.pass
               /\ IF Alive(m)' THEN births'[m].ended = MaxPasses
                  ELSE births'[m].ended <= Len(sightings')
    BY DEF SystemLeft, HostInv, BirthsKept
  <2>3. QED BY <2>1, <2>2 DEF BirthsKept
<1>4. QED BY <1>1, <1>2, <1>3

\* What was over before is over after.
LEMMA LeftOver ==
    ASSUME HostInv, SystemLeft
    PROVE  \A m \in DOMAIN births, p \in DOMAIN sightings :
                p \in Nat /\ (p <= births'[m].ended => p <= births[m].ended)
<1> SUFFICES ASSUME NEW m \in DOMAIN births, NEW p \in DOMAIN sightings
             PROVE  p \in Nat /\ (p <= births'[m].ended => p <= births[m].ended)
  OBVIOUS
<1>1. births \in Seq(BirthRecord) /\ births' \in Seq(BirthRecord) /\ DOMAIN births' = DOMAIN births
  BY DEF HostInv, HostTyped, SystemLeft
<1>2. births[m] \in BirthRecord /\ births'[m] \in BirthRecord
  BY <1>1
<1>3. births[m].ended \in Nat /\ births'[m].ended \in Nat
  BY <1>2 DEF BirthRecord
<1>4. p \in Nat
  BY DEF HostInv, HostTyped
<1>5. QED BY <1>3, <1>4 DEF SystemLeft

\* A process ends.
LEMMA DeathKept ==
    ASSUME HostInv, NEW pid \in Pids, Death(pid)
    PROVE  HostInv'
<1>1. /\ pid \in DOMAIN procs /\ Dies(pid)
      /\ UNCHANGED <<scenario, clock, phase, netlink, events, scan, sightings, misses, reported>>
  BY DEF Death, probeVars, mainVars, captureVars, walkVars
<1>2. SystemLeft
  BY <1>1, EndedOrNot DEF HostInv
<1>3. /\ BirthRecord' = BirthRecord /\ BirthsKept'
      /\ \A p \in DOMAIN procs' : procs'[p] \in DOMAIN births' /\ p \in Pids
  BY <1>1, <1>2, LeftKept
<1>4. HostTyped'
  BY <1>1, <1>2, <1>3 DEF HostInv, HostTyped, SystemLeft
<1>5. WalksSeen' /\ NothingYet'
  <2>1. births = <<>> => births' = <<>>
    <3>1. births = <<>> => Len(births') = 0 /\ births' \in Seq(BirthRecord)
      BY <1>2 DEF SystemLeft
    <3>2. QED BY <3>1
  <2>2. QED BY <1>1, <2>1 DEF HostInv, WalksSeen, NothingYet
<1>6. PollerTells'
  <2> SUFFICES ASSUME netlink' = "off" PROVE PollerTells'
    BY DEF PollerTells
  <2>1. events = <<>> /\ MetApart /\ \A m \in DOMAIN births : ToldIsKnown(m) /\ PassedIsTold(m)
    BY <1>1 DEF HostInv, PollerTells
  <2>2. ASSUME NEW m \in DOMAIN births PROVE ToldIsKnown(m)' /\ PassedIsTold(m)'
    <3>1. /\ births'[m].pid = births[m].pid /\ births'[m].program = births[m].program
          /\ births'[m].born = births[m].born /\ (Alive(m)' => Alive(m))
      BY <1>2 DEF SystemLeft
    <3>2. ToldIsKnown(m)'
      BY <1>1, <2>1, <3>1 DEF ToldIsKnown, ToldNow, MissedSince
    <3>3. PassedIsTold(m)'
      BY <1>1, <2>1, <3>1 DEF PassedIsTold
    <3>4. QED BY <3>2, <3>3
  <2>3. DOMAIN births' = DOMAIN births
    BY <1>2 DEF SystemLeft
  <2>4. QED BY <1>1, <2>1, <2>2, <2>3 DEF PollerTells, MetApart
<1>7. KernelTells'
  BY <1>1 DEF HostInv, KernelTells
<1>8. StartsReported'
  <2>2. \A m \in DOMAIN births, p \in DOMAIN sightings :
          p <= births'[m].ended => p <= births[m].ended
    BY <1>2, LeftOver
  <2>3. QED BY <1>1, <1>2, <2>2 DEF HostInv, StartsReported, SystemLeft
<1>9. QED BY <1>3, <1>4, <1>5, <1>6, <1>7, <1>8 DEF HostInv

\* What a pass may find changes.
LEMMA SystemChangeKept ==
    ASSUME HostInv, SystemChange
    PROVE  HostInv'
<1>1. UNCHANGED <<scenario, clock, phase, procs, births, netlink, events, scan, sightings, misses,
                  reported>>
  BY DEF SystemChange, probeVars, mainVars, captureVars, walkVars
<1>2. /\ system' \in [zombies : SUBSET Pids, modules : SUBSET {"rootkit"},
                      file : {"same", "changed", "missing"}]
      /\ system'.zombies \subseteq DOMAIN procs
  <2> DEFINE Systems == [zombies : SUBSET Pids, modules : SUBSET {"rootkit"},
                         file : {"same", "changed", "missing"}]
  <2>1. system \in Systems /\ system.zombies \subseteq DOMAIN procs /\ DOMAIN procs \subseteq Pids
    BY DEF HostInv, HostTyped
  <2>2. CASE \E pid \in DOMAIN procs \ system.zombies : system' = [system EXCEPT !.zombies = @ \cup {pid}]
    <3>1. PICK pid \in DOMAIN procs : system' = [system EXCEPT !.zombies = @ \cup {pid}]
      BY <2>2
    <3>2. system' = [zombies |-> system.zombies \cup {pid}, modules |-> system.modules, file |-> system.file]
      BY <2>1, <3>1
    <3>3. QED BY <2>1, <3>2
  <2>3. CASE system' = [system EXCEPT !.modules = {"rootkit"}]
    BY <2>1, <2>3
  <2>4. CASE \E state \in {"changed", "missing"} : system' = [system EXCEPT !.file = state]
    BY <2>1, <2>4
  <2>5. QED BY <2>2, <2>3, <2>4 DEF SystemChange
<1>3. HostTyped'
  BY <1>1, <1>2 DEF HostInv, HostTyped, BirthRecord
<1>4. WalksSeen' /\ BirthsKept' /\ NothingYet'
  BY <1>1 DEF HostInv, WalksSeen, BirthsKept, NothingYet, Alive
<1>5. PollerTells' /\ KernelTells' /\ StartsReported'
  BY <1>1 DEF HostInv, PollerTells, MetApart, ToldIsKnown, PassedIsTold, ToldNow, MissedSince,
              KernelTells, StartsReported, Alive
<1>6. QED BY <1>3, <1>4, <1>5 DEF HostInv

\* An event of the kernel is received.
LEMMA ReceiveKept ==
    ASSUME HostInv, Receive
    PROVE  HostInv'
<1>1. PICK n : n = Head(events)
  OBVIOUS
<1>2. /\ netlink = "run" /\ netlink' \in {"run", "ended"} /\ events # <<>>
      /\ events' = Tail(events) /\ reported' = [reported EXCEPT ![n] = Append(@, scan.pass)]
      /\ UNCHANGED <<scenario, clock, phase, procs, births, system, scan, sightings, misses>>
  BY <1>1 DEF Receive, Tell, mainVars, systemVars, walkVars
<1>3. /\ events \in Seq(DOMAIN births) /\ reported \in Seq(Seq(Nat)) /\ DOMAIN reported = DOMAIN births
      /\ scan.pass \in Nat
      /\ IsInjective(events) /\ \A i \in DOMAIN events : reported[events[i]] = <<>>
  BY <1>2 DEF HostInv, HostTyped, KernelTells
<1>4. /\ n \in DOMAIN births /\ 1 \in DOMAIN events /\ n = events[1] /\ reported[n] = <<>>
      /\ events' \in Seq(DOMAIN births) /\ DOMAIN events' = 1..(Len(events) - 1)
      /\ Len(events) \in Nat /\ DOMAIN events = 1..Len(events)
      /\ \A i \in DOMAIN events' : events'[i] = events[i + 1]
  BY <1>1, <1>2, <1>3
<1>5. reported' \in Seq(Seq(Nat)) /\ Len(reported') = Len(reported) /\ Len(reported'[n]) <= 1
  BY SMTT(30), <1>2, <1>3, <1>4
<1>6. \A m \in DOMAIN births : m # n => reported'[m] = reported[m]
  BY <1>2, <1>3
<1>7. HostTyped'
  BY <1>2, <1>4, <1>5 DEF HostInv, HostTyped, BirthRecord
<1>8. WalksSeen' /\ BirthsKept' /\ NothingYet' /\ PollerTells'
  <2>1. (phase = "ready") => births = <<>>
    BY DEF HostInv, NothingYet
  <2>2. births # <<>>
    BY <1>4
  <2>3. QED BY <1>2, <2>1, <2>2 DEF HostInv, WalksSeen, BirthsKept, NothingYet, PollerTells, Alive
<1>9. KernelTells'
  <2>0. \A i, j \in DOMAIN events : events[i] = events[j] => i = j
    BY <1>3 DEF IsInjective
  <2>1. ASSUME NEW i \in DOMAIN events', NEW j \in DOMAIN events', events'[i] = events'[j]
        PROVE  i = j
    <3>1. i + 1 \in DOMAIN events /\ j + 1 \in DOMAIN events /\ i \in Nat /\ j \in Nat
      BY <1>4
    <3>2. i + 1 = j + 1
      BY <1>4, <2>0, <2>1, <3>1
    <3>3. QED BY <3>1, <3>2
  <2>2. ASSUME NEW i \in DOMAIN events' PROVE reported'[events'[i]] = <<>>
    <3>1. i + 1 \in DOMAIN events /\ i + 1 # 1 /\ events'[i] = events[i + 1]
      BY <1>4
    <3>2. events[i + 1] # n /\ events[i + 1] \in DOMAIN births
      <4>1. events[i + 1] # events[1]
        BY <1>4, <2>0, <3>1
      <4>2. QED BY <1>3, <1>4, <3>1, <4>1
    <3>3. QED BY <1>3, <1>6, <3>1, <3>2
  <2>3. QED BY <2>1, <2>2 DEF KernelTells, IsInjective
<1>10. StartsReported'
  <2>1. ASSUME NEW m \in DOMAIN births PROVE Len(reported'[m]) <= 1 /\ Len(reported'[m]) \in Nat
    <3>1. reported'[m] \in Seq(Nat)
      BY <1>3, <1>5
    <3>2. CASE m = n
      BY <1>5, <3>1, <3>2
    <3>3. CASE m # n
      BY <1>2, <1>6, <3>1, <3>3 DEF HostInv, StartsReported
    <3>4. QED BY <3>2, <3>3
  <2>2. \A m \in DOMAIN births : 1..(Len(reported'[m]) - 1) = {}
    BY <2>1
  <2>3. QED BY <1>2, <2>1, <2>2 DEF StartsReported
<1>11. QED BY <1>7, <1>8, <1>9, <1>10 DEF HostInv

\* The kernel's events end.
LEMMA NetlinkEndsKept ==
    ASSUME HostInv, NetlinkEnds
    PROVE  HostInv'
<1>1. /\ netlink = "run" /\ netlink' = "ended"
      /\ UNCHANGED <<scenario, clock, phase, procs, births, system, events, scan, sightings, misses,
                     reported>>
  BY DEF NetlinkEnds, probeVars, mainVars, systemVars, walkVars
<1>2. HostTyped'
  BY <1>1 DEF HostInv, HostTyped, BirthRecord
<1>3. WalksSeen' /\ BirthsKept' /\ NothingYet'
  BY <1>1 DEF HostInv, WalksSeen, BirthsKept, NothingYet, Alive
<1>4. PollerTells' /\ KernelTells' /\ StartsReported'
  BY <1>1 DEF HostInv, PollerTells, KernelTells, StartsReported
<1>5. QED BY <1>2, <1>3, <1>4 DEF HostInv

\* A walk begins, or the pause after one ends.
LEMMA PassStepKept ==
    ASSUME HostInv, PassBegins \/ PassSleeps, scenario.probe = "host"
    PROVE  HostInv'
<1> DEFINE Pcs == {"top", "walk", "sleep", "done"}
<1>1. /\ scan \in [pc : Pcs, pass : 0..MaxPasses, pos : Nat, stamp : Nat, cur : SUBSET Pids,
                   missed : SUBSET Pids,
                   known : SUBSET Pids, zombies : Nat, mods : SUBSET {"rootkit"}, primed : BOOLEAN]
      /\ clock \in Nat /\ births \in Seq(BirthRecord) /\ scenario.passes \in 0..MaxPasses
      /\ MaxPasses \in Nat
  BY ScenarioAssumption, HostAssumption DEF HostInv, HostTyped
<1>2. UNCHANGED <<scenario, clock, phase, procs, births, system, netlink, events, sightings, misses,
                  reported>>
  <2>1. CASE PassBegins
    BY Zenon, <2>1 DEF PassBegins, probeVars, mainVars, systemVars, walkVars
  <2>2. CASE PassSleeps
    BY <2>2 DEF PassSleeps, probeVars, mainVars, systemVars, walkVars
  <2>3. QED BY <2>1, <2>2
<1>3. /\ scan.pc \in {"top", "sleep"}
      /\ scan' = [scan EXCEPT !.pc = scan'.pc, !.pass = scan'.pass, !.pos = scan'.pos,
                              !.stamp = scan'.stamp, !.cur = scan'.cur, !.missed = scan'.missed,
                              !.zombies = scan'.zombies]
      /\ scan'.pc \in Pcs /\ scan'.stamp \in Nat /\ scan'.pos \in Nat /\ scan'.zombies \in Nat
      /\ scan'.cur \subseteq Pids /\ scan'.missed \subseteq Pids
      /\ IF scan'.pc = "walk" THEN scan'.pass = scan.pass + 1 /\ scan'.pos = 0 /\ scan'.cur = {}
                              ELSE scan'.pass = scan.pass /\ scan'.cur = scan.cur /\ scan'.missed = scan.missed
      /\ scan'.pass \in 0..MaxPasses /\ scan'.known = scan.known /\ scan'.primed = scan.primed
  <2>1. CASE PassBegins /\ stop
    BY <1>1, <2>1 DEF PassBegins
  <2>2. CASE PassBegins /\ ~stop
    <3>1. PICK missed \in SUBSET Pids :
            /\ scan.pass < scenario.passes /\ scan.pc = "top"
            /\ scan' = [scan EXCEPT !.pc = "walk", !.pass = @ + 1, !.pos = 0, !.stamp = clock,
                                    !.cur = {}, !.missed = missed, !.zombies = 0]
      <4>1. \A missed \in Unopened : missed \in SUBSET Pids
        BY DEF Unopened
      <4>2. QED BY Zenon, <2>2, <4>1 DEF PassBegins
    <3>2. scan.pass + 1 \in 0..MaxPasses
      BY <1>1, <3>1
    <3>3. QED BY <1>1, <3>1, <3>2
  <2>3. CASE PassSleeps
    BY <1>1, <2>3 DEF PassSleeps
  <2>4. QED BY <2>1, <2>2, <2>3
<1>4. HostTyped'
  <2>1. scan' \in [pc : Pcs, pass : 0..MaxPasses, pos : Nat, stamp : Nat, cur : SUBSET Pids,
                   missed : SUBSET Pids,
                   known : SUBSET Pids, zombies : Nat, mods : SUBSET {"rootkit"}, primed : BOOLEAN]
    BY <1>1, <1>3
  <2>2. QED BY <1>2, <2>1 DEF HostInv, HostTyped, BirthRecord
<1>5. WalksSeen'
  BY <1>1, <1>2, <1>3 DEF HostInv, WalksSeen, HostTyped
<1>6. BirthsKept' /\ NothingYet'
  <2>1. \A n \in DOMAIN births : births[n] \in BirthRecord
    BY <1>1
  <2>2. \A n \in DOMAIN births : births[n].born \in Nat
    BY <2>1 DEF BirthRecord
  <2>3. \A n \in DOMAIN births : births[n].born <= scan'.pass
    BY <1>1, <1>3, <2>2 DEF HostInv, BirthsKept
  <2>4. QED BY <1>2, <2>3 DEF HostInv, BirthsKept, NothingYet, Alive
<1>7. ASSUME NEW n \in DOMAIN births
      PROVE  /\ ~PassedPid(births[n].pid, scan)
             /\ PassedPid(births[n].pid, scan') => births[n].pid \in scan'.missed
  <2>1. births[n] \in BirthRecord
    BY <1>1
  <2>2. births[n].pid \in Nat
    BY <2>1, HostAssumption DEF BirthRecord
  <2>3. QED BY <1>3, <2>2 DEF PassedPid
<1>8. PollerTells'
  <2> SUFFICES ASSUME netlink = "off" PROVE PollerTells'
    BY <1>2 DEF PollerTells
  <2>1. events = <<>> /\ MetApart /\ \A m \in DOMAIN births : ToldIsKnown(m) /\ PassedIsTold(m)
    BY DEF HostInv, PollerTells
  <2>2. MetApart'
    BY <1>3, <2>1 DEF MetApart
  <2>3. ASSUME NEW m \in DOMAIN births PROVE ToldIsKnown(m)' /\ PassedIsTold(m)'
    <3>1. (Alive(m)' <=> Alive(m)) /\ scan.pc # "walk"
      BY <1>2, <1>3 DEF Alive
    <3>2. MetPid(births[m].pid, scan) => MetPid(births[m].pid, scan')
      BY <1>3, <1>7 DEF MetPid
    <3>3. ToldIsKnown(m)'
      BY <1>2, <2>1, <3>1, <3>2 DEF ToldIsKnown, ToldNow, MissedSince
    <3>4. PassedIsTold(m)'
      BY <1>2, <1>7 DEF PassedIsTold
    <3>5. QED BY <3>3, <3>4
  <2>4. QED BY <1>2, <2>1, <2>2, <2>3 DEF PollerTells
<1>9. KernelTells' /\ StartsReported'
  BY <1>2 DEF HostInv, KernelTells, StartsReported
<1>10. QED BY <1>4, <1>5, <1>6, <1>8, <1>9 DEF HostInv

-----------------------------------------------------------------------------
\* The walk.

\* The walk goes on with the least pid that is left.
LEMMA NextIsLeast ==
    ASSUME HostInv, NextPids # {}
    PROVE  NextPid \in NextPids /\ \A q \in NextPids : NextPid <= q
<1>1. NextPids \subseteq Nat
  BY HostAssumption DEF NextPids, HostInv, HostTyped
<1>2. \E p \in NextPids : \A q \in NextPids : p <= q
  BY <1>1, LeastNumber
<1>3. QED BY <1>2 DEF NextPid

\* The walk is past the next process, which it has met or missed, and what it was past.
WalkMoved(k, met) ==
    /\ k \in DOMAIN births /\ births[k].pid = NextPid /\ Alive(k) /\ NextPid \in DOMAIN procs
    /\ scan' \in [pc : {"walk"}, pass : {scan.pass}, pos : Nat, stamp : Nat,
                  cur : SUBSET Pids, missed : SUBSET Pids, known : {scan.known}, zombies : Nat,
                  mods : SUBSET {"rootkit"}, primed : {scan.primed}]
    /\ ~PassedPid(NextPid, scan) /\ PassedPid(NextPid, scan')
    /\ scan.cur \subseteq scan'.cur /\ scan.missed \subseteq scan'.missed
    /\ NextPid \in (IF met THEN scan'.cur ELSE scan'.missed)
    /\ \A m \in DOMAIN births : Alive(m) /\ m # k =>
        PassedPid(births[m].pid, scan') <=> PassedPid(births[m].pid, scan)
    /\ MetApart => MetApart'

Misses(pid) == scan' = [scan EXCEPT !.pos = pid + 1, !.missed = @ \cup {pid}]

LEMMA MeetsFacts ==
    ASSUME HostInv, scan.pc = "walk", NextPids # {}, NEW met \in BOOLEAN,
           IF met THEN Meets(NextPid) ELSE Misses(NextPid)
    PROVE  WalkMoved(procs[NextPid], met)
<1>1. /\ NextPid \in DOMAIN procs /\ NextPid >= scan.pos /\ NextPid \notin scan.missed
      /\ \A q \in DOMAIN procs : q >= scan.pos /\ q \notin scan.missed => NextPid <= q
  BY NextIsLeast DEF NextPids
<1>2. /\ DOMAIN procs \subseteq Pids /\ Pids \subseteq Nat /\ births \in Seq(BirthRecord)
      /\ scan \in [pc : {"walk"}, pass : 0..MaxPasses, pos : Nat, stamp : Nat, cur : SUBSET Pids,
                   missed : SUBSET Pids, known : SUBSET Pids, zombies : Nat,
                   mods : SUBSET {"rootkit"}, primed : BOOLEAN]
  BY HostAssumption DEF HostInv, HostTyped
<1>3. /\ procs[NextPid] \in DOMAIN births /\ births[procs[NextPid]].pid = NextPid
      /\ Alive(procs[NextPid])
  BY <1>1 DEF HostInv, HostTyped, BirthsKept, Alive
<1>4. PICK one \in {0, 1} :
        IF met
        THEN scan' = [scan EXCEPT !.pos = NextPid + 1, !.cur = @ \cup {NextPid}, !.zombies = @ + one]
        ELSE scan' = [scan EXCEPT !.pos = NextPid + 1, !.missed = @ \cup {NextPid}]
  BY DEF Meets, Misses
<1> DEFINE more == IF met THEN {NextPid} ELSE {}
           less == IF met THEN {} ELSE {NextPid}
           zombies == IF met THEN scan.zombies + one ELSE scan.zombies
<1>5. NextPid \in Nat /\ NextPid \in Pids
  BY <1>1, <1>2
<1>6. /\ scan'.pos = NextPid + 1 /\ scan'.pc = "walk"
      /\ scan'.cur = scan.cur \cup more /\ scan'.missed = scan.missed \cup less
      /\ scan' \in [pc : {"walk"}, pass : {scan.pass}, pos : Nat, stamp : Nat,
                    cur : SUBSET Pids, missed : SUBSET Pids, known : {scan.known}, zombies : Nat,
                    mods : SUBSET {"rootkit"}, primed : {scan.primed}]
  <2>1. scan' = [pc |-> scan.pc, pass |-> scan.pass, pos |-> NextPid + 1, stamp |-> scan.stamp,
                 cur |-> scan.cur \cup more, missed |-> scan.missed \cup less,
                 known |-> scan.known, zombies |-> zombies, mods |-> scan.mods,
                 primed |-> scan.primed]
    <3>1. CASE met
      BY <1>2, <1>4, <3>1
    <3>2. CASE ~met
      BY <1>2, <1>4, <3>2
    <3>3. QED BY <3>1, <3>2
  <2>2. /\ scan.pc = "walk" /\ scan.stamp \in Nat /\ scan.zombies \in Nat
        /\ scan.cur \subseteq Pids /\ scan.missed \subseteq Pids /\ scan.mods \subseteq {"rootkit"}
    BY <1>2
  <2>3. zombies \in Nat /\ NextPid + 1 \in Nat
    BY <1>4, <1>5, <2>2
  <2>5. scan.cur \cup more \subseteq Pids /\ scan.missed \cup less \subseteq Pids
    BY <1>5, <2>2
  <2> HIDE DEF more, less, zombies
  <2>4. QED BY <2>1, <2>2, <2>3, <2>5
<1>7. ~PassedPid(NextPid, scan) /\ PassedPid(NextPid, scan')
  BY <1>1, <1>2, <1>5, <1>6 DEF PassedPid
<1>8. ASSUME NEW m \in DOMAIN births, Alive(m), m # procs[NextPid]
      PROVE  PassedPid(births[m].pid, scan') <=> PassedPid(births[m].pid, scan)
  <2>1. births[m].pid \in DOMAIN procs /\ procs[births[m].pid] = m /\ births[m].pid \in Nat
    BY <1>2, <1>8 DEF Alive
  <2>2. births[m].pid # NextPid
    BY <1>8, <2>1
  <2>3. births[m].pid \in scan'.missed <=> births[m].pid \in scan.missed
    BY <1>6, <2>2
  <2>4. births[m].pid \notin scan.missed =>
            ((births[m].pid < scan.pos) <=> (births[m].pid < NextPid + 1))
    BY <1>1, <1>2, <1>5, <2>1, <2>2
  <2>5. QED BY <1>2, <1>6, <2>3, <2>4 DEF PassedPid
<1>9. ASSUME MetApart PROVE MetApart'
  <2>1. ~(NextPid \in scan.cur)
    BY <1>1, <1>2, <1>5, <1>9 DEF MetApart
  <2>2. scan'.cur \cap scan'.missed = {}
    BY <1>1, <1>4, <1>6, <1>9, <2>1 DEF MetApart
  <2>3. \A p \in scan'.cur : p < scan'.pos
    <3>1. \A p \in scan.cur : p \in Nat /\ p < scan.pos
      BY <1>2, <1>9 DEF MetApart
    <3>2. scan.pos \in Nat
      BY <1>2
    <3>3. QED BY <1>1, <1>4, <1>5, <1>6, <3>1, <3>2
  <2>4. QED BY <2>2, <2>3 DEF MetApart
<1>10. NextPid \in (IF met THEN scan'.cur ELSE scan'.missed)
  BY <1>4, <1>6
<1>11. QED BY <1>1, <1>3, <1>6, <1>7, <1>8, <1>9, <1>10 DEF WalkMoved

\* The walk passes over a process, whether it could read it or not.
LEMMA VisitKept ==
    ASSUME HostInv, Visit \/ VisitFails
    PROVE  HostInv'
<1>1. PICK met \in BOOLEAN :
        /\ scan.pc = "walk" /\ NextPids # {} /\ (met => ~New(NextPid))
        /\ IF met THEN Meets(NextPid) ELSE Misses(NextPid)
        /\ UNCHANGED <<scenario, clock, phase, procs, births, system, netlink, events, sightings,
                       misses, reported>>
  BY DEF Visit, VisitFails, Misses, probeVars, mainVars, systemVars, walkVars
<1>2. PICK k : k = procs[NextPid]
  OBVIOUS
<1>3. WalkMoved(k, met)
  BY <1>1, <1>2, MeetsFacts
<1>4. /\ scan'.pc = "walk" /\ scan'.pass = scan.pass /\ scan'.known = scan.known
      /\ scan'.primed = scan.primed
  BY <1>3 DEF WalkMoved
<1>5. HostTyped'
  <2>1. scan' \in [pc : {"top", "walk", "sleep", "done"}, pass : 0..MaxPasses, pos : Nat,
                   stamp : Nat, cur : SUBSET Pids, missed : SUBSET Pids, known : SUBSET Pids,
                   zombies : Nat, mods : SUBSET {"rootkit"}, primed : BOOLEAN]
    BY <1>3 DEF WalkMoved, HostInv, HostTyped
  <2>2. QED BY <1>1, <2>1 DEF HostInv, HostTyped, BirthRecord
<1>6. WalksSeen' /\ BirthsKept' /\ NothingYet'
  BY <1>1, <1>4 DEF HostInv, WalksSeen, BirthsKept, NothingYet, Alive
<1>7. PollerTells'
  <2> SUFFICES ASSUME netlink = "off" PROVE PollerTells'
    BY <1>1 DEF PollerTells
  <2>1. events = <<>> /\ MetApart /\ \A m \in DOMAIN births : ToldIsKnown(m) /\ PassedIsTold(m)
    BY DEF HostInv, PollerTells
  <2>2. ASSUME NEW m \in DOMAIN births PROVE ToldIsKnown(m)' /\ PassedIsTold(m)'
    <3>1. (Alive(m)' <=> Alive(m)) /\ ToldIsKnown(m) /\ PassedIsTold(m)
      BY <1>1, <2>1 DEF Alive
    <3>2. Alive(m) /\ MetPid(births[m].pid, scan) => MetPid(births[m].pid, scan')
      <4>1. CASE m = k
        BY <1>3, <4>1 DEF WalkMoved, MetPid
      <4>2. CASE m # k
        BY <1>3, <1>4, <4>2 DEF WalkMoved, MetPid
      <4>3. QED BY <4>1, <4>2
    <3>3. ToldNow(m) => ToldNow(m)'
      BY <1>1, <1>3, <1>4, <3>1 DEF ToldNow, WalkMoved
    <3>4. ToldIsKnown(m)'
      BY <1>1, <3>1, <3>2, <3>3 DEF ToldIsKnown, MissedSince
    <3>5. PassedIsTold(m)'
      <4>1. CASE m = k
        <5>1. CASE met
          BY <1>1, <1>2, <1>3, <1>4, <4>1, <5>1 DEF PassedIsTold, New, EmitExecs, WalkMoved
        <5>2. CASE ~met
          BY <1>1, <1>3, <4>1, <5>2 DEF PassedIsTold, WalkMoved
        <5>3. QED BY <5>1, <5>2
      <4>2. CASE m # k
        BY <1>1, <1>3, <1>4, <3>1, <4>2 DEF PassedIsTold, WalkMoved
      <4>3. QED BY <4>1, <4>2
    <3>6. QED BY <3>4, <3>5
  <2>3. MetApart'
    BY <1>3, <2>1 DEF WalkMoved
  <2>4. QED BY <1>1, <2>1, <2>2, <2>3 DEF PollerTells
<1>8. KernelTells' /\ StartsReported'
  BY <1>1 DEF HostInv, KernelTells, StartsReported
<1>9. QED BY <1>5, <1>6, <1>7, <1>8 DEF HostInv

\* What is appended to what was told comes after it, with a walk between that missed it.
LEMMA MissedAppended ==
    ASSUME NEW told \in Seq(Nat), NEW pid, NEW missed \in Seq(SUBSET Pids), NEW now \in Nat,
           MissedBetween(told, pid, missed),
           told # <<>> => \E p \in DOMAIN missed : Last(told) < p /\ p < now /\ pid \in missed[p]
    PROVE  MissedBetween(Append(told, now), pid, missed)
<1>1. PICK more : more = Append(told, now)
  OBVIOUS
<1>2. /\ Len(told) \in Nat /\ Len(more) = Len(told) + 1 /\ more[Len(told) + 1] = now
      /\ \A i \in 1..Len(told) : more[i] = told[i]
  BY <1>1
<1>3. ASSUME NEW i \in 1..(Len(more) - 1)
      PROVE  \E p \in DOMAIN missed : more[i] < p /\ p < more[i + 1] /\ pid \in missed[p]
  <2>1. CASE i = Len(told)
    <3>1. told # <<>> /\ more[i] = Last(told) /\ more[i + 1] = now
      BY <1>2, <1>3, <2>1 DEF Last
    <3>2. QED BY <3>1
  <2>2. CASE i # Len(told)
    <3>1. i \in 1..(Len(told) - 1) /\ i \in 1..Len(told) /\ i + 1 \in 1..Len(told)
      BY <1>2, <1>3, <2>2
    <3>3. more[i] = told[i] /\ more[i + 1] = told[i + 1]
      BY <1>2, <3>1
    <3>2. QED BY <3>1, <3>3 DEF MissedBetween
  <2>3. QED BY <2>1, <2>2
<1>4. QED BY <1>1, <1>3 DEF MissedBetween

\* The next process is reported: it was alive and not known, so if it has been told
\* before, a walk has missed it since.
LEMMA VisitNewKept ==
    ASSUME HostInv, VisitNew
    PROVE  HostInv'
<1>1. PICK k : k = procs[NextPid]
  OBVIOUS
<1>2. /\ scan.pc = "walk" /\ NextPids # {} /\ New(NextPid) /\ Meets(NextPid)
      /\ reported' = [reported EXCEPT ![k] = Append(@, scan.pass)]
      /\ UNCHANGED <<scenario, clock, phase, netlink, events, sightings, misses>>
      /\ UNCHANGED systemVars \/ Dies(NextPid)
  BY <1>1 DEF VisitNew, Tell, mainVars, walkVars
<1>3. WalkMoved(k, TRUE)
  BY <1>1, <1>2, MeetsFacts
<1>4. /\ scan'.pc = "walk" /\ scan'.pass = scan.pass /\ scan'.known = scan.known
      /\ scan'.primed = scan.primed /\ NextPid \in DOMAIN procs
      /\ k \in DOMAIN births /\ births[k].pid = NextPid /\ Alive(k)
  BY <1>3 DEF WalkMoved
<1>5. SystemLeft
  BY <1>2, <1>4, EndedOrNot DEF HostInv
<1>6. /\ BirthRecord' = BirthRecord /\ BirthsKept'
      /\ \A p \in DOMAIN procs' : procs'[p] \in DOMAIN births' /\ p \in Pids
  BY <1>2, <1>4, <1>5, LeftKept
<1>7. /\ netlink = "off" /\ births[k].pid \notin scan.known
      /\ reported \in Seq(Seq(Nat)) /\ DOMAIN reported = DOMAIN births /\ reported[k] \in Seq(Nat)
      /\ misses \in Seq(SUBSET Pids) /\ Len(misses) = Len(sightings) /\ Len(sightings) \in Nat
      /\ scan.pass = Len(sightings) + 1 /\ scan.pass \in Nat
  <2>1. netlink = "off" /\ births[k].pid \notin scan.known
    BY <1>2, <1>4 DEF New, EmitExecs
  <2>2. reported \in Seq(Seq(Nat)) /\ DOMAIN reported = DOMAIN births
    BY DEF HostInv, HostTyped
  <2>3. reported[k] \in Seq(Nat)
    BY <1>4, <2>2
  <2>4. misses \in Seq(SUBSET Pids) /\ Len(misses) = Len(sightings) /\ Len(sightings) \in Nat
    BY DEF HostInv, HostTyped
  <2>5. scan.pass = Len(sightings) + 1
    BY <1>2 DEF HostInv, WalksSeen
  <2>6. QED BY <2>1, <2>2, <2>3, <2>4, <2>5
<1>8. reported[k] # <<>> => MissedSince(k)
  <2>1. ~MetPid(births[k].pid, scan)
    BY <1>3, <1>4, <1>7 DEF WalkMoved, MetPid
  <2>2. QED BY <1>4, <1>7, <2>1 DEF HostInv, PollerTells, ToldIsKnown
<1>9. /\ reported' \in Seq(Seq(Nat)) /\ Len(reported') = Len(reported)
      /\ reported'[k] = Append(reported[k], scan.pass) /\ reported'[k] # <<>>
      /\ Last(reported'[k]) = scan.pass
      /\ \A m \in DOMAIN births : m # k => reported'[m] = reported[m]
  <2>1. Append(reported[k], scan.pass) \in Seq(Nat)
    BY <1>7
  <2>2. /\ reported'[k] = Append(reported[k], scan.pass)
        /\ \A m \in DOMAIN births : m # k => reported'[m] = reported[m]
    BY <1>2, <1>4, <1>7
  <2>3. reported' \in Seq(Seq(Nat)) /\ Len(reported') = Len(reported)
    BY <1>2, <1>4, <1>7, <2>1
  <2>4. reported'[k] # <<>> /\ Last(reported'[k]) = scan.pass
    <3>1. PICK told \in Seq(Nat), now \in Nat : told = reported[k] /\ now = scan.pass
      BY <1>7
    <3>2. Append(told, now) # <<>> /\ Append(told, now)[Len(Append(told, now))] = now
      OBVIOUS
    <3>3. QED BY <2>2, <3>1, <3>2 DEF Last
  <2>5. QED BY <2>2, <2>3, <2>4
<1>10. HostTyped'
  <2>1. scan' \in [pc : {"top", "walk", "sleep", "done"}, pass : 0..MaxPasses, pos : Nat,
                   stamp : Nat, cur : SUBSET Pids, missed : SUBSET Pids, known : SUBSET Pids,
                   zombies : Nat, mods : SUBSET {"rootkit"}, primed : BOOLEAN]
    BY <1>3 DEF WalkMoved, HostInv, HostTyped
  <2>2. QED BY <1>2, <1>5, <1>6, <1>9, <2>1 DEF HostInv, HostTyped, SystemLeft
<1>11. WalksSeen' /\ NothingYet'
  <2>1. births # <<>>
    BY <1>4
  <2>2. phase # "ready"
    BY <2>1 DEF HostInv, NothingYet
  <2>3. QED BY <1>2, <1>4, <2>2 DEF HostInv, WalksSeen, NothingYet
<1>12. PollerTells'
  <2>1. events = <<>> /\ MetApart /\ \A m \in DOMAIN births : ToldIsKnown(m) /\ PassedIsTold(m)
    BY <1>7 DEF HostInv, PollerTells
  <2>2. ASSUME NEW m \in DOMAIN births PROVE ToldIsKnown(m)' /\ PassedIsTold(m)'
    <3>1. /\ births'[m].pid = births[m].pid /\ births'[m].program = births[m].program
          /\ births'[m].born = births[m].born /\ (Alive(m)' => Alive(m))
      BY <1>5 DEF SystemLeft
    <3>2. CASE m = k
      <4>1. ToldNow(m)'
        <5>1. births'[m].pid = NextPid /\ NextPid \in scan'.cur
          BY <1>3, <1>4, <3>1, <3>2 DEF WalkMoved
        <5>2. QED BY <1>4, <1>9, <3>2, <5>1 DEF ToldNow
      <4>2. MetPid(births'[m].pid, scan')
        BY <1>3, <1>4, <3>1, <3>2 DEF WalkMoved, MetPid
      <4>3. QED BY <1>9, <3>2, <4>1, <4>2 DEF ToldIsKnown, PassedIsTold
    <3>3. CASE m # k
      <4>1. reported'[m] = reported[m] /\ ToldIsKnown(m) /\ PassedIsTold(m)
        BY <1>9, <2>1, <3>3
      <4>2. Alive(m) /\ MetPid(births[m].pid, scan) => MetPid(births[m].pid, scan')
        BY <1>3, <1>4, <3>3 DEF WalkMoved, MetPid
      <4>3. ToldNow(m) => ToldNow(m)'
        BY <1>3, <1>4, <3>1, <4>1 DEF ToldNow, WalkMoved
      <4>4. ToldIsKnown(m)'
        BY <1>2, <3>1, <4>1, <4>2, <4>3 DEF ToldIsKnown, MissedSince
      <4>5. PassedIsTold(m)'
        BY <1>3, <1>4, <3>1, <3>3, <4>1 DEF PassedIsTold, WalkMoved
      <4>6. QED BY <4>4, <4>5
    <3>4. QED BY <3>2, <3>3
  <2>3. DOMAIN births' = DOMAIN births /\ events' = <<>>
    BY <1>2, <1>5, <2>1 DEF SystemLeft
  <2>4. MetApart'
    BY <1>3, <2>1 DEF WalkMoved
  <2>5. QED BY <2>2, <2>3, <2>4 DEF PollerTells
<1>13. KernelTells'
  BY <1>2, <1>7 DEF KernelTells
<1>14. StartsReported'
  <2>1. ASSUME NEW m \in DOMAIN births
        PROVE  (ToldOnce(m) /\ NewIsTold(m) /\ MissedBetween(reported[m], births[m].pid, misses))'
    <3>1. /\ births'[m].pid = births[m].pid /\ births'[m].program = births[m].program
          /\ births'[m].born = births[m].born
      BY <1>5 DEF SystemLeft
    <3>2. ToldOnce(m) /\ NewIsTold(m) /\ MissedBetween(reported[m], births[m].pid, misses)
      BY StartsParts DEF HostInv
    <3>3. NewIsTold(m)'
      <4>1. \A p \in DOMAIN sightings : p \in Nat /\ (p <= births'[m].ended => p <= births[m].ended)
        BY <1>5, LeftOver
      <4>2. reported[m] # <<>> => reported'[m] # <<>>
        BY <1>9
      <4>3. QED BY <1>2, <3>1, <3>2, <4>1, <4>2 DEF NewIsTold
    <3>4. MissedBetween(reported'[m], births'[m].pid, misses')
      <4>1. CASE m = k
        <5>1. reported[k] # <<>> => \E p \in DOMAIN misses :
                Last(reported[k]) < p /\ p < scan.pass /\ births[k].pid \in misses[p]
          <6>1. \A p \in DOMAIN misses : p < scan.pass
            BY <1>7
          <6>2. QED BY <1>8, <6>1 DEF MissedSince
        <5>2. PICK told, pid : told = reported[k] /\ pid = births[k].pid
          OBVIOUS
        <5>3. MissedBetween(Append(told, scan.pass), pid, misses)
          BY <1>7, <3>2, <4>1, <5>1, <5>2, MissedAppended
        <5>4. QED BY <1>2, <1>9, <3>1, <4>1, <5>2, <5>3
      <4>2. CASE m # k
        BY <1>2, <1>9, <3>1, <3>2, <4>2
      <4>3. QED BY <4>1, <4>2
    <3>5. QED BY <1>2, <1>7, <3>3, <3>4 DEF ToldOnce
  <2>2. DOMAIN births' = DOMAIN births
    BY <1>5 DEF SystemLeft
  <2>3. StartsReported' <=>
          \A m \in DOMAIN births' :
            (ToldOnce(m) /\ NewIsTold(m) /\ MissedBetween(reported[m], births[m].pid, misses))'
    BY DEF StartsReported, ToldOnce, MissedBetween, NewIsTold
  <2>4. QED BY <2>1, <2>2, <2>3
<1>15. QED BY <1>6, <1>10, <1>11, <1>12, <1>13, <1>14 DEF HostInv

\* A walk is complete: what is alive was passed.
LEMMA PassEndsKept ==
    ASSUME HostInv, PassEnds
    PROVE  HostInv'
<1>1. PICK len : len = Len(sightings)
  OBVIOUS
<1>2. PICK modules \in SUBSET {"rootkit"} :
      /\ scan.pc = "walk" /\ NextPids = {} /\ sightings' = Append(sightings, scan.cur)
      /\ misses' = Append(misses, scan.missed)
      /\ scan' = [scan EXCEPT !.pc = "sleep", !.known = scan.cur, !.primed = TRUE,
                              !.mods = @ \cup modules]
      /\ UNCHANGED <<scenario, clock, phase, procs, births, system, netlink, events, reported>>
  <2>1. \A modules \in ModulesRead : modules \in SUBSET {"rootkit"}
    BY DEF ModulesRead, HostInv, HostTyped
  <2>2. PICK modules \in ModulesRead :
          scan' = [scan EXCEPT !.pc = "sleep", !.known = Known, !.primed = TRUE,
                               !.mods = @ \cup modules]
    BY Zenon DEF PassEnds
  <2>3. /\ scan.pc = "walk" /\ NextPids = {} /\ sightings' = Append(sightings, scan.cur)
        /\ misses' = Append(misses, scan.missed)
        /\ UNCHANGED <<scenario, clock, phase, procs, births, system, netlink, events, reported>>
    BY DEF PassEnds, mainVars, systemVars
  <2>4. modules \in SUBSET {"rootkit"} /\ Known = scan.cur
    BY <2>1, <2>2 DEF Known
  <2>5. QED BY Zenon, <2>2, <2>3, <2>4
<1>3. /\ scan \in [pc : {"top", "walk", "sleep", "done"}, pass : 0..MaxPasses, pos : Nat,
                   stamp : Nat, cur : SUBSET Pids, missed : SUBSET Pids, known : SUBSET Pids, zombies : Nat,
                   mods : SUBSET {"rootkit"}, primed : BOOLEAN]
      /\ modules \subseteq {"rootkit"} /\ MaxPasses \in Nat
      /\ misses \in Seq(SUBSET Pids) /\ DOMAIN misses = 1..len
      /\ births \in Seq(BirthRecord) /\ DOMAIN procs \subseteq Nat
      /\ sightings \in Seq(SUBSET Pids) /\ len \in Nat /\ DOMAIN sightings = 1..len
  <2>1. misses \in Seq(SUBSET Pids) /\ Len(misses) = len
    BY <1>1 DEF HostInv, HostTyped
  <2>2. sightings \in Seq(SUBSET Pids) /\ DOMAIN procs \subseteq Pids
    BY DEF HostInv, HostTyped
  <2>3. len \in Nat /\ DOMAIN sightings = 1..len
    BY <1>1, <2>2
  <2>4. scan \in [pc : {"top", "walk", "sleep", "done"}, pass : 0..MaxPasses, pos : Nat,
                  stamp : Nat, cur : SUBSET Pids, missed : SUBSET Pids, known : SUBSET Pids, zombies : Nat,
                  mods : SUBSET {"rootkit"}, primed : BOOLEAN]
    BY DEF HostInv, HostTyped
  <2>5. births \in Seq(BirthRecord)
    BY DEF HostInv, HostTyped
  <2>6. DOMAIN misses = 1..len
    BY <2>1, <2>3
  <2>7. DOMAIN procs \subseteq Nat /\ MaxPasses \in Nat
    BY <2>2, HostAssumption
  <2>8. QED BY <1>2, <2>1, <2>2, <2>3, <2>4, <2>5, <2>6, <2>7
<1>4. /\ scan' = [scan EXCEPT !.pc = "sleep", !.known = scan.cur, !.primed = TRUE,
                              !.mods = scan.mods \cup modules]
      /\ scan'.pc = "sleep" /\ scan'.pass = scan.pass /\ scan'.known = scan.cur
      /\ scan'.primed = TRUE
      /\ scan' \in [pc : {"top", "walk", "sleep", "done"}, pass : 0..MaxPasses, pos : Nat,
                    stamp : Nat, cur : SUBSET Pids, missed : SUBSET Pids, known : SUBSET Pids, zombies : Nat,
                    mods : SUBSET {"rootkit"}, primed : BOOLEAN]
  <2>1. scan' = [pc |-> "sleep", pass |-> scan.pass, pos |-> scan.pos, stamp |-> scan.stamp,
                 cur |-> scan.cur, missed |-> scan.missed, known |-> scan.cur, zombies |-> scan.zombies,
                 mods |-> scan.mods \cup modules, primed |-> TRUE]
    BY <1>2, <1>3
  <2>2. /\ scan.pass \in 0..MaxPasses /\ scan.pos \in Nat /\ scan.stamp \in Nat
        /\ scan.cur \in SUBSET Pids /\ scan.missed \in SUBSET Pids /\ scan.zombies \in Nat
        /\ scan.mods \cup modules \in SUBSET {"rootkit"}
    BY ONLY <1>3
  <2>3. scan' \in [pc : {"top", "walk", "sleep", "done"}, pass : 0..MaxPasses, pos : Nat,
                   stamp : Nat, cur : SUBSET Pids, missed : SUBSET Pids, known : SUBSET Pids, zombies : Nat,
                   mods : SUBSET {"rootkit"}, primed : BOOLEAN]
    <3>1. TRUE \in BOOLEAN
      OBVIOUS
    <3>2. QED BY ONLY <2>1, <2>2, <3>1
  <2>4. scan'.pc = "sleep" /\ scan'.pass = scan.pass /\ scan'.known = scan.cur
        /\ scan'.primed = TRUE
    BY ONLY <2>1
  <2>5. QED BY ONLY <1>2, <2>3, <2>4
<1>5. /\ scan.pass = len + 1 /\ (scan.primed <=> len > 0)
      /\ scan.primed => scan.known = sightings[len]
  BY <1>1, <1>2, <1>3 DEF HostInv, WalksSeen
<1>6. /\ sightings' \in Seq(SUBSET Pids) /\ Len(sightings') = len + 1
      /\ DOMAIN sightings' = 1..(len + 1) /\ sightings'[len + 1] = scan.cur
      /\ \A p \in 1..len : sightings'[p] = sightings[p] /\ misses'[p] = misses[p]
      /\ misses' \in Seq(SUBSET Pids) /\ Len(misses') = len + 1
      /\ DOMAIN misses' = 1..(len + 1) /\ misses'[len + 1] = scan.missed
  BY <1>1, <1>2, <1>3
<1>7. \A m \in DOMAIN births : births[m].born \in Nat /\ births[m].ended \in Nat
  <2>1. \A m \in DOMAIN births : births[m] \in BirthRecord
    BY <1>3
  <2>2. QED BY <2>1 DEF BirthRecord
<1>8. \A m \in DOMAIN births : Alive(m) => PassedPid(births[m].pid, scan)
  <2>1. ASSUME NEW m \in DOMAIN births, Alive(m), births[m].pid \notin scan.missed
        PROVE  births[m].pid < scan.pos
    <3>1. births[m].pid \in DOMAIN procs /\ births[m].pid \in Nat
      BY <1>3, <2>1 DEF Alive
    <3>2. ~(births[m].pid >= scan.pos)
      BY <1>2, <2>1, <3>1 DEF NextPids
    <3>3. QED BY <1>3, <3>1, <3>2
  <2>2. QED BY <1>2, <2>1 DEF PassedPid
<1>9. \A m \in DOMAIN births : Alive(m)' <=> Alive(m)
  BY <1>2 DEF Alive
<1>10. HostTyped'
  BY <1>2, <1>4, <1>6 DEF HostInv, HostTyped, BirthRecord
<1>11. WalksSeen'
  <2>1. sightings' # <<>>
    BY <1>6, <1>3
  <2>2. QED BY <1>3, <1>4, <1>5, <1>6, <2>1 DEF WalksSeen
<1>12. BirthsKept' /\ NothingYet'
  <2>1. \A m \in DOMAIN births : births[m].ended <= len => births[m].ended <= len + 1
    BY <1>3, <1>7
  <2>2. QED BY <1>1, <1>2, <1>4, <1>6, <1>9, <2>1 DEF HostInv, BirthsKept, NothingYet
<1>13. PollerTells'
  <2> SUFFICES ASSUME netlink = "off" PROVE PollerTells'
    BY <1>2 DEF PollerTells
  <2>1. events = <<>> /\ MetApart /\ \A m \in DOMAIN births : ToldIsKnown(m) /\ PassedIsTold(m)
    BY DEF HostInv, PollerTells
  <2>2. ASSUME NEW m \in DOMAIN births, reported[m] # <<>> PROVE ToldIsKnown(m)'
    <3>1. (Alive(m)' <=> Alive(m)) /\ ToldIsKnown(m) /\ Last(reported[m]) \in Nat
      <4>1. reported \in Seq(Seq(Nat)) /\ DOMAIN reported = DOMAIN births
        BY DEF HostInv, HostTyped
      <4>2. reported[m] \in Seq(Nat)
        BY <4>1
      <4>3. Last(reported[m]) \in Nat
        BY <2>2, <4>2 DEF Last
      <4>4. QED BY <1>9, <2>1, <4>3
    <3>2. Last(reported[m]) <= len + 1
      BY <1>1, <1>3, <1>5, <2>2, <3>1 DEF ToldIsKnown, ToldNow
    <3>3. ASSUME Alive(m) PROVE MetPid(births[m].pid, scan') \/ MissedSince(m)'
      <4>1. CASE births[m].pid \in scan.cur
        BY <1>4, <4>1 DEF MetPid, PassedPid
      <4>2. CASE births[m].pid \in scan.missed /\ births[m].pid \notin scan.cur
        <5>1. ~ToldNow(m)
          BY <3>3, <4>2 DEF ToldNow
        <5>2. Last(reported[m]) < len + 1
          BY <1>1, <1>3, <2>2, <3>1, <5>1 DEF ToldIsKnown
        <5>3. len + 1 \in DOMAIN misses' /\ births[m].pid \in misses'[len + 1]
          BY <1>3, <1>6, <4>2
        <5>4. QED BY <1>2, <5>2, <5>3 DEF MissedSince
      <4>3. CASE MissedSince(m)
        <5>1. PICK p \in DOMAIN misses : Last(reported[m]) < p /\ births[m].pid \in misses[p]
          BY <4>3 DEF MissedSince
        <5>2. p \in DOMAIN misses' /\ misses'[p] = misses[p]
          BY <1>3, <1>6
        <5>3. QED BY <1>2, <5>1, <5>2 DEF MissedSince
      <4>4. MetPid(births[m].pid, scan) \/ MissedSince(m)
        BY <2>2, <3>1, <3>3 DEF ToldIsKnown
      <4>5. MetPid(births[m].pid, scan) => births[m].pid \in scan.cur \cup scan.missed
        BY <1>8, <3>3 DEF MetPid
      <4>6. QED BY <4>1, <4>2, <4>3, <4>4, <4>5
    <3>4. QED BY <1>2, <1>6, <3>1, <3>2, <3>3 DEF ToldIsKnown
  <2>3. \A m \in DOMAIN births : PassedIsTold(m)'
    BY <1>4 DEF PassedIsTold, PassedPid
  <2>4. \A m \in DOMAIN births : ToldIsKnown(m)'
    <3>1. \A m \in DOMAIN births : reported[m] = <<>> => ToldIsKnown(m)'
      BY <1>2 DEF ToldIsKnown
    <3>2. QED BY <2>2, <3>1
  <2>5. MetApart'
    <3>1. scan'.missed = scan.missed /\ scan'.cur = scan.cur
      BY <1>2, <1>3
    <3>2. QED BY <1>4, <2>1, <3>1 DEF MetApart
  <2>6. QED BY <1>2, <2>1, <2>3, <2>4, <2>5 DEF PollerTells
<1>14. KernelTells'
  BY <1>2 DEF HostInv, KernelTells
<1>15. StartsReported'
  <2>1. ASSUME NEW m \in DOMAIN births, NEW p \in DOMAIN sightings' \ {1},
               netlink' = "off", ~births'[m].program.kthread,
               births'[m].born < p, p <= births'[m].ended,
               births'[m].pid \notin sightings'[p - 1] \cup misses'[p]
        PROVE  reported'[m] # <<>>
    <3>1. p \in Nat /\ p > 1 /\ p <= len + 1 /\ p - 1 \in 1..len
      BY <1>3, <1>6
    <3>2. sightings'[p - 1] = sightings[p - 1]
      BY <1>6, <3>1
    <3>3. CASE p <= len
      <4>1. p \in DOMAIN sightings \ {1} /\ misses'[p] = misses[p]
        BY <1>3, <1>6, <3>1, <3>3
      <4>2. QED BY <1>2, <2>1, <3>2, <4>1 DEF HostInv, StartsReported
    <3>4. CASE p = len + 1
      <4>1. Alive(m)
        <5>1. ~(births[m].ended <= len)
          BY <1>2, <1>3, <1>7, <2>1, <3>4
        <5>2. QED BY <1>1, <5>1 DEF HostInv, BirthsKept
      <4>2. PassedPid(births[m].pid, scan) /\ scan.primed /\ births[m].born < scan.pass
        BY <1>2, <1>3, <1>5, <1>8, <2>1, <3>1, <3>4, <4>1
      <4>3. births[m].pid \notin scan.known \cup scan.missed
        <5>1. p - 1 = len /\ misses'[p] = scan.missed
          BY <1>3, <1>6, <3>4
        <5>2. QED BY <1>2, <1>5, <2>1, <3>2, <4>2, <5>1
      <4>4. PassedIsTold(m)
        BY <1>2, <2>1 DEF HostInv, PollerTells
      <4>5. QED BY <1>2, <2>1, <4>1, <4>2, <4>3, <4>4 DEF PassedIsTold
    <3>5. QED BY <1>3, <3>1, <3>3, <3>4
  <2>2. ASSUME NEW m \in DOMAIN births
        PROVE  (ToldOnce(m) /\ NewIsTold(m) /\ MissedBetween(reported[m], births[m].pid, misses))'
    <3>1. ToldOnce(m) /\ MissedBetween(reported[m], births[m].pid, misses)
      BY StartsParts DEF HostInv
    <3>2. \A p \in DOMAIN misses : p \in DOMAIN misses' /\ misses'[p] = misses[p]
      BY <1>3, <1>6
    <3>3. MissedBetween(reported[m], births[m].pid, misses')
      BY <3>1, <3>2 DEF MissedBetween
    <3>4. QED BY <1>2, <2>1, <3>1, <3>3 DEF ToldOnce, NewIsTold
  <2>3. StartsReported' <=>
          \A m \in DOMAIN births' :
            (ToldOnce(m) /\ NewIsTold(m) /\ MissedBetween(reported[m], births[m].pid, misses))'
    BY DEF StartsReported, ToldOnce, MissedBetween, NewIsTold
  <2>4. QED BY <1>2, <2>2, <2>3
<1>16. QED BY <1>10, <1>11, <1>12, <1>13, <1>14, <1>15 DEF HostInv

-----------------------------------------------------------------------------
\* Every step keeps the invariant.
LEMMA HostStep ==
    ASSUME HostInv, [Next]_vars
    PROVE  HostInv'
<1>1. CASE HostOnly
  <2>1. scenario.probe = "host" /\ HostNext
    BY <1>1 DEF HostOnly
  <2>2. CASE HostOpens
    BY <2>1, <2>2, OpensKept
  <2>3. CASE \E pid \in Pids : Death(pid) \/ \E program \in scenario.inputs : Birth(pid, program)
    BY <2>3, DeathKept, BirthKept
  <2>4. CASE SystemChange
    BY <2>4, SystemChangeKept
  <2>5. CASE Receive \/ NetlinkEnds
    BY <2>5, ReceiveKept, NetlinkEndsKept
  <2>6. CASE PassBegins \/ PassSleeps
    BY <2>1, <2>6, PassStepKept
  <2>7. CASE Visit \/ VisitFails \/ VisitNew \/ PassEnds
    BY <2>7, VisitKept, VisitNewKept, PassEndsKept
  <2>8. CASE HostCaptureEnds \/ ReplayExec \/ ReplayFile \/ ReplayEnds
    BY <2>8, OthersQuiet
  <2>9. QED BY <2>1, <2>2, <2>3, <2>4, <2>5, <2>6, <2>7, <2>8 DEF HostNext
<1>2. CASE ~HostOnly
  <2>1. \/ (MainNext \/ OpensOrEnds) /\ UNCHANGED hostVars
        \/ CanNext \/ EthNext \/ UNCHANGED vars
    BY <1>2 DEF Next
  <2>2. QED BY <2>1, OthersQuiet
<1>3. QED BY <1>1, <1>2

\* The invariant holds at the start.
LEMMA HostStarts ==
    ASSUME Init
    PROVE  HostInv
<1> USE DEF Init, InitMain, InitHost
<1>1. /\ births = <<>> /\ reported = <<>> /\ sightings = <<>> /\ misses = <<>>
      /\ events = <<>> /\ procs = <<>>
  OBVIOUS
<1>2. HostTyped
  BY HostAssumption DEF HostTyped
<1>3. WalksSeen /\ BirthsKept /\ NothingYet /\ PollerTells /\ KernelTells /\ StartsReported
  BY DEF WalksSeen, BirthsKept, NothingYet, PollerTells, MetApart, KernelTells, StartsReported
<1>4. QED BY <1>2, <1>3 DEF HostInv

\* While the poller reports execs, a process that was there during a whole pass that
\* could read it, but was not met by the one before, was reported; a start is told again
\* only after a pass that could not read the process, and by the kernel never: for any
\* pids, programs, number of processes and of passes, whatever is born, ends and is met
\* while a walk is on its way, and whatever of /proc cannot be opened.
THEOREM StartsTold == Spec => []StartsReported
<1>1. Init => HostInv
  BY HostStarts
<1>2. HostInv /\ [Next]_vars => HostInv'
  BY HostStep
<1>3. HostInv => StartsReported
  BY DEF HostInv
<1>4. QED BY <1>1, <1>2, <1>3, PTL DEF Spec

\* Where a sequence has an element, and how often.
PlacesOf(s, e) == {i \in DOMAIN s : s[i] = e}
Times(s, e) == Cardinality(PlacesOf(s, e))

\* An element is in finitely many places.
LEMMA TimesCount ==
    ASSUME NEW T, NEW s \in Seq(T), NEW e
    PROVE  IsFiniteSet(PlacesOf(s, e)) /\ Times(s, e) \in Nat
<1>1. IsFiniteSet(1..Len(s))
  BY FS_Interval
<1>2. PlacesOf(s, e) \in SUBSET (1..Len(s))
  BY DEF PlacesOf
<1>3. IsFiniteSet(PlacesOf(s, e))
  BY <1>1, <1>2, FS_Subset
<1>4. QED BY <1>3, FS_CardinalityType DEF Times

\* The two parts of a sequence each have their places of an element.
LEMMA TimesJoined ==
    ASSUME NEW T, NEW s \in Seq(T), NEW t \in Seq(T), NEW e
    PROVE  Times(s \o t, e) = Times(s, e) + Times(t, e)
<1>1. PICK n : n = Len(s)
  OBVIOUS
<1> DEFINE moved == {i + n : i \in PlacesOf(t, e)}
<1>2. /\ n \in Nat /\ DOMAIN s = 1..n /\ DOMAIN t = 1..Len(t) /\ Len(t) \in Nat
      /\ DOMAIN (s \o t) = 1..(n + Len(t))
      /\ \A i \in 1..n : (s \o t)[i] = s[i]
      /\ \A i \in 1..Len(t) : (s \o t)[i + n] = t[i]
  BY <1>1
<1>3. PlacesOf(s \o t, e) = PlacesOf(s, e) \cup moved
  <2>1. ASSUME NEW i \in PlacesOf(s \o t, e), i \notin PlacesOf(s, e) PROVE i \in moved
    <3>1. i \in 1..(n + Len(t)) /\ (s \o t)[i] = e
      BY <1>2 DEF PlacesOf
    <3>2. i \notin 1..n
      BY <1>2, <2>1, <3>1 DEF PlacesOf
    <3>3. i - n \in 1..Len(t) /\ i = (i - n) + n
      BY <1>2, <3>1, <3>2
    <3>4. i - n \in PlacesOf(t, e)
      BY <1>2, <3>1, <3>3 DEF PlacesOf
    <3>5. QED BY <3>3, <3>4
  <2>2. ASSUME NEW i \in PlacesOf(s, e) PROVE i \in PlacesOf(s \o t, e)
    BY <1>2 DEF PlacesOf
  <2>3. ASSUME NEW i \in PlacesOf(t, e) PROVE i + n \in PlacesOf(s \o t, e)
    <3>1. i \in 1..Len(t) /\ t[i] = e
      BY <1>2 DEF PlacesOf
    <3>2. i + n \in 1..(n + Len(t))
      BY <1>2, <3>1
    <3>3. QED BY <1>2, <3>1, <3>2 DEF PlacesOf
  <2>4. QED BY <2>1, <2>2, <2>3
<1>4. IsFiniteSet(moved) /\ Cardinality(moved) = Times(t, e)
  <2> DEFINE f == [i \in PlacesOf(t, e) |-> i + n]
  <2>1. \A i \in PlacesOf(t, e) : i \in Nat
    BY <1>2 DEF PlacesOf
  <2>2. f \in [PlacesOf(t, e) -> moved] /\ \A i \in PlacesOf(t, e) : f[i] = i + n
    OBVIOUS
  <2>3. \A i, j \in PlacesOf(t, e) : f[i] = f[j] => i = j
    BY <1>2, <2>1, <2>2
  <2>4. \A m \in moved : \E i \in PlacesOf(t, e) : f[i] = m
    BY <2>2
  <2>5. f \in Bijection(PlacesOf(t, e), moved)
    BY <2>2, <2>3, <2>4, Fun_IsBij
  <2>6. ExistsBijection(PlacesOf(t, e), moved)
    BY <2>5 DEF ExistsBijection
  <2>7. IsFiniteSet(PlacesOf(t, e))
    BY TimesCount
  <2>8. QED BY <2>6, <2>7, FS_Bijection DEF Times
<1>5. PlacesOf(s, e) \cap moved = {}
  BY <1>2 DEF PlacesOf
<1>6. IsFiniteSet(PlacesOf(s, e))
  BY TimesCount
<1> HIDE DEF moved
<1>7. Cardinality(PlacesOf(s, e) \cup moved) = Times(s, e) + Times(t, e)
  <2>1. Cardinality(PlacesOf(s, e) \cup moved)
          = Cardinality(PlacesOf(s, e)) + Cardinality(moved) - Cardinality(PlacesOf(s, e) \cap moved)
    BY <1>4, <1>6, FS_Union
  <2>2. Cardinality(PlacesOf(s, e) \cap moved) = 0
    BY <1>5, FS_EmptySet
  <2>3. Times(s, e) \in Nat /\ Times(t, e) \in Nat
    BY TimesCount
  <2>4. QED BY <1>4, <2>1, <2>2, <2>3 DEF Times
<1>8. QED BY <1>3, <1>7 DEF Times

\* The first element is taken.
LEMMA TimesOfTail ==
    ASSUME NEW T, NEW s \in Seq(T), s # <<>>, NEW e
    PROVE  Times(Tail(s), e) = IF e = Head(s) THEN Times(s, e) - 1 ELSE Times(s, e)
<1>1. Head(s) \in T /\ Tail(s) \in Seq(T) /\ <<Head(s)>> \in Seq(T) /\ <<Head(s)>> \o Tail(s) = s
  <2>1. Head(s) \in T /\ Tail(s) \in Seq(T)
    BY HeadAndTail
  <2>2. <<Head(s)>> \o Tail(s) = s
    BY JoinedSequences
  <2>3. QED BY <2>1, <2>2
<1>2. Times(s, e) = Times(<<Head(s)>>, e) + Times(Tail(s), e)
  <2>1. PICK a \in Seq(T), b \in Seq(T) : a = <<Head(s)>> /\ b = Tail(s)
    BY <1>1
  <2>2. Times(a \o b, e) = Times(a, e) + Times(b, e)
    BY TimesJoined
  <2>3. a \o b = s
    BY <1>1, <2>1
  <2>4. QED BY <2>1, <2>2, <2>3
<1>3. Times(<<Head(s)>>, e) = IF e = Head(s) THEN 1 ELSE 0
  <2>1. PlacesOf(<<Head(s)>>, e) = IF e = Head(s) THEN {1} ELSE {}
    BY DEF PlacesOf
  <2>2. QED BY <2>1, FS_EmptySet, FS_Singleton DEF Times
<1>4. Times(Tail(s), e) \in Nat
  BY <1>1, TimesCount
<1>5. QED BY <1>2, <1>3, <1>4

-----------------------------------------------------------------------------
\* What the detectors make of an input is a sequence of alerts.

\* When is one alert, or none.
LEMMA WhenIsSeq ==
    ASSUME NEW raised, NEW sev, NEW kind, NEW key
    PROVE  IsSeq(When(raised, sev, kind, key))
BY SingleSeq DEF When

IsThose(f, s, places, m) ==
    f = [n \in 0..m |-> IF n = 0 THEN <<>>
                        ELSE IF n \in places THEN Append(f[n - 1], s[n]) ELSE f[n - 1]]

\* The function that Those is the last value of.
LEMMA ThoseExist ==
    ASSUME NEW s, NEW places, NEW m \in Nat
    PROVE  \E f : IsThose(f, s, places, m)
<1> DEFINE P == {n \in Nat : \E f : IsThose(f, s, places, n)}
<1>1. 0 \in P
  <2>1. IsThose([n \in 0..0 |-> <<>>], s, places, 0)
    BY DEF IsThose
  <2>2. QED BY <2>1
<1>2. ASSUME NEW k \in Nat, k \in P PROVE k + 1 \in P
  <2>1. PICK f : IsThose(f, s, places, k)
    BY <1>2
  <2>2. PICK last : last = IF k + 1 \in places THEN Append(f[k], s[k + 1]) ELSE f[k]
    OBVIOUS
  <2> DEFINE g == [n \in 0..(k + 1) |-> IF n = k + 1 THEN last ELSE f[n]]
  <2>3. \A n \in 0..k : g[n] = f[n]
    OBVIOUS
  <2>4. \A n \in 0..k : f[n] = IF n = 0 THEN <<>>
                               ELSE IF n \in places THEN Append(f[n - 1], s[n]) ELSE f[n - 1]
    BY <2>1 DEF IsThose
  <2>5. g[k + 1] = last /\ g = [n \in 0..(k + 1) |-> g[n]]
    OBVIOUS
  <2> HIDE DEF g
  <2>6. ASSUME NEW n \in 0..(k + 1)
        PROVE  g[n] = IF n = 0 THEN <<>>
                      ELSE IF n \in places THEN Append(g[n - 1], s[n]) ELSE g[n - 1]
    <3>1. CASE n = k + 1
      <4>1. n # 0 /\ n - 1 = k /\ k \in 0..k
        BY <3>1
      <4>2. QED BY <2>2, <2>3, <2>5, <3>1, <4>1
    <3>2. CASE n # k + 1
      <4>1. n \in 0..k /\ (n # 0 => n - 1 \in 0..k)
        BY <3>2
      <4>2. QED BY <2>3, <2>4, <4>1
    <3>3. QED BY <3>1, <3>2
  <2>7. IsThose(g, s, places, k + 1)
    BY <2>5, <2>6 DEF IsThose
  <2>8. QED BY <2>7
<1> HIDE DEF P
<1>3. m \in P
  BY <1>1, <1>2, NumberInduction
<1>4. QED BY <1>3 DEF P

\* Those is a sequence of what is at these places.
LEMMA ThoseIn ==
    ASSUME NEW s, IsSeq(s), NEW places, NEW T, \A n \in DOMAIN s \cap places : s[n] \in T
    PROVE  Those(s, places) \in Seq(T)
<1>1. PICK m \in Nat : m = Len(s) /\ DOMAIN s = 1..m
  BY DEF IsSeq
<1>2. \A n \in 1..m : n \in places => s[n] \in T
  BY <1>1
<1> DEFINE first == CHOOSE f : IsThose(f, s, places, m)
           P     == {n \in Nat : n <= m => first[n] \in Seq(T)}
<1>3. Those(s, places) = first[m]
  BY <1>1 DEF Those, IsThose
<1>4. IsThose(first, s, places, m)
  BY ThoseExist
<1> HIDE DEF first
<1>5. \A n \in 0..m : first[n] = IF n = 0 THEN <<>>
                                 ELSE IF n \in places THEN Append(first[n - 1], s[n])
                                 ELSE first[n - 1]
  BY <1>4 DEF IsThose
<1>6. 0 \in P
  <2>1. first[0] = <<>>
    BY <1>5
  <2>2. first[0] \in Seq(T)
    BY <2>1
  <2>3. QED BY <2>2
<1>7. ASSUME NEW k \in Nat, k \in P PROVE k + 1 \in P
  <2>1. SUFFICES ASSUME k + 1 <= m PROVE first[k + 1] \in Seq(T)
    OBVIOUS
  <2>2. first[k] \in Seq(T) /\ (k + 1 \in places => s[k + 1] \in T)
    BY <1>2, <1>7, <2>1
  <2>3. first[k + 1] = IF k + 1 \in places THEN Append(first[k], s[k + 1]) ELSE first[k]
    <3>1. k + 1 \in 0..m /\ k + 1 # 0 /\ (k + 1) - 1 = k
      BY <2>1
    <3>2. QED BY <1>5, <3>1
  <2>4. QED BY <2>2, <2>3
<1> HIDE DEF P
<1>8. m \in P
  BY <1>6, <1>7, NumberInduction
<1>9. first[m] \in Seq(T)
  BY <1>8 DEF P
<1>10. QED BY <1>3, <1>9

\* Those is a sequence.
LEMMA ThoseIsSeq ==
    ASSUME NEW s, IsSeq(s), NEW places
    PROVE  IsSeq(Those(s, places))
<1>1. \A n \in DOMAIN s \cap places : s[n] \in ToSet(s)
  BY DEF ToSet
<1>2. Those(s, places) \in Seq(ToSet(s))
  BY <1>1, ThoseIn
<1>3. QED BY <1>2, AnySeq

-----------------------------------------------------------------------------
\* Sums over the parts of a finite set, which the pools of the tables are.

\* it holds the sum of the sizes w of every part of S.
Weights(it, w, S) ==
    /\ it \in [SUBSET S -> Nat] /\ it[{}] = 0
    /\ \A K \in SUBSET S, x \in S : x \notin K => it[K \cup {x}] = it[K] + w[x]

\* The sum of the sizes w of the elements of S.
Weight(w, S) == (CHOOSE it : Weights(it, w, S))[S]

\* They can be summed.
Sizes(w, S) == IsFiniteSet(S) /\ \A x \in S : w[x] \in Nat

\* The sums of a finite set are there.
LEMMA WeightsExist ==
    ASSUME NEW S, NEW w, Sizes(w, S)
    PROVE  \E it : Weights(it, w, S)
<1> DEFINE P == {n \in Nat : \A T \in SUBSET S : IsFiniteSet(T) /\ Cardinality(T) = n => \E it : Weights(it, w, T)}
<1>1. 0 \in P
  <2>1. ASSUME NEW T \in SUBSET S, IsFiniteSet(T), Cardinality(T) = 0 PROVE \E it : Weights(it, w, T)
    <3>1. T = {}
      BY <2>1, FS_EmptySet
    <3>2. PICK it : it = [K \in SUBSET T |-> 0]
      OBVIOUS
    <3>3. Weights(it, w, T)
      BY <3>1, <3>2 DEF Weights
    <3>4. QED BY <3>3
  <2>2. QED BY <2>1
<1>2. ASSUME NEW k \in Nat, k \in P PROVE k + 1 \in P
  <2>1. ASSUME NEW T \in SUBSET S, IsFiniteSet(T), Cardinality(T) = k + 1 PROVE \E it : Weights(it, w, T)
    <3>1. PICK y \in T : TRUE
      BY <2>1, FS_EmptySet
    <3>2. PICK R : R = T \ {y}
      OBVIOUS
    <3>3. IsFiniteSet(R) /\ Cardinality(R) = k
      BY <2>1, <3>1, <3>2, FS_RemoveElement
    <3>4. PICK it : Weights(it, w, R)
      BY <1>2, <3>2, <3>3
    <3>5. PICK g : g = [K \in SUBSET T |-> IF y \in K THEN it[K \ {y}] + w[y] ELSE it[K]]
      OBVIOUS
    <3>6. it \in [SUBSET R -> Nat] /\ it[{}] = 0 /\ w[y] \in Nat
      BY <3>1, <3>4 DEF Weights, Sizes
    <3>7. ASSUME NEW K \in SUBSET T PROVE g[K] \in Nat
      <4>1. K \ {y} \in SUBSET R /\ (y \notin K => K \in SUBSET R)
        BY <3>2
      <4>2. QED BY <3>5, <3>6, <4>1
    <3>8. g \in [SUBSET T -> Nat] /\ g[{}] = 0
      BY <3>5, <3>6, <3>7
    <3>9. ASSUME NEW K \in SUBSET T, NEW x \in T, x \notin K PROVE g[K \cup {x}] = g[K] + w[x]
      <4>1. CASE x = y
        <5>1. K \in SUBSET R /\ (K \cup {x}) \ {y} = K /\ y \in K \cup {x} /\ y \notin K
          BY <3>2, <3>9, <4>1
        <5>2. K \cup {x} \in SUBSET T
          OBVIOUS
        <5>3. g[K \cup {x}] = it[K] + w[y] /\ g[K] = it[K]
          BY ONLY <3>5, <5>1, <5>2, K \in SUBSET T
        <5>4. QED BY <4>1, <5>3
      <4>2. CASE x # y
        <5>1. PICK L : L = K \ {y}
          OBVIOUS
        <5>2. /\ L \in SUBSET R /\ x \in R /\ x \notin L /\ L \cup {x} = (K \cup {x}) \ {y}
              /\ y \in K \cup {x} <=> y \in K
              /\ y \notin K => L = K /\ L \cup {x} = K \cup {x}
          BY <3>2, <3>9, <4>2, <5>1
        <5>3. it[L \cup {x}] = it[L] + w[x] /\ it[L] \in Nat /\ w[x] \in Nat
          BY <3>4, <3>6, <5>2 DEF Weights, Sizes
        <5>4. CASE y \in K
          <6>1. g[K \cup {x}] = it[L \cup {x}] + w[y] /\ g[K] = it[L] + w[y]
            BY <3>5, <5>1, <5>2, <5>4
          <6>2. QED BY <3>6, <5>3, <6>1
        <5>5. CASE y \notin K
          <6>1. g[K \cup {x}] = it[L \cup {x}] /\ g[K] = it[L]
            BY <3>5, <5>2, <5>5
          <6>2. QED BY <5>3, <6>1
        <5>6. QED BY <5>4, <5>5
      <4>3. QED BY <4>1, <4>2
    <3>10. Weights(g, w, T)
      BY <3>8, <3>9 DEF Weights
    <3>11. QED BY <3>10
  <2>2. QED BY <2>1
<1> HIDE DEF P
<1>3. Cardinality(S) \in P
  BY <1>1, <1>2, NumberInduction, FS_CardinalityType DEF P, Sizes
<1>4. QED BY <1>3 DEF P, Sizes

\* However the elements are taken, one after the other, it comes to the same sum.
Taken(g, w, S) ==
    \A K \in SUBSET S :
        g[K] = IF K = {} THEN 0
               ELSE w[CHOOSE x \in K : TRUE] + g[K \ {CHOOSE x \in K : TRUE}]

\* What the folds of the community modules compute satisfies the same equations.
LEMMA WeightsTaken ==
    ASSUME NEW S, NEW w, Sizes(w, S), NEW it, Weights(it, w, S)
    PROVE  Taken(it, w, S)
<1>1. ASSUME NEW K \in SUBSET S, K # {}
      PROVE  it[K] = w[CHOOSE x \in K : TRUE] + it[K \ {CHOOSE x \in K : TRUE}]
  <2>1. PICK c : c = CHOOSE x \in K : TRUE
    OBVIOUS
  <2>2. c \in K
    BY <1>1, <2>1
  <2>3. PICK L : L = K \ {c}
    OBVIOUS
  <2>4. L \in SUBSET S /\ c \in S /\ c \notin L /\ L \cup {c} = K
    BY <2>2, <2>3
  <2>5. it[K] = it[L] + w[c] /\ it[L] \in Nat /\ w[c] \in Nat
    BY <2>4 DEF Weights, Sizes
  <2>6. QED BY <2>1, <2>3, <2>5
<1>2. QED BY <1>1 DEF Taken, Weights

\* These equations have one solution.
LEMMA TakenOnce ==
    ASSUME NEW S, NEW w, Sizes(w, S), NEW it, Weights(it, w, S), NEW g, Taken(g, w, S)
    PROVE  \A K \in SUBSET S : g[K] = it[K]
<1> DEFINE P == {n \in Nat : \A K \in SUBSET S : Cardinality(K) = n => g[K] = it[K]}
<1>0. Taken(it, w, S) /\ \A K \in SUBSET S : IsFiniteSet(K)
  BY WeightsTaken, FS_Subset DEF Sizes
<1>1. 0 \in P
  <2>1. ASSUME NEW K \in SUBSET S, Cardinality(K) = 0 PROVE g[K] = it[K]
    <3>1. K = {}
      BY <1>0, <2>1, FS_EmptySet
    <3>2. QED BY <1>0, <3>1 DEF Taken
  <2>2. QED BY <2>1
<1>2. ASSUME NEW k \in Nat, k \in P PROVE k + 1 \in P
  <2>1. ASSUME NEW K \in SUBSET S, Cardinality(K) = k + 1 PROVE g[K] = it[K]
    <3>1. PICK c : c = CHOOSE x \in K : TRUE
      OBVIOUS
    <3>2. K # {}
      BY <2>1, FS_EmptySet
    <3>3. c \in K
      BY <3>1, <3>2
    <3>4. PICK L : L = K \ {c} /\ L \in SUBSET S
      OBVIOUS
    <3>5. Cardinality(L) = k
      <4>1. Cardinality(K \ {c}) = Cardinality(K) - 1
        BY <1>0, <3>3, FS_RemoveElement
      <4>2. QED BY <2>1, <3>4, <4>1
    <3>6. g[L] = it[L]
      BY <1>2, <3>4, <3>5
    <3>7. g[K] = w[c] + g[L] /\ it[K] = w[c] + it[L]
      BY <1>0, <3>1, <3>2, <3>4 DEF Taken
    <3>8. QED BY <3>6, <3>7
  <2>2. QED BY <2>1
<1> HIDE DEF P
<1>3. ASSUME NEW K \in SUBSET S PROVE g[K] = it[K]
  <2>1. Cardinality(K) \in Nat
    BY <1>0, FS_CardinalityType
  <2>2. Cardinality(K) \in P
    BY <1>1, <1>2, <2>1, NumberInduction DEF P
  <2>3. QED BY <2>2 DEF P
<1>4. QED BY <1>3

\* The total of a part is what the sums of the whole say of it, and only the
\* sizes of its elements matter.
LEMMA WeightIs ==
    ASSUME NEW S, NEW w, Sizes(w, S), NEW it, Weights(it, w, S), NEW K \in SUBSET S,
           NEW v, \A x \in K : v[x] = w[x]
    PROVE  Weight(v, K) = it[K]
<1>1. Sizes(v, K)
  BY FS_Subset DEF Sizes
<1>2. PICK g : g = CHOOSE h : Weights(h, v, K)
  OBVIOUS
<1>3. Weights(g, v, K)
  BY <1>1, <1>2, WeightsExist
<1>4. PICK part : part = [L \in SUBSET K |-> it[L]]
  OBVIOUS
<1>5. Weights(part, v, K)
  <2>1. \A L \in SUBSET K : L \in SUBSET S /\ part[L] = it[L]
    BY <1>4
  <2>2. part \in [SUBSET K -> Nat] /\ part[{}] = 0
    BY <1>4, <2>1 DEF Weights
  <2>3. ASSUME NEW L \in SUBSET K, NEW x \in K, x \notin L
        PROVE  part[L \cup {x}] = part[L] + v[x]
    <3>1. L \cup {x} \in SUBSET K /\ x \in S
      OBVIOUS
    <3>2. it[L \cup {x}] = it[L] + w[x]
      BY <2>1, <2>3, <3>1 DEF Weights
    <3>3. QED BY <2>1, <3>1, <3>2
  <2>4. QED BY <2>2, <2>3 DEF Weights
<1>6. Taken(part, v, K)
  BY <1>1, <1>5, WeightsTaken
<1>7. part[K] = g[K]
  BY <1>1, <1>3, <1>6, TakenOnce
<1>8. QED BY <1>2, <1>4, <1>7 DEF Weight

\* A sum of sizes is a number, and that of nothing is zero.
LEMMA WeightNat ==
    ASSUME NEW S, NEW w, Sizes(w, S)
    PROVE  Weight(w, S) \in Nat /\ Weight(w, {}) = 0
<1>1. PICK it : Weights(it, w, S)
  BY WeightsExist
<1>2. Weight(w, S) = it[S] /\ Weight(w, {}) = it[{}]
  BY <1>1, WeightIs
<1>3. QED BY <1>1, <1>2 DEF Weights

\* One element more.
LEMMA WeightAdded ==
    ASSUME NEW S, NEW w, Sizes(w, S), NEW x \in S
    PROVE  Weight(w, S) = Weight(w, S \ {x}) + w[x]
<1>1. PICK it : Weights(it, w, S)
  BY WeightsExist
<1>2. PICK L : L = S \ {x}
  OBVIOUS
<1>3. L \in SUBSET S /\ x \notin L /\ L \cup {x} = S
  BY <1>2
<1>4. Weight(w, S) = it[S] /\ Weight(w, L) = it[L]
  BY <1>1, <1>3, WeightIs
<1>5. it[S] = it[L] + w[x]
  BY <1>1, <1>3 DEF Weights
<1>6. QED BY <1>2, <1>4, <1>5

\* Only the sizes of the elements matter.
LEMMA WeightSame ==
    ASSUME NEW S, NEW w, Sizes(w, S), NEW v, \A x \in S : v[x] = w[x]
    PROVE  Weight(v, S) = Weight(w, S)
<1>1. PICK it : Weights(it, w, S)
  BY WeightsExist
<1>2. Weight(v, S) = it[S] /\ Weight(w, S) = it[S]
  BY <1>1, WeightIs
<1>3. QED BY <1>2

\* A part and the rest.
LEMMA WeightSplit ==
    ASSUME NEW S, NEW w, Sizes(w, S), NEW K \in SUBSET S
    PROVE  Weight(w, S) = Weight(w, K) + Weight(w, S \ K)
<1>1. PICK it : Weights(it, w, S)
  BY WeightsExist
<1> DEFINE P == {n \in Nat : \A L \in SUBSET S : Cardinality(L) = n => it[S] = it[L] + it[S \ L]}
<1>2. \A L \in SUBSET S : IsFiniteSet(L) /\ it[L] \in Nat /\ it[S \ L] \in Nat /\ S \ L \in SUBSET S
  BY <1>1, FS_Subset DEF Weights, Sizes
<1>3. 0 \in P
  <2>1. ASSUME NEW L \in SUBSET S, Cardinality(L) = 0 PROVE it[S] = it[L] + it[S \ L]
    <3>1. L = {} /\ S \ L = S
      BY <1>2, <2>1, FS_EmptySet
    <3>2. it[L] = 0 /\ it[S \ L] = it[S]
      BY <1>1, <3>1 DEF Weights
    <3>3. it[S] \in Nat
      BY <1>2
    <3>4. QED BY ONLY <3>2, <3>3
  <2>2. QED BY <2>1
<1>4. ASSUME NEW k \in Nat, k \in P PROVE k + 1 \in P
  <2>1. ASSUME NEW L \in SUBSET S, Cardinality(L) = k + 1 PROVE it[S] = it[L] + it[S \ L]
    <3>1. PICK y \in L : TRUE
      BY <2>1, FS_EmptySet
    <3>2. PICK M : M = L \ {y}
      OBVIOUS
    <3>3. M \in SUBSET S /\ Cardinality(M) = k
      <4>1. Cardinality(L \ {y}) = Cardinality(L) - 1
        BY <1>2, <3>1, FS_RemoveElement
      <4>2. QED BY <2>1, <3>2, <4>1
    <3>4. it[S] = it[M] + it[S \ M]
      BY <1>4, <3>3
    <3>5. PICK R : R = S \ L /\ R \in SUBSET S
      OBVIOUS
    <3>6. S \ M = R \cup {y} /\ y \notin R /\ L = M \cup {y} /\ y \notin M /\ y \in S
      BY <3>1, <3>2, <3>5
    <3>7. it[R \cup {y}] = it[R] + w[y] /\ it[M \cup {y}] = it[M] + w[y]
      BY <1>1, <3>3, <3>5, <3>6 DEF Weights
    <3>8. it[R] \in Nat /\ it[M] \in Nat /\ w[y] \in Nat
      BY <1>2, <3>3, <3>5, <3>6 DEF Sizes
    <3>9. it[S \ M] = it[R] + w[y] /\ it[L] = it[M] + w[y] /\ it[S \ L] = it[R]
      BY <3>5, <3>6, <3>7
    <3>10. QED BY <3>4, <3>8, <3>9
  <2>2. QED BY <2>1
<1> HIDE DEF P
<1>5. Cardinality(K) \in P
  <2>1. Cardinality(K) \in Nat
    BY <1>2, FS_CardinalityType
  <2>2. QED BY <1>3, <1>4, <2>1, NumberInduction DEF P
<1>6. it[S] = it[K] + it[S \ K]
  BY <1>5 DEF P
<1>7. Weight(w, S) = it[S] /\ Weight(w, K) = it[K] /\ Weight(w, S \ K) = it[S \ K]
  BY <1>1, WeightIs
<1>8. QED BY <1>6, <1>7

-----------------------------------------------------------------------------
\* Lists that name every key of a table once, as the lru lists of the tables do.

\* A list that names every key of K once.
Lists(list, K) ==
    /\ list \in Seq(K) /\ \A k \in K : \E i \in DOMAIN list : list[i] = k
    /\ \A i, j \in DOMAIN list : list[i] = list[j] => i = j

\* Such a list is as long as the set that it names is large.
LEMMA ListsLength ==
    ASSUME NEW K, NEW list, Lists(list, K)
    PROVE  ToSet(list) = K /\ IsFiniteSet(K) /\ Len(list) = Cardinality(K)
<1>1. PICK n \in Nat : n = Len(list) /\ DOMAIN list = 1..n /\ list \in [1..n -> K]
  BY DEF Lists
<1>2. ToSet(list) = K
  BY <1>1 DEF ToSet, Lists
<1>3. list \in Bijection(1..n, K)
  BY <1>1 DEF Lists, Bijection, Injection, Surjection, IsInjective
<1>4. IsFiniteSet(1..n) /\ Cardinality(1..n) = n
  <2>1. Cardinality(1..n) = IF 1 > n THEN 0 ELSE n - 1 + 1
    BY FS_Interval
  <2>2. QED BY <2>1, FS_Interval
<1>5. ExistsBijection(1..n, K)
  BY <1>3 DEF ExistsBijection
<1>6. QED BY <1>1, <1>2, <1>4, <1>5, FS_Bijection

\* The empty list names nothing.
LEMMA ListsNothing == Lists(<<>>, {})
<1>1. <<>> \in Seq({}) /\ DOMAIN <<>> = {}
  OBVIOUS
<1>2. QED BY <1>1 DEF Lists

\* What the list does not name yet is appended.
LEMMA ListsAppended ==
    ASSUME NEW K, NEW list, Lists(list, K), NEW e, e \notin K
    PROVE  Lists(Append(list, e), K \cup {e})
<1>1. PICK n \in Nat : n = Len(list) /\ DOMAIN list = 1..n /\ \A i \in 1..n : list[i] \in K
  BY DEF Lists
<1>2. PICK L : L = K \cup {e}
  OBVIOUS
<1>3. list \in Seq(L) /\ e \in L
  <2>1. \A U : U \subseteq L => Seq(U) \subseteq Seq(L)
    OBVIOUS
  <2>2. QED BY <1>2, <2>1 DEF Lists
<1>4. PICK more : more = Append(list, e)
  OBVIOUS
<1>5. /\ more \in Seq(L) /\ DOMAIN more = 1..(n + 1) /\ more[n + 1] = e
      /\ \A i \in 1..n : more[i] = list[i]
  BY <1>1, <1>3, <1>4
<1>6. ASSUME NEW k \in L PROVE \E i \in DOMAIN more : more[i] = k
  <2>1. CASE k = e
    <3>1. n + 1 \in DOMAIN more
      BY <1>5
    <3>2. QED BY <1>5, <2>1, <3>1
  <2>2. CASE k # e
    <3>1. PICK i \in 1..n : list[i] = k
      BY <1>1, <1>2, <2>2 DEF Lists
    <3>2. i \in 1..(n + 1)
      OBVIOUS
    <3>3. QED BY <1>5, <3>1, <3>2
  <2>3. QED BY <2>1, <2>2
<1>7. ASSUME NEW i \in DOMAIN more, NEW j \in DOMAIN more, more[i] = more[j] PROVE i = j
  <2>1. i \in 1..n \/ i = n + 1
    BY <1>5
  <2>2. j \in 1..n \/ j = n + 1
    BY <1>5
  <2>3. CASE i \in 1..n /\ j \in 1..n
    BY <1>1, <1>5, <1>7, <2>3 DEF Lists
  <2>4. CASE i \in 1..n /\ j = n + 1
    BY <1>1, <1>5, <1>7, <2>4
  <2>5. CASE i = n + 1 /\ j \in 1..n
    BY <1>1, <1>5, <1>7, <2>5
  <2>6. QED BY <2>1, <2>2, <2>3, <2>4, <2>5
<1>8. QED BY <1>2, <1>4, <1>5, <1>6, <1>7 DEF Lists

\* The function that Others is the last value of.
IsLeft(f, list, keys, m) ==
    f = [i \in 0..m |-> IF i = 0 THEN <<>>
                        ELSE IF list[i] \in keys THEN f[i - 1] ELSE Append(f[i - 1], list[i])]

\* What Others computes, place by place, exists for every list.
LEMMA LeftExists ==
    ASSUME NEW list, NEW keys, NEW m \in Nat
    PROVE  \E f : IsLeft(f, list, keys, m)
<1> DEFINE P == {n \in Nat : \E f : IsLeft(f, list, keys, n)}
<1>1. 0 \in P
  <2>1. IsLeft([n \in 0..0 |-> <<>>], list, keys, 0)
    BY DEF IsLeft
  <2>2. QED BY <2>1
<1>2. ASSUME NEW k \in Nat, k \in P PROVE k + 1 \in P
  <2>1. PICK f : IsLeft(f, list, keys, k)
    BY <1>2
  <2>2. PICK last : last = IF list[k + 1] \in keys THEN f[k] ELSE Append(f[k], list[k + 1])
    OBVIOUS
  <2> DEFINE g == [n \in 0..(k + 1) |-> IF n = k + 1 THEN last ELSE f[n]]
  <2>3. \A n \in 0..k : g[n] = f[n]
    OBVIOUS
  <2>4. \A n \in 0..k : f[n] = IF n = 0 THEN <<>>
                               ELSE IF list[n] \in keys THEN f[n - 1] ELSE Append(f[n - 1], list[n])
    BY <2>1 DEF IsLeft
  <2>5. g[k + 1] = last /\ g = [n \in 0..(k + 1) |-> g[n]]
    OBVIOUS
  <2> HIDE DEF g
  <2>6. ASSUME NEW n \in 0..(k + 1)
        PROVE  g[n] = IF n = 0 THEN <<>>
                      ELSE IF list[n] \in keys THEN g[n - 1] ELSE Append(g[n - 1], list[n])
    <3>1. CASE n = k + 1
      <4>1. n # 0 /\ n - 1 = k /\ k \in 0..k
        BY <3>1
      <4>2. g[n - 1] = f[k] /\ g[n] = last /\ list[n] = list[k + 1]
        BY <2>3, <2>5, <3>1, <4>1
      <4>3. QED BY ONLY <2>2, <4>1, <4>2
    <3>2. CASE n # k + 1
      <4>1. n \in 0..k /\ (n # 0 => n - 1 \in 0..k)
        BY <3>2
      <4>2. g[n] = f[n] /\ (n # 0 => g[n - 1] = f[n - 1])
        BY <2>3, <4>1
      <4>3. QED BY <2>4, <4>1, <4>2
    <3>3. QED BY <3>1, <3>2
  <2>7. IsLeft(g, list, keys, k + 1)
    BY <2>5, <2>6 DEF IsLeft
  <2>8. QED BY <2>7
<1> HIDE DEF P
<1>3. m \in P
  BY <1>1, <1>2, NumberInduction DEF P
<1>4. QED BY <1>3 DEF P

\* Others leaves a list of the keys that stay.
LEMMA OthersLists ==
    ASSUME NEW K, NEW list, Lists(list, K), NEW keys
    PROVE  Lists(Others(list, keys), K \ keys)
<1>1. PICK m \in Nat : m = Len(list) /\ DOMAIN list = 1..m /\ \A i \in 1..m : list[i] \in K
  BY DEF Lists
<1> DEFINE f == CHOOSE g : IsLeft(g, list, keys, m)
           First(n) == {list[i] : i \in 1..n}
           P == {n \in Nat : n <= m => Lists(f[n], First(n) \ keys)}
<1>2. Others(list, keys) = f[m]
  BY <1>1 DEF Others, IsLeft
<1>3. IsLeft(f, list, keys, m)
  BY LeftExists
<1> HIDE DEF f
<1>4. \A n \in 0..m : f[n] = IF n = 0 THEN <<>>
                             ELSE IF list[n] \in keys THEN f[n - 1] ELSE Append(f[n - 1], list[n])
  BY <1>3 DEF IsLeft
<1>5. 0 \in P
  <2>1. f[0] = <<>>
    BY <1>4
  <2>2. First(0) \ keys = {}
    OBVIOUS
  <2>3. Lists(f[0], First(0) \ keys)
    BY ONLY <2>1, <2>2, ListsNothing
  <2>4. QED BY ONLY <2>3 DEF P
<1>6. ASSUME NEW k \in Nat, k \in P PROVE k + 1 \in P
  <2>1. SUFFICES ASSUME k + 1 <= m PROVE Lists(f[k + 1], First(k + 1) \ keys)
    OBVIOUS
  <2>2. Lists(f[k], First(k) \ keys)
    BY <1>6, <2>1
  <2>3. PICK e : e = list[k + 1]
    OBVIOUS
  <2>4. f[k + 1] = IF e \in keys THEN f[k] ELSE Append(f[k], e)
    <3>1. k + 1 \in 0..m /\ k + 1 # 0 /\ (k + 1) - 1 = k
      BY <2>1
    <3>2. QED BY <1>4, <2>3, <3>1
  <2>5. First(k + 1) = First(k) \cup {e}
    <3>1. 1..(k + 1) = 1..k \cup {k + 1}
      OBVIOUS
    <3>2. QED BY <2>3, <3>1
  <2>6. e \notin First(k)
    <3>1. ASSUME NEW i \in 1..k, list[i] = e PROVE FALSE
      <4>1. i \in DOMAIN list /\ k + 1 \in DOMAIN list /\ i # k + 1
        BY <1>1, <2>1
      <4>2. QED BY <2>3, <3>1, <4>1 DEF Lists
    <3>2. QED BY <3>1
  <2> HIDE DEF First
  <2>7. CASE e \in keys
    <3>1. First(k + 1) \ keys = First(k) \ keys
      BY <2>5, <2>7
    <3>2. QED BY <2>2, <2>4, <2>7, <3>1
  <2>8. CASE e \notin keys
    <3>1. First(k + 1) \ keys = (First(k) \ keys) \cup {e} /\ e \notin First(k) \ keys
      BY <2>5, <2>6, <2>8
    <3>2. Lists(Append(f[k], e), (First(k) \ keys) \cup {e})
      BY ONLY <2>2, <3>1, ListsAppended
    <3>3. QED BY <2>4, <2>8, <3>1, <3>2
  <2>9. QED BY <2>7, <2>8
<1>7. First(m) = K
  BY <1>1 DEF Lists
<1> HIDE DEF P, First
<1>8. m \in P
  BY <1>5, <1>6, NumberInduction DEF P
<1>9. QED BY <1>2, <1>7, <1>8 DEF P

\* A key that is touched is the last.
LEMMA ListsTouched ==
    ASSUME NEW K, NEW list, Lists(list, K), NEW key
    PROVE  Lists(Append(Others(list, {key}), key), K \cup {key})
<1>1. PICK L, others : L = K \ {key} /\ others = Others(list, {key})
  OBVIOUS
<1>2. Lists(others, L) /\ key \notin L
  BY <1>1, OthersLists
<1>3. Lists(Append(others, key), L \cup {key})
  BY <1>2, ListsAppended
<1>4. L \cup {key} = K \cup {key}
  BY <1>1
<1>5. QED BY <1>1, <1>3, <1>4

BufSizes(table) == [k \in DOMAIN table |-> Len(table[k].buf)]

\* What DefragBounded adds up is the weight of the buffers.
LEMMA BufSum ==
    ASSUME NEW d, NEW keys, keys \subseteq DOMAIN d.table, Sizes(BufSizes(d.table), keys)
    PROVE  MapThenSumSet(LAMBDA k : Len(d.table[k].buf), keys) = Weight(BufSizes(d.table), keys)
<1>1. PICK w : w = BufSizes(d.table)
  OBVIOUS
<1>2. PICK it : Weights(it, w, keys)
  BY <1>1, WeightsExist
<1> DEFINE OK(g) == g = [s \in SUBSET keys |->
                          IF s = {} THEN 0
                          ELSE Len(d.table[CHOOSE x \in s : TRUE].buf) + g[s \ {CHOOSE x \in s : TRUE}]]
           g0 == CHOOSE g : OK(g)
<1>4. MapThenSumSet(LAMBDA k : Len(d.table[k].buf), keys) = g0[keys]
  BY DEF MapThenSumSet, MapThenFoldSet
<1>5. \A s \in SUBSET keys : s # {} => Len(d.table[CHOOSE x \in s : TRUE].buf) = w[CHOOSE x \in s : TRUE]
  BY <1>1 DEF BufSizes
<1>6. OK(it)
  <2>1. Taken(it, w, keys)
    BY <1>1, <1>2, WeightsTaken
  <2>2. it = [s \in SUBSET keys |-> it[s]]
    BY <1>2 DEF Weights
  <2>3. \A s \in SUBSET keys :
            it[s] = IF s = {} THEN 0 ELSE Len(d.table[CHOOSE x \in s : TRUE].buf) + it[s \ {CHOOSE x \in s : TRUE}]
    BY <1>5, <2>1 DEF Taken
  <2>4. QED BY <2>2, <2>3
<1>7. OK(g0)
  BY <1>6
<1> HIDE DEF g0
<1>8. Taken(g0, w, keys)
  BY <1>5, <1>7 DEF Taken
<1>9. g0[keys] = it[keys]
  BY <1>1, <1>2, <1>8, TakenOnce
<1>10. Weight(w, keys) = it[keys]
  BY <1>1, <1>2, WeightIs
<1>11. QED BY <1>1, <1>4, <1>9, <1>10

-----------------------------------------------------------------------------
\* The fragment table: n is the number of packets that have come.

Byte(n) == [from : 1..n, byte : Nat]
FragmentOf(n) == [off : Nat, more : BOOLEAN, bytes : Seq(Byte(n))]

FragmentEnd(f) == f.off + Len(f.bytes)
Brings(f, p) == p - f.off \in DOMAIN f.bytes

\* Intervals that are apart, and what they cover.
Apart(covered, len) ==
    /\ covered \subseteq Nat \X Nat
    /\ \A c \in covered : c[1] < c[2] /\ c[2] <= len
    /\ \A c, d \in covered : c = d \/ c[2] < d[1] \/ d[2] < c[1]
Covered(covered, p) == \E c \in covered : c[1] < p /\ p <= c[2]

EntryShape(entry, n) ==
    /\ DOMAIN entry = {"buf", "covered", "total", "seen", "frags"}
    /\ entry.buf \in Seq(Byte(n) \cup {Hole})
    /\ entry.total \in Nat
    /\ entry.frags \in Seq(FragmentOf(n))

\* The intervals are apart, and they cover what the fragments brought.
IntervalsApart(entry) ==
    /\ Apart(entry.covered, Len(entry.buf))
    /\ \A p \in Nat \ {0} :
        Covered(entry.covered, p) <=> \E i \in DOMAIN entry.frags : Brings(entry.frags[i], p)

Contents(entry) ==
    /\ \A p \in 1..Len(entry.buf) : entry.buf[p] = FirstSeen(entry.frags, p)
    /\ entry.total <= Len(entry.buf)
    /\ entry.total > 0 =>
        \E i \in DOMAIN entry.frags :
            /\ ~entry.frags[i].more /\ entry.total = FragmentEnd(entry.frags[i])
            /\ \A j \in DOMAIN entry.frags : ~entry.frags[j].more => j <= i

EntryKept(entry, n) == EntryShape(entry, n) /\ IntervalsApart(entry) /\ Contents(entry)

EntriesKept(d, n) ==
    /\ DOMAIN d = {"table", "lru", "mem"}
    /\ \A k \in DOMAIN d.table : EntryKept(d.table[k], n) /\ ~IsComplete(d.table[k])

Whole(d) ==
    LET lasts == {i \in DOMAIN d.frags : ~d.frags[i].more}
    IN  /\ d.total = d.frags[Max(lasts)].off + Len(d.frags[Max(lasts)].bytes)
        /\ \A p \in 1..d.total : d.buf[p] = FirstSeen(d.frags, p) /\ d.buf[p] # Hole

\* The merged intervals are apart, and cover what was covered and what has come.
LEMMA MergedKept ==
    ASSUME NEW covered, NEW len \in Nat, Apart(covered, len),
           NEW begin \in Nat, NEW end \in Nat, begin < end, end <= len
    PROVE  /\ Apart(Merged(covered, begin, end), len)
           /\ \A p \in Nat \ {0} : Covered(Merged(covered, begin, end), p)
                <=> (begin < p /\ p <= end) \/ Covered(covered, p)
<1> PICK merged : merged = Merged(covered, begin, end)
  OBVIOUS
<1>0. /\ covered \subseteq Nat \X Nat
      /\ \A c \in covered : c[1] < c[2] /\ c[2] <= len
      /\ \A c, d \in covered : c = d \/ c[2] < d[1] \/ d[2] < c[1]
  BY DEF Apart
<1>1. PICK met : met = {c \in covered : c[1] <= end /\ c[2] >= begin}
  OBVIOUS
<1>2. \A c \in covered : c[1] \in Nat /\ c[2] \in Nat /\ c = <<c[1], c[2]>>
  BY <1>0
<1>3. PICK first \in Nat : /\ first = Min({begin} \cup {c[1] : c \in met})
                           /\ first = begin \/ \E c \in met : first = c[1]
                           /\ first <= begin /\ \A c \in met : first <= c[1]
  <2>1. PICK T : T = {begin} \cup {c[1] : c \in met}
    OBVIOUS
  <2>2. T \subseteq Nat /\ T # {}
    BY <1>1, <1>2, <2>1
  <2>3. PICK x \in T : \A y \in T : x <= y
    BY <2>2, LeastNumber
  <2>4. Min(T) = x
    BY <2>2, <2>3, LeastIs
  <2>5. QED BY <2>1, <2>2, <2>3, <2>4
<1>4. PICK last \in Nat : /\ last = Max({end} \cup {c[2] : c \in met})
                          /\ last = end \/ \E c \in met : last = c[2]
                          /\ end <= last /\ \A c \in met : c[2] <= last
  <2>1. PICK T : T = {end} \cup {c[2] : c \in met}
    OBVIOUS
  <2>2. T \subseteq Nat /\ T # {} /\ \A x \in T : x <= len
    BY <1>0, <1>1, <1>2, <2>1
  <2>3. PICK x \in T : \A y \in T : y <= x
    BY <2>2, GreatestNumber
  <2>4. Max(T) = x
    BY <2>2, <2>3, GreatestIs
  <2>5. QED BY <2>1, <2>2, <2>3, <2>4
<1>5. PICK new : new = <<first, last>>
  OBVIOUS
<1>6. merged = (covered \ met) \cup {new}
  BY <1>1, <1>3, <1>4, <1>5 DEF Merged
<1>7. new[1] = first /\ new[2] = last /\ new \in Nat \X Nat /\ first < last /\ last <= len
  BY <1>0, <1>1, <1>2, <1>3, <1>4, <1>5
<1>8. ASSUME NEW c \in covered, c \notin met PROVE last < c[1] \/ c[2] < first
  <2>1. c[1] > end \/ c[2] < begin
    BY <1>1, <1>2, <1>8
  <2>2. \A m \in met : m \in covered /\ (c[2] < m[1] \/ m[2] < c[1]) /\ m[1] <= end /\ m[2] >= begin
    BY <1>0, <1>1, <1>8
  <2>3. CASE c[1] > end
    <3>1. \A m \in met : m[2] < c[1]
      BY <1>0, <1>2, <2>2, <2>3
    <3>2. QED BY <1>4, <2>3, <3>1
  <2>4. CASE c[2] < begin
    <3>1. \A m \in met : c[2] < m[1]
      BY <1>0, <1>2, <2>2, <2>4
    <3>2. QED BY <1>3, <2>4, <3>1
  <2>5. QED BY <2>1, <2>3, <2>4
<1>9. \A c, d \in merged : c = d \/ c[2] < d[1] \/ d[2] < c[1]
  <2> TAKE c, d \in merged
  <2>1. CASE c = new /\ d # new
    BY <1>6, <1>7, <1>8, <2>1
  <2>2. CASE d = new /\ c # new
    BY <1>6, <1>7, <1>8, <2>2
  <2>3. CASE c # new /\ d # new
    BY <1>0, <1>6, <2>3
  <2>4. QED BY <2>1, <2>2, <2>3
<1>10. ASSUME NEW p \in Nat \ {0}
       PROVE  (\E c \in merged : c[1] < p /\ p <= c[2])
              <=> (begin < p /\ p <= end) \/ \E c \in covered : c[1] < p /\ p <= c[2]
  <2>1. ASSUME first < p, p <= last
        PROVE  (begin < p /\ p <= end) \/ \E c \in met : c[1] < p /\ p <= c[2]
    <3>1. CASE p <= begin
      <4>0. first # begin
        BY <2>1, <3>1
      <4>1. PICK c \in met : first = c[1]
        BY <1>3, <4>0
      <4>2. c[2] \in Nat /\ c[2] >= begin
        BY <1>1, <1>2
      <4>3. QED BY <2>1, <3>1, <4>1, <4>2
    <3>2. CASE end < p
      <4>0. last # end
        BY <2>1, <3>2
      <4>1. PICK c \in met : last = c[2]
        BY <1>4, <4>0
      <4>2. c[1] \in Nat /\ c[1] <= end
        BY <1>1, <1>2
      <4>3. QED BY <2>1, <3>2, <4>1, <4>2
    <3>3. QED BY <3>1, <3>2
  <2>2. ASSUME begin < p, p <= end PROVE first < p /\ p <= last
    BY <1>3, <1>4, <2>2
  <2>3. ASSUME NEW c \in met, c[1] < p, p <= c[2] PROVE first < p /\ p <= last
    <3>1. first <= c[1] /\ c[2] <= last /\ c[1] \in Nat /\ c[2] \in Nat
      BY <1>1, <1>2, <1>3, <1>4
    <3>2. QED BY <2>3, <3>1
  <2>4. met \subseteq covered
    BY <1>1
  <2>5. QED BY <1>6, <1>7, <2>1, <2>2, <2>3, <2>4
<1>11. Apart(merged, len)
  BY <1>0, <1>2, <1>6, <1>7, <1>9 DEF Apart
<1>12. QED BY <1>10, <1>11 DEF Covered

\* What a fragment adds to the first bytes.
LEMMA FirstSeenAppended ==
    ASSUME NEW n \in Nat, NEW frags \in Seq(FragmentOf(n)), NEW f \in FragmentOf(n), NEW p \in Nat
    PROVE  /\ FirstSeen(Append(frags, f), p) =
                IF \E i \in DOMAIN frags : Brings(frags[i], p) THEN FirstSeen(frags, p)
                ELSE IF Brings(f, p) THEN f.bytes[p - f.off] ELSE Hole
           /\ FirstSeen(frags, p) # Hole <=> \E i \in DOMAIN frags : Brings(frags[i], p)
           /\ FirstSeen(frags, p) # Hole => FirstSeen(frags, p) \in Byte(n)
<1>1. PICK m \in Nat : m = Len(frags)
  OBVIOUS
<1>2. PICK all : all = Append(frags, f)
  OBVIOUS
<1>3. /\ DOMAIN frags = 1..m /\ DOMAIN all = 1..(m + 1) /\ all[m + 1] = f
      /\ \A i \in 1..m : all[i] = frags[i]
  BY <1>1, <1>2
<1>4. PICK is : is = {i \in 1..m : Brings(frags[i], p)}
  OBVIOUS
<1>5. PICK js : js = {i \in 1..(m + 1) : Brings(all[i], p)}
  OBVIOUS
<1>6. FirstSeen(frags, p) = IF is = {} THEN Hole ELSE frags[Min(is)].bytes[p - frags[Min(is)].off]
  BY <1>3, <1>4 DEF FirstSeen, Brings
<1>7. FirstSeen(all, p) = IF js = {} THEN Hole ELSE all[Min(js)].bytes[p - all[Min(js)].off]
  BY <1>3, <1>5 DEF FirstSeen, Brings
<1>8. js = is \cup (IF Brings(f, p) THEN {m + 1} ELSE {})
  BY <1>3, <1>4, <1>5
<1>9. CASE is = {}
  <2>1. CASE Brings(f, p)
    <3>1. js = {m + 1} /\ Min(js) = m + 1
      <4>1. js = {m + 1} /\ js \subseteq Nat /\ m + 1 \in js /\ \A y \in js : m + 1 <= y
        BY <1>8, <1>9, <2>1
      <4>2. QED BY <4>1, LeastIs
    <3>2. FirstSeen(all, p) = f.bytes[p - f.off]
      BY <1>3, <1>7, <3>1
    <3>3. QED BY <1>2, <1>3, <1>4, <1>6, <1>9, <2>1, <3>2
  <2>2. CASE ~Brings(f, p)
    BY <1>2, <1>3, <1>4, <1>6, <1>7, <1>8, <1>9, <2>2
  <2>3. QED BY <2>1, <2>2
<1>10. CASE is # {}
  <2>1. is \subseteq Nat /\ \A i \in is : i <= m
    BY <1>4
  <2>2. PICK x \in is : \A y \in is : x <= y
    BY <1>10, <2>1, LeastNumber
  <2>3. Min(is) = x
    BY <2>1, <2>2, LeastIs
  <2>4. Min(js) = x
    <3>1. js \subseteq Nat /\ x \in js /\ \A y \in js : x <= y
      BY <1>8, <2>1, <2>2
    <3>2. QED BY <3>1, LeastIs
  <2>5. FirstSeen(frags, p) = frags[x].bytes[p - frags[x].off] /\ x \in 1..m
    BY <1>4, <1>6, <1>10, <2>3
  <2>6. FirstSeen(all, p) = FirstSeen(frags, p)
    BY <1>3, <1>7, <1>8, <1>10, <2>4, <2>5
  <2>7. FirstSeen(frags, p) \in Byte(n)
    <3>1. frags[x] \in FragmentOf(n) /\ Brings(frags[x], p)
      BY <1>3, <1>4, <2>5
    <3>2. frags[x].bytes \in Seq(Byte(n)) /\ p - frags[x].off \in DOMAIN frags[x].bytes
      BY <3>1 DEF FragmentOf, Brings
    <3>3. QED BY <2>5, <3>2
  <2>8. Hole \notin Byte(n)
    BY DEF Hole, Byte
  <2>9. \E i \in DOMAIN frags : Brings(frags[i], p)
    BY <1>3, <1>4, <1>10
  <2>10. QED BY <1>2, <2>6, <2>7, <2>8, <2>9
<1>11. QED BY <1>9, <1>10

\* The entry full is entry with the fragment f.
CopyOf(full, entry, f, n) ==
    /\ DOMAIN full = DOMAIN entry
    /\ full.covered = Merged(entry.covered, f.off, FragmentEnd(f))
    /\ full.total = IF f.more THEN entry.total ELSE FragmentEnd(f)
    /\ full.frags = Append(entry.frags, f)
    /\ Len(full.buf) \in Nat /\ DOMAIN full.buf = 1..Len(full.buf)
    /\ f.off < FragmentEnd(f) /\ FragmentEnd(f) <= Len(full.buf)
    /\ Len(entry.buf) <= Len(full.buf) /\ Len(full.buf) \in {Len(entry.buf), FragmentEnd(f)}
    /\ full.buf \in Seq(Byte(n) \cup {Hole})
    /\ \A p \in 1..Len(full.buf) : full.buf[p] =
         IF Brings(f, p) /\ ~Covered(entry.covered, p) THEN f.bytes[p - f.off]
         ELSE IF p \in DOMAIN entry.buf THEN entry.buf[p] ELSE Hole

\* Each byte of Copied is that of the first fragment that has it.
LEMMA CopiedFacts ==
    ASSUME NEW n \in Nat, NEW entry, EntryKept(entry, n), NEW f \in FragmentOf(n), f.bytes # <<>>,
           NEW full, full = WithFragment(entry, f)
    PROVE  CopyOf(full, entry, f, n)
<1>1. /\ DOMAIN entry = {"buf", "covered", "total", "seen", "frags"}
      /\ entry.buf \in Seq(Byte(n) \cup {Hole})
  BY DEF EntryKept, EntryShape
<1>2. PICK end \in Nat : end = FragmentEnd(f) /\ f.off < end /\ f.off \in Nat
  <2>1. f.off \in Nat /\ f.bytes \in Seq(Byte(n)) /\ Len(f.bytes) \in Nat /\ Len(f.bytes) # 0
    BY DEF FragmentOf
  <2>2. QED BY <2>1 DEF FragmentEnd
<1>3. /\ DOMAIN full = DOMAIN entry
      /\ full.covered = Merged(entry.covered, f.off, end)
      /\ full.total = IF f.more THEN entry.total ELSE end
      /\ full.frags = Append(entry.frags, f)
      /\ full.buf = Copied(entry, f)
  BY <1>1, <1>2 DEF WithFragment, FragmentEnd
<1>4. PICK len \in Nat : /\ len = Max({Len(entry.buf), end}) /\ len \in {Len(entry.buf), end}
                         /\ Len(entry.buf) <= len /\ end <= len
  <2>1. Len(entry.buf) \in Nat
    BY <1>1
  <2>2. PICK a \in Nat : a = Len(entry.buf)
    BY <2>1
  <2>3. CASE a <= end
    <3>1. Max({a, end}) = end
      <4>1. {a, end} \subseteq Nat /\ end \in {a, end} /\ \A y \in {a, end} : y <= end
        BY <2>3
      <4>2. QED BY <4>1, GreatestIs
    <3>2. QED BY <2>2, <2>3, <3>1
  <2>4. CASE ~(a <= end)
    <3>1. Max({a, end}) = a
      <4>1. {a, end} \subseteq Nat /\ a \in {a, end} /\ \A y \in {a, end} : y <= a
        BY <2>4
      <4>2. QED BY <4>1, GreatestIs
    <3>2. QED BY <2>2, <2>4, <3>1
  <2>5. QED BY <2>3, <2>4
<1>5. full.buf = [p \in 1..len |->
        IF Brings(f, p) /\ ~Covered(entry.covered, p) THEN f.bytes[p - f.off]
        ELSE IF p \in DOMAIN entry.buf THEN entry.buf[p] ELSE Hole]
  <2>1. \A p : (\A c \in entry.covered : ~(c[1] < p /\ p <= c[2])) <=> ~Covered(entry.covered, p)
    BY DEF Covered
  <2>2. QED BY <1>2, <1>3, <1>4, <2>1 DEF Copied, Brings, FragmentEnd
<1>6. \A p \in 1..len : full.buf[p] \in Byte(n) \cup {Hole}
  <2>1. \A p \in DOMAIN entry.buf : entry.buf[p] \in Byte(n) \cup {Hole}
    BY <1>1
  <2>2. ASSUME NEW p, Brings(f, p) PROVE f.bytes[p - f.off] \in Byte(n)
    <3>1. f.bytes \in Seq(Byte(n))
      BY DEF FragmentOf
    <3>2. QED BY <2>2, <3>1 DEF Brings
  <2>3. QED BY <1>5, <2>1, <2>2
<1>7. full.buf \in [1..len -> Byte(n) \cup {Hole}]
  BY <1>5, <1>6
<1>8. full.buf \in Seq(Byte(n) \cup {Hole}) /\ Len(full.buf) = len /\ DOMAIN full.buf = 1..len
  BY <1>7
<1>9. QED BY <1>2, <1>3, <1>4, <1>5, <1>8 DEF CopyOf

\* A fragment is put into an entry.
LEMMA WithFragmentKept ==
    ASSUME NEW n \in Nat, NEW entry, EntryKept(entry, n), NEW f \in FragmentOf(n), f.bytes # <<>>
    PROVE  EntryKept(WithFragment(entry, f), n)
<1>1. PICK full : full = WithFragment(entry, f)
  OBVIOUS
<1>2. /\ DOMAIN full = DOMAIN entry
      /\ full.covered = Merged(entry.covered, f.off, FragmentEnd(f))
      /\ full.total = IF f.more THEN entry.total ELSE FragmentEnd(f)
      /\ full.frags = Append(entry.frags, f)
      /\ Len(full.buf) \in Nat /\ DOMAIN full.buf = 1..Len(full.buf)
      /\ f.off < FragmentEnd(f) /\ FragmentEnd(f) <= Len(full.buf)
      /\ Len(entry.buf) <= Len(full.buf)
      /\ full.buf \in Seq(Byte(n) \cup {Hole})
      /\ \A p \in 1..Len(full.buf) : full.buf[p] =
           IF Brings(f, p) /\ ~Covered(entry.covered, p) THEN f.bytes[p - f.off]
           ELSE IF p \in DOMAIN entry.buf THEN entry.buf[p] ELSE Hole
  <2>1. CopyOf(full, entry, f, n)
    BY <1>1, CopiedFacts
  <2>2. QED BY <2>1 DEF CopyOf
<1>3. /\ DOMAIN entry = {"buf", "covered", "total", "seen", "frags"}
      /\ entry.buf \in Seq(Byte(n) \cup {Hole}) /\ Len(entry.buf) \in Nat
      /\ entry.total \in Nat
      /\ entry.frags \in Seq(FragmentOf(n))
  BY DEF EntryKept, EntryShape
<1>4. f.off \in Nat /\ f.more \in BOOLEAN /\ f.bytes \in Seq(Byte(n)) /\ FragmentEnd(f) \in Nat
  BY DEF FragmentOf, FragmentEnd
<1>5. /\ Apart(entry.covered, Len(entry.buf))
      /\ \A p \in Nat \ {0} :
           Covered(entry.covered, p) <=> \E i \in DOMAIN entry.frags : Brings(entry.frags[i], p)
  BY DEF EntryKept, IntervalsApart
<1>6. Apart(entry.covered, Len(full.buf))
  BY <1>2, <1>3, <1>5 DEF Apart
<1>7. /\ Apart(full.covered, Len(full.buf))
      /\ \A p \in Nat \ {0} : Covered(full.covered, p)
           <=> (f.off < p /\ p <= FragmentEnd(f)) \/ Covered(entry.covered, p)
  BY <1>2, <1>4, <1>6, MergedKept
<1>8. \A p \in Nat : Brings(f, p) <=> f.off < p /\ p <= FragmentEnd(f)
  BY <1>4 DEF Brings, FragmentEnd
<1>9. /\ full.frags \in Seq(FragmentOf(n))
      /\ DOMAIN entry.frags = 1..Len(entry.frags) /\ Len(entry.frags) \in Nat
      /\ DOMAIN full.frags = 1..(Len(entry.frags) + 1)
      /\ full.frags[Len(entry.frags) + 1] = f
      /\ \A i \in DOMAIN entry.frags : full.frags[i] = entry.frags[i]
  BY <1>2, <1>3
<1>10. \A p \in Nat \ {0} :
         Covered(full.covered, p) <=> \E i \in DOMAIN full.frags : Brings(full.frags[i], p)
  <2> TAKE p \in Nat \ {0}
  <2>1. (\E i \in DOMAIN full.frags : Brings(full.frags[i], p))
        <=> Brings(f, p) \/ \E i \in DOMAIN entry.frags : Brings(entry.frags[i], p)
    BY <1>9
  <2>2. Covered(full.covered, p) <=> Brings(f, p) \/ Covered(entry.covered, p)
    BY <1>7, <1>8
  <2>3. QED BY <1>5, <2>1, <2>2
<1>11. EntryShape(full, n)
  BY <1>2, <1>3, <1>4, <1>9 DEF EntryShape
<1>12. IntervalsApart(full)
  BY <1>7, <1>10 DEF IntervalsApart
<1>13. ASSUME NEW p \in 1..Len(full.buf) PROVE full.buf[p] = FirstSeen(full.frags, p)
  <2>1. p \in Nat \ {0} /\ p \in Nat
    BY <1>2
  <2>2. /\ FirstSeen(full.frags, p) =
             IF \E i \in DOMAIN entry.frags : Brings(entry.frags[i], p) THEN FirstSeen(entry.frags, p)
             ELSE IF Brings(f, p) THEN f.bytes[p - f.off] ELSE Hole
        /\ FirstSeen(entry.frags, p) # Hole <=> \E i \in DOMAIN entry.frags : Brings(entry.frags[i], p)
    BY <1>2, <1>3, <2>1, FirstSeenAppended
  <2>3. p \in DOMAIN entry.buf => entry.buf[p] = FirstSeen(entry.frags, p)
    BY <1>3 DEF EntryKept, Contents
  <2>4. CASE Covered(entry.covered, p)
    <3>1. PICK c \in entry.covered : c[1] < p /\ p <= c[2]
      BY <2>4 DEF Covered
    <3>2. c[2] \in Nat /\ c[2] <= Len(entry.buf)
      BY <1>5 DEF Apart
    <3>3. p \in DOMAIN entry.buf
      BY <1>3, <2>1, <3>1, <3>2
    <3>4. \E i \in DOMAIN entry.frags : Brings(entry.frags[i], p)
      BY <1>5, <2>1, <2>4
    <3>5. QED BY <1>2, <2>2, <2>3, <2>4, <3>3, <3>4
  <2>5. CASE ~Covered(entry.covered, p)
    <3>1. ~\E i \in DOMAIN entry.frags : Brings(entry.frags[i], p)
      BY <1>5, <2>1, <2>5
    <3>2. FirstSeen(entry.frags, p) = Hole
      BY <2>2, <3>1
    <3>3. QED BY <1>2, <2>2, <2>3, <2>5, <3>1, <3>2
  <2>6. QED BY <2>4, <2>5
<1>14. /\ entry.total <= Len(entry.buf)
       /\ entry.total > 0 =>
            \E i \in DOMAIN entry.frags :
                /\ ~entry.frags[i].more /\ entry.total = FragmentEnd(entry.frags[i])
                /\ \A j \in DOMAIN entry.frags : ~entry.frags[j].more => j <= i
  BY DEF EntryKept, Contents
<1>15. full.total <= Len(full.buf)
  BY <1>2, <1>3, <1>4, <1>14
<1>16. ASSUME full.total > 0
       PROVE  \E i \in DOMAIN full.frags :
                /\ ~full.frags[i].more /\ full.total = FragmentEnd(full.frags[i])
                /\ \A j \in DOMAIN full.frags : ~full.frags[j].more => j <= i
  <2>1. CASE f.more
    <3>1. PICK i \in DOMAIN entry.frags :
            /\ ~entry.frags[i].more /\ entry.total = FragmentEnd(entry.frags[i])
            /\ \A j \in DOMAIN entry.frags : ~entry.frags[j].more => j <= i
      BY <1>2, <1>14, <1>16, <2>1
    <3>2. i \in DOMAIN full.frags /\ full.frags[i] = entry.frags[i]
      BY <1>9
    <3>3. \A j \in DOMAIN full.frags : j \in DOMAIN entry.frags \/ full.frags[j] = f
      BY <1>9
    <3>4. QED BY <1>2, <1>9, <2>1, <3>1, <3>2, <3>3
  <2>2. CASE ~f.more
    <3>1. Len(entry.frags) + 1 \in DOMAIN full.frags
      BY <1>9
    <3>2. \A j \in DOMAIN full.frags : j <= Len(entry.frags) + 1
      BY <1>9
    <3>3. QED BY <1>2, <1>9, <2>2, <3>1, <3>2
  <2>3. QED BY <2>1, <2>2
<1>17. Contents(full)
  BY <1>13, <1>15, <1>16 DEF Contents
<1>18. QED BY <1>1, <1>11, <1>12, <1>17 DEF EntryKept

\* A complete datagram has no hole.
LEMMA CompleteIsWhole ==
    ASSUME NEW n \in Nat, NEW entry, EntryKept(entry, n), IsComplete(entry)
    PROVE  /\ Whole(entry)
           /\ entry.total \in Nat /\ entry.total >= 1
           /\ \A p \in 1..entry.total : entry.buf[p] \in Byte(n)
<1>1. /\ entry.buf \in Seq(Byte(n) \cup {Hole}) /\ Len(entry.buf) \in Nat
      /\ DOMAIN entry.buf = 1..Len(entry.buf)
      /\ entry.total \in Nat /\ entry.frags \in Seq(FragmentOf(n))
  BY DEF EntryKept, EntryShape
<1>2. PICK end \in entry.total..Len(entry.buf) : entry.covered = {<<0, end>>} /\ entry.total > 0
  BY DEF IsComplete
<1>3. end \in Nat /\ entry.total <= end /\ end <= Len(entry.buf)
  BY <1>1, <1>2
<1>4. ASSUME NEW p \in 1..entry.total
      PROVE  entry.buf[p] = FirstSeen(entry.frags, p) /\ entry.buf[p] # Hole /\ entry.buf[p] \in Byte(n)
  <2>1. p \in Nat /\ p \in Nat \ {0} /\ 0 < p /\ p <= end /\ p \in 1..Len(entry.buf)
    BY <1>1, <1>3
  <2>2. Covered(entry.covered, p)
    <3>1. <<0, end>> \in entry.covered /\ <<0, end>>[1] = 0 /\ <<0, end>>[2] = end
      BY <1>2
    <3>2. QED BY <2>1, <3>1 DEF Covered
  <2>3. \E i \in DOMAIN entry.frags : Brings(entry.frags[i], p)
    BY <2>1, <2>2 DEF EntryKept, IntervalsApart
  <2>4. FirstSeen(entry.frags, p) # Hole /\ FirstSeen(entry.frags, p) \in Byte(n)
    <3>1. PICK i \in DOMAIN entry.frags : entry.frags[i] \in FragmentOf(n)
      BY <1>1, <2>3
    <3>2. QED BY <1>1, <2>1, <2>3, <3>1, FirstSeenAppended
  <2>5. entry.buf[p] = FirstSeen(entry.frags, p)
    BY <2>1 DEF EntryKept, Contents
  <2>6. QED BY <2>4, <2>5
<1>5. PICK i \in DOMAIN entry.frags :
        /\ ~entry.frags[i].more /\ entry.total = FragmentEnd(entry.frags[i])
        /\ \A j \in DOMAIN entry.frags : ~entry.frags[j].more => j <= i
  BY <1>2 DEF EntryKept, Contents
<1>6. PICK lasts : lasts = {j \in DOMAIN entry.frags : ~entry.frags[j].more}
  OBVIOUS
<1>7. Max(lasts) = i
  <2>1. lasts \subseteq Nat /\ i \in lasts /\ \A j \in lasts : j <= i
    BY <1>1, <1>5, <1>6
  <2>2. QED BY <2>1, GreatestIs
<1>8. entry.total = entry.frags[Max(lasts)].off + Len(entry.frags[Max(lasts)].bytes)
  BY <1>5, <1>7 DEF FragmentEnd
<1>9. Whole(entry)
  BY <1>4, <1>6, <1>8 DEF Whole
<1>10. QED BY <1>1, <1>2, <1>4, <1>9

\* One whose last fragment has come and that is not complete has one.
LEMMA NotYetWhole ==
    ASSUME NEW n \in Nat, NEW entry, EntryKept(entry, n), ~IsComplete(entry), entry.total > 0
    PROVE  \E p \in DOMAIN entry.buf : FirstSeen(entry.frags, p) = Hole
<1>1. /\ entry.buf \in Seq(Byte(n) \cup {Hole}) /\ Len(entry.buf) \in Nat
      /\ DOMAIN entry.buf = 1..Len(entry.buf)
      /\ entry.total \in Nat /\ entry.frags \in Seq(FragmentOf(n))
  BY DEF EntryKept, EntryShape
<1>2. PICK len \in Nat : len = Len(entry.buf) /\ entry.total <= len /\ 1 <= len
  BY <1>1 DEF EntryKept, Contents
<1>3. /\ entry.covered \subseteq Nat \X Nat
      /\ \A c \in entry.covered : c[1] < c[2] /\ c[2] <= len
      /\ \A c, d \in entry.covered : c = d \/ c[2] < d[1] \/ d[2] < c[1]
  BY <1>2 DEF EntryKept, IntervalsApart, Apart
<1>4. SUFFICES ASSUME \A p \in 1..len : FirstSeen(entry.frags, p) # Hole PROVE FALSE
  BY <1>1, <1>2
<1>5. ASSUME NEW p \in 1..len PROVE Covered(entry.covered, p)
  <2>1. p \in Nat /\ p \in Nat \ {0}
    OBVIOUS
  <2>2. \E i \in DOMAIN entry.frags : Brings(entry.frags[i], p)
    <3>1. entry.frags # <<>>
      <4>1. SUFFICES ASSUME DOMAIN entry.frags = {} PROVE FALSE
        BY <1>1
      <4>2. {i \in DOMAIN entry.frags : p - entry.frags[i].off \in DOMAIN entry.frags[i].bytes} = {}
        BY <4>1
      <4>3. FirstSeen(entry.frags, p) = Hole
        BY <4>2 DEF FirstSeen
      <4>4. QED BY <1>4, <4>3
    <3>2. PICK i \in DOMAIN entry.frags : entry.frags[i] \in FragmentOf(n)
      BY <1>1, <3>1
    <3>3. QED BY <1>1, <1>4, <2>1, <3>2, FirstSeenAppended
  <2>3. QED BY <2>1, <2>2 DEF EntryKept, IntervalsApart
<1>6. PICK c \in entry.covered : c[1] < len /\ len <= c[2]
  BY <1>2, <1>5 DEF Covered
<1>7. c[1] \in Nat /\ c[2] = len /\ c = <<c[1], c[2]>>
  BY <1>2, <1>3, <1>6
<1>8. c[1] = 0
  <2>1. SUFFICES ASSUME c[1] # 0 PROVE FALSE
    OBVIOUS
  <2>2. c[1] \in 1..len
    BY <1>2, <1>6, <1>7, <2>1
  <2>3. PICK d \in entry.covered : d[1] < c[1] /\ c[1] <= d[2]
    BY <1>5, <2>2 DEF Covered
  <2>4. d[1] \in Nat /\ d[2] \in Nat
    BY <1>3
  <2>5. c = d \/ c[2] < d[1] \/ d[2] < c[1]
    BY <1>3
  <2>6. QED BY <1>2, <1>6, <1>7, <2>3, <2>4, <2>5
<1>9. entry.covered = {<<0, len>>}
  <2>1. ASSUME NEW d \in entry.covered PROVE d = c
    <3>1. d[1] \in Nat /\ d[2] \in Nat /\ d[1] < d[2] /\ d[2] <= len
      BY <1>3
    <3>2. c = d \/ c[2] < d[1] \/ d[2] < c[1]
      BY <1>3
    <3>3. QED BY <1>2, <1>7, <1>8, <3>1, <3>2
  <2>2. QED BY <1>7, <1>8, <2>1
<1>10. IsComplete(entry)
  BY <1>1, <1>2, <1>9 DEF IsComplete
<1>11. QED BY <1>10

\* The time of an entry tells nothing of its bytes.
LEMMA EntryTouched ==
    ASSUME NEW n \in Nat, NEW entry, EntryKept(entry, n), NEW now
    PROVE  /\ EntryKept([entry EXCEPT !.seen = now], n)
           /\ IsComplete([entry EXCEPT !.seen = now]) <=> IsComplete(entry)
<1>1. PICK e : e = [entry EXCEPT !.seen = now]
  OBVIOUS
<1>2. /\ DOMAIN e = DOMAIN entry /\ e.buf = entry.buf /\ e.covered = entry.covered
      /\ e.total = entry.total /\ e.frags = entry.frags
  BY <1>1 DEF EntryKept, EntryShape
<1>3. QED BY <1>1, <1>2 DEF EntryKept, EntryShape, IntervalsApart, Contents, IsComplete

\* An entry starts with nothing, which is not complete.
LEMMA NewEntryKept ==
    ASSUME NEW n \in Nat
    PROVE  EntryKept(NewEntry, n) /\ ~IsComplete(NewEntry)
<1>1. PICK e : e = NewEntry
  OBVIOUS
<1>2. /\ DOMAIN e = {"buf", "covered", "total", "seen", "frags"} /\ e.buf = <<>>
      /\ e.covered = {} /\ e.total = 0 /\ e.frags = <<>>
  BY <1>1 DEF NewEntry
<1>3. Len(e.buf) = 0 /\ DOMAIN e.frags = {}
  BY <1>2
<1>4. EntryShape(e, n)
  BY <1>2 DEF EntryShape
<1>5. IntervalsApart(e)
  BY <1>2, <1>3 DEF IntervalsApart, Apart, Covered
<1>6. Contents(e)
  BY <1>2, <1>3 DEF Contents
<1>7. QED BY <1>1, <1>2, <1>4, <1>5, <1>6 DEF EntryKept, IsComplete

\* Taking entries out changes none of the others.
LEMMA WithoutEntries ==
    ASSUME NEW n \in Nat, NEW d, EntriesKept(d, n), NEW keys
    PROVE  /\ EntriesKept(Without(d, keys), n)
           /\ Without(d, keys).table = Dropped(d.table, keys)
BY DEF EntriesKept, Without, Dropped, Restrict

\* Touched adds an entry that has nothing yet, or keeps the one there is.
LEMMA DefragTouched ==
    ASSUME NEW n \in Nat, NEW d, EntriesKept(d, n), NEW key, NEW now
    PROVE  /\ EntriesKept(Touched(d, key, now), n)
           /\ key \in DOMAIN Touched(d, key, now).table
<1>1. PICK entry : entry = At(d.table, key, NewEntry)
  OBVIOUS
<1>2. EntryKept(entry, n) /\ ~IsComplete(entry)
  BY <1>1, NewEntryKept DEF EntriesKept, At
<1>3. PICK e : e = [entry EXCEPT !.seen = now]
  OBVIOUS
<1>4. EntryKept(e, n) /\ ~IsComplete(e)
  BY <1>2, <1>3, EntryTouched
<1>5. PICK fed : fed = Touched(d, key, now)
  OBVIOUS
<1>6. DOMAIN fed = {"table", "lru", "mem"} /\ fed.table = Put(d.table, key, e)
  BY <1>1, <1>3, <1>5 DEF Touched, EntriesKept
<1>7. \A k \in DOMAIN fed.table : EntryKept(fed.table[k], n) /\ ~IsComplete(fed.table[k])
  BY <1>4, <1>6 DEF Put, EntriesKept
<1>8. QED BY <1>5, <1>6, <1>7 DEF EntriesKept, Put

\* A fragment that reaches beyond a datagram is cut, but not to nothing.
LEMMA ClippedIs ==
    ASSUME NEW n \in Nat, NEW frag \in FragmentOf(n), frag.bytes # <<>>, ~(frag.off >= MaxDatagramLen)
    PROVE  Clipped(frag) \in FragmentOf(n) /\ Clipped(frag).bytes # <<>>
<1>1. PICK room \in Nat : room = MaxDatagramLen - frag.off /\ room >= 1
  <2>1. MaxDatagramLen \in Nat /\ frag.off \in Nat
    BY DefragAssumption DEF FragmentOf
  <2>2. QED BY <2>1
<1>2. PICK len \in Nat : len = Len(frag.bytes) /\ len >= 1 /\ frag.bytes \in Seq(Byte(n))
  BY DEF FragmentOf
<1>3. PICK m \in Nat : m = Min({len, room}) /\ 1 <= m /\ m <= len
  <2>1. PICK T : T = {len, room}
    OBVIOUS
  <2>2. CASE len <= room
    <3>1. T \subseteq Nat /\ len \in T /\ \A y \in T : len <= y
      BY <2>1, <2>2
    <3>2. Min(T) = len
      BY <3>1, LeastIs
    <3>3. QED BY <1>2, <2>1, <3>2
  <2>3. CASE ~(len <= room)
    <3>1. T \subseteq Nat /\ room \in T /\ \A y \in T : room <= y
      BY <2>1, <2>3
    <3>2. Min(T) = room
      BY <3>1, LeastIs
    <3>3. QED BY <1>1, <2>1, <2>3, <3>2
  <2>4. QED BY <2>2, <2>3
<1>4. PICK bytes : bytes = SubSeq(frag.bytes, 1, m)
  OBVIOUS
<1>5. bytes \in Seq(Byte(n)) /\ Len(bytes) = m
  <2>1. PICK S, all : S = Byte(n) /\ all = frag.bytes /\ all \in Seq(S)
    BY <1>2
  <2>2. \A i \in 1..m : all[i] \in S
    BY <1>2, <1>3, <2>1
  <2>3. SubSeq(all, 1, m) \in Seq(S) /\ Len(SubSeq(all, 1, m)) = IF 1 <= m THEN m - 1 + 1 ELSE 0
    BY <2>2, SubSeqProperties
  <2>4. bytes = SubSeq(all, 1, m)
    BY <1>4, <2>1
  <2>5. bytes \in Seq(S) /\ Len(bytes) = m - 1 + 1
    BY <1>3, <2>3, <2>4
  <2>6. m - 1 + 1 = m
    OBVIOUS
  <2>7. QED BY <2>1, <2>5, <2>6
<1>6. Clipped(frag) = [frag EXCEPT !.bytes = bytes]
  BY <1>1, <1>2, <1>3, <1>4 DEF Clipped
<1>7. Clipped(frag) = [off |-> frag.off, more |-> frag.more, bytes |-> bytes]
  BY <1>6 DEF FragmentOf
<1>8. QED BY <1>3, <1>5, <1>7 DEF FragmentOf

\* What add_fragment makes of the table, and the datagram that it returns.
FragmentsResult(r, n) ==
    /\ EntriesKept(r.defrag, n)
    /\ r.complete = <<>>
       \/ \E entry : r.complete = <<entry>> /\ EntryKept(entry, n) /\ IsComplete(entry)

\* add_fragment keeps the table, and returns a datagram only when it is complete.
LEMMA AddFragmentEntries ==
    ASSUME NEW n \in Nat, NEW d, EntriesKept(d, n), NEW key, NEW frag \in FragmentOf(n), NEW now
    PROVE  FragmentsResult(AddFragment(d, key, frag, now), n)
<1>1. CASE frag.bytes = <<>> \/ frag.off >= MaxDatagramLen
  <2>1. AddFragment(d, key, frag, now) = [defrag |-> d, evicted |-> FALSE, complete |-> <<>>]
    BY <1>1 DEF AddFragment
  <2>2. QED BY <2>1 DEF FragmentsResult
<1>2. CASE ~(frag.bytes = <<>> \/ frag.off >= MaxDatagramLen)
  <2>1. PICK f : f = Clipped(frag)
    OBVIOUS
  <2>2. f \in FragmentOf(n) /\ f.bytes # <<>>
    BY <1>2, <2>1, ClippedIs
  <2>3. PICK roomy : roomy = WithRoom(d, key) /\ EntriesKept(roomy, n)
    BY WithoutEntries DEF WithRoom
  <2>4. PICK fed : fed = Touched(roomy, key, now)
    OBVIOUS
  <2>5. EntriesKept(fed, n) /\ key \in DOMAIN fed.table
    BY <2>3, <2>4, DefragTouched
  <2>6. PICK entry : entry = fed.table[key]
    OBVIOUS
  <2>7. EntryKept(entry, n)
    BY <2>5, <2>6 DEF EntriesKept
  <2>8. PICK grow : grow = Max({0, f.off + Len(f.bytes) - Len(entry.buf)})
    OBVIOUS
  <2>9. PICK rest : rest = Without(fed, Victims(fed, grow)) /\ EntriesKept(rest, n)
    BY <2>5, WithoutEntries
  <2>10. PICK full : full = WithFragment(entry, f) /\ EntryKept(full, n)
    BY <2>2, <2>7, WithFragmentKept
  <2>11. PICK evicted : evicted = (roomy # d \/ rest # fed)
    OBVIOUS
  <2>12. PICK stored : stored = [rest EXCEPT !.table[key] = full, !.mem = @ + grow]
    OBVIOUS
  <2>13. AddFragment(d, key, frag, now) =
           IF rest.mem + grow > MaxDefragMem
           THEN [defrag |-> IF entry.buf = <<>> THEN Without(rest, {key}) ELSE rest,
                 evicted |-> evicted, complete |-> <<>>]
           ELSE IF IsComplete(full)
                THEN [defrag |-> Without(stored, {key}), evicted |-> evicted, complete |-> <<full>>]
                ELSE [defrag |-> stored, evicted |-> evicted, complete |-> <<>>]
    BY <1>2, <2>1, <2>3, <2>4, <2>6, <2>8, <2>9, <2>10, <2>11, <2>12 DEF AddFragment
  <2>14. EntriesKept(Without(rest, {key}), n)
    BY <2>9, WithoutEntries
  <2>15. DOMAIN stored = {"table", "lru", "mem"} /\ stored.table = [rest.table EXCEPT ![key] = full]
    BY <2>9, <2>12 DEF EntriesKept
  <2>16. ASSUME ~IsComplete(full) PROVE EntriesKept(stored, n)
    BY <2>9, <2>10, <2>15, <2>16 DEF EntriesKept
  <2>17. EntriesKept(Without(stored, {key}), n)
    <3>1. PICK left : left = Without(stored, {key})
      OBVIOUS
    <3>2. DOMAIN left = {"table", "lru", "mem"} /\ left.table = Dropped(stored.table, {key})
      BY <3>1 DEF Without
    <3>3. \A k \in DOMAIN left.table : k \in DOMAIN rest.table /\ left.table[k] = rest.table[k]
      BY <2>15, <3>2 DEF Dropped, Restrict
    <3>4. QED BY <2>9, <3>1, <3>2, <3>3 DEF EntriesKept
  <2>18. QED BY <2>9, <2>10, <2>13, <2>14, <2>16, <2>17 DEF FragmentsResult
<1>3. QED BY <1>1, <1>2

\* Another packet changes nothing of what was put together before.
LEMMA EntriesGrow ==
    ASSUME NEW n \in Nat, NEW d, EntriesKept(d, n)
    PROVE  EntriesKept(d, n + 1)
<1>1. Byte(n) \subseteq Byte(n + 1)
  BY DEF Byte
<1>2. \A S, T : S \subseteq T => Seq(S) \subseteq Seq(T)
  OBVIOUS
<1>3. FragmentOf(n) \subseteq FragmentOf(n + 1)
  BY <1>1, <1>2 DEF FragmentOf
<1>4. Byte(n) \cup {Hole} \subseteq Byte(n + 1) \cup {Hole}
  BY <1>1
<1>5. /\ Seq(Byte(n) \cup {Hole}) \subseteq Seq(Byte(n + 1) \cup {Hole})
      /\ Seq(FragmentOf(n)) \subseteq Seq(FragmentOf(n + 1))
  BY <1>2, <1>3, <1>4
<1>6. ASSUME NEW entry, EntryKept(entry, n) PROVE EntryKept(entry, n + 1)
  BY <1>5, <1>6 DEF EntryKept, EntryShape
<1>7. QED BY <1>6 DEF EntriesKept

-----------------------------------------------------------------------------
\* The pool of the fragment table.

\* The pool of the fragment table counts what is buffered, and lru names every entry once.
DefragExact(d) ==
    /\ Lists(d.lru, DOMAIN d.table) /\ Sizes(BufSizes(d.table), DOMAIN d.table)
    /\ d.mem \in Nat /\ d.mem = Weight(BufSizes(d.table), DOMAIN d.table)

\* And neither goes over its cap.
DefragPooled(d) ==
    DefragExact(d) /\ d.mem <= MaxDefragMem /\ Cardinality(DOMAIN d.table) <= MaxDatagrams

\* The lengths of the buffers can be summed.
LEMMA EntrySizes ==
    ASSUME NEW d, DefragExact(d)
    PROVE  \A keys \in SUBSET DOMAIN d.table : Sizes(BufSizes(d.table), keys)
BY FS_Subset DEF DefragExact, Sizes

\* Entries give back what they hold.
LEMMA WithoutExact ==
    ASSUME NEW d, DefragExact(d), NEW keys \in SUBSET DOMAIN d.table
    PROVE  /\ DefragExact(Without(d, keys)) /\ Without(d, keys).mem <= d.mem
           /\ DOMAIN Without(d, keys).table = DOMAIN d.table \ keys
           /\ \A k \in DOMAIN d.table \ keys : Without(d, keys).table[k] = d.table[k]
<1>1. PICK K, w : K = DOMAIN d.table /\ w = BufSizes(d.table)
  OBVIOUS
<1>2. Sizes(w, K) /\ Sizes(w, keys) /\ Sizes(w, K \ keys)
  BY <1>1, EntrySizes
<1>3. PICK a \in Nat, b \in Nat : a = Weight(w, keys) /\ b = Weight(w, K \ keys)
  BY <1>2, WeightNat
<1>4. d.mem = a + b
  BY <1>1, <1>2, <1>3, WeightSplit DEF DefragExact
<1>5. PICK left : left = Without(d, keys)
  OBVIOUS
<1>6. left.table = Dropped(d.table, keys) /\ left.lru = Others(d.lru, keys) /\ left.mem = d.mem - a
  BY <1>1, <1>2, <1>3, <1>5, BufSum DEF Without
<1>7. DOMAIN left.table = K \ keys /\ \A k \in K \ keys : left.table[k] = d.table[k]
  BY <1>1, <1>6 DEF Dropped, Restrict
<1>8. left.mem = b
  BY <1>3, <1>4, <1>6
<1>9. Lists(left.lru, K \ keys)
  BY <1>1, <1>6, OthersLists DEF DefragExact
<1>10. Weight(BufSizes(left.table), K \ keys) = b
  <2>1. \A k \in K \ keys : BufSizes(left.table)[k] = w[k]
    BY <1>1, <1>7 DEF BufSizes
  <2>2. QED BY <1>2, <1>3, <2>1, WeightSame
<1>11. DefragExact(left)
  <2>1. Sizes(BufSizes(left.table), K \ keys)
    BY <1>1, <1>2, <1>7 DEF Sizes, BufSizes
  <2>2. QED BY <1>3, <1>7, <1>8, <1>9, <1>10, <2>1 DEF DefragExact
<1>12. left.mem <= d.mem
  BY <1>3, <1>4, <1>8
<1>13. QED BY <1>1, <1>5, <1>7, <1>11, <1>12

\* A new entry holds nothing, and that of another key stays as it is.
LEMMA TouchedExact ==
    ASSUME NEW n, NEW d, EntriesKept(d, n), DefragExact(d), NEW key, NEW now,
           NEW fed, fed = Touched(d, key, now)
    PROVE  /\ DefragExact(fed) /\ fed.mem = d.mem /\ DOMAIN fed.table = DOMAIN d.table \cup {key}
           /\ \E others : fed.lru = Append(others, key)
<1>1. PICK K, w : K = DOMAIN d.table /\ w = BufSizes(d.table)
  OBVIOUS
<1>2. PICK entry : entry = [At(d.table, key, NewEntry) EXCEPT !.seen = now]
  OBVIOUS
<1>4. /\ fed.table = Put(d.table, key, entry) /\ fed.mem = d.mem
      /\ fed.lru = Append(Others(d.lru, {key}), key)
  BY <1>2 DEF Touched, EntriesKept
<1>5. DOMAIN fed.table = K \cup {key} /\ fed.table[key] = entry
      /\ \A k \in K : k # key => fed.table[k] = d.table[k]
  BY <1>1, <1>4 DEF Put
<1>6. Lists(fed.lru, K \cup {key})
  BY <1>1, <1>4, ListsTouched DEF DefragExact
<1>7. PICK v : v = BufSizes(fed.table)
  OBVIOUS
<1>8. \A k \in K : v[k] = w[k]
  <2>1. key \in K => entry.buf = d.table[key].buf
    BY <1>1, <1>2 DEF At, EntriesKept, EntryKept, EntryShape
  <2>2. QED BY <1>1, <1>5, <1>7, <2>1 DEF BufSizes
<1>9. Weight(v, K) = d.mem /\ Sizes(w, K) /\ IsFiniteSet(K)
  BY <1>1, <1>8, EntrySizes, WeightSame DEF DefragExact, Sizes
<1>10. Sizes(v, K \cup {key}) /\ Weight(v, K \cup {key}) = d.mem
  <2>1. CASE key \in K
    <3>1. K \cup {key} = K
      BY <2>1
    <3>2. Sizes(v, K)
      BY <1>8, <1>9 DEF Sizes
    <3>3. QED BY <1>9, <3>1, <3>2
  <2>2. CASE key \notin K
    <3>1. v[key] = 0
      <4>1. entry.buf = <<>>
        BY <1>1, <1>2, <2>2 DEF At, NewEntry
      <4>2. QED BY <1>5, <1>7, <4>1 DEF BufSizes
    <3>2. Sizes(v, K \cup {key})
      <4>1. IsFiniteSet(K \cup {key})
        BY <1>9, FS_AddElement
      <4>2. QED BY <1>8, <1>9, <3>1, <4>1 DEF Sizes
    <3>3. Weight(v, K \cup {key}) = Weight(v, (K \cup {key}) \ {key}) + v[key]
      BY <3>2, WeightAdded
    <3>4. (K \cup {key}) \ {key} = K
      BY <2>2
    <3>5. QED BY <1>9, <3>1, <3>2, <3>3, <3>4 DEF DefragExact
  <2>3. QED BY <2>1, <2>2
<1>11. DefragExact(fed)
  BY <1>4, <1>5, <1>6, <1>7, <1>10 DEF DefragExact
<1>12. QED BY <1>1, <1>4, <1>5, <1>11

\* The entry of a key grows, and the pool with it.
LEMMA GrownExact ==
    ASSUME NEW d, DefragExact(d), NEW key \in DOMAIN d.table,
           NEW full, NEW grow \in Nat, Len(full.buf) = Len(d.table[key].buf) + grow,
           NEW e, e.table = [d.table EXCEPT ![key] = full], e.mem = d.mem + grow, e.lru = d.lru
    PROVE  DefragExact(e) /\ DOMAIN e.table = DOMAIN d.table /\ e.mem = d.mem + grow
<1>1. PICK K, w : K = DOMAIN d.table /\ w = BufSizes(d.table)
  OBVIOUS
<1>4. DOMAIN e.table = K /\ e.table[key] = full /\ \A k \in K : k # key => e.table[k] = d.table[k]
  BY <1>1
<1>5. PICK v : v = BufSizes(e.table)
  OBVIOUS
<1>6. v[key] = w[key] + grow /\ \A k \in K \ {key} : v[k] = w[k]
  BY <1>1, <1>4, <1>5 DEF BufSizes
<1>7. Sizes(w, K) /\ Sizes(w, K \ {key}) /\ w[key] \in Nat
  BY <1>1, EntrySizes DEF Sizes
<1>8. Sizes(v, K)
  BY <1>6, <1>7 DEF Sizes
<1>9. Weight(v, K) = Weight(v, K \ {key}) + v[key]
  BY <1>1, <1>8, WeightAdded
<1>10. Weight(w, K) = Weight(w, K \ {key}) + w[key]
  BY <1>1, <1>7, WeightAdded
<1>11. Weight(v, K \ {key}) = Weight(w, K \ {key}) /\ Weight(w, K \ {key}) \in Nat
  BY <1>6, <1>7, WeightSame, WeightNat
<1>12. Weight(v, K) = Weight(w, K) + grow
  BY <1>6, <1>7, <1>9, <1>10, <1>11
<1>13. Weight(w, K) = d.mem /\ d.mem \in Nat
  BY <1>1 DEF DefragExact
<1>14. e.mem \in Nat /\ e.mem = Weight(v, K)
  BY <1>12, <1>13
<1>15. DefragExact(e)
  BY <1>1, <1>4, <1>5, <1>8, <1>14 DEF DefragExact
<1>16. QED BY <1>1, <1>4, <1>15

\* Who makes room are entries, and not the one that was just touched.
LEMMA VictimsAre ==
    ASSUME NEW d, DefragExact(d), NEW key, NEW others, d.lru = Append(others, key),
           NEW more
    PROVE  Victims(d, more) \subseteq DOMAIN d.table /\ key \notin Victims(d, more)
<1>1. PICK lru : lru = d.lru /\ Lists(lru, DOMAIN d.table)
  BY DEF DefragExact
<1>2. lru \in Seq(DOMAIN d.table) /\ \A i, j \in DOMAIN lru : lru[i] = lru[j] => i = j
  BY <1>1 DEF Lists
<1>3. PICK m \in Nat : m = Len(lru) - 1 /\ DOMAIN lru = 1..(m + 1) /\ lru[m + 1] = key
  <2>1. Len(lru) \in Nat /\ DOMAIN lru = 1..Len(lru)
    BY <1>2
  <2>2. lru = Append(others, key)
    BY <1>1
  <2>3. Len(lru) = Len(others) + 1 /\ lru[Len(others) + 1] = key
    BY <2>2
  <2>4. Len(others) \in Nat
    BY <2>1, <2>3
  <2>5. QED BY <2>1, <2>3, <2>4
<1>4. PICK enough : enough = {i \in 0..m : i = m \/ Without(d, {d.lru[j] : j \in 1..i}).mem + more <= MaxDefragMem}
  OBVIOUS
<1>5. PICK x \in 0..m : x = Min(enough)
  <2>1. enough \subseteq Nat /\ enough # {}
    BY <1>4
  <2>2. PICK x \in enough : \A y \in enough : x <= y
    BY <2>1, LeastNumber
  <2>3. Min(enough) = x
    BY <2>1, <2>2, LeastIs
  <2>4. QED BY <1>4, <2>2, <2>3
<1>6. Victims(d, more) = {lru[i] : i \in 1..x}
  BY <1>1, <1>3, <1>4, <1>5 DEF Victims
<1>7. \A i \in 1..x : i \in DOMAIN lru /\ i # m + 1 /\ lru[i] \in DOMAIN d.table
  BY <1>2, <1>3, <1>5
<1>8. m + 1 \in DOMAIN lru
  BY <1>3
<1>9. QED BY <1>2, <1>3, <1>6, <1>7, <1>8

DefragKept(d, n) == EntriesKept(d, n) /\ DefragPooled(d)

\* What the pool grows by is what the buffer does.
LEMMA GrowIs ==
    ASSUME NEW n \in Nat, NEW entry, EntryKept(entry, n), NEW f \in FragmentOf(n), f.bytes # <<>>,
           NEW grow, grow = Max({0, f.off + Len(f.bytes) - Len(entry.buf)})
    PROVE  grow \in Nat /\ Len(WithFragment(entry, f).buf) = Len(entry.buf) + grow
<1>1. PICK full : full = WithFragment(entry, f)
  OBVIOUS
<1>2. PICK end \in Nat, len \in Nat, old \in Nat :
        /\ end = FragmentEnd(f) /\ len = Len(full.buf) /\ old = Len(entry.buf)
        /\ end <= len /\ old <= len /\ len \in {old, end}
  <2>1. CopyOf(full, entry, f, n)
    BY <1>1, CopiedFacts
  <2>2. f.off \in Nat /\ f.bytes \in Seq(Byte(n)) /\ entry.buf \in Seq(Byte(n) \cup {Hole})
    BY DEF FragmentOf, EntryKept, EntryShape
  <2>3. f.off + Len(f.bytes) \in Nat /\ Len(entry.buf) \in Nat
    BY <2>2
  <2>4. QED BY <2>1, <2>3 DEF CopyOf, FragmentEnd
<1>3. PICK T : T = {0, end - old} /\ grow = Max(T)
  <2>0. PICK a \in Nat, b \in Nat : a = f.off /\ b = Len(f.bytes) /\ end = a + b
    <3>1. f.off \in Nat /\ f.bytes \in Seq(Byte(n))
      BY DEF FragmentOf
    <3>2. Len(f.bytes) \in Nat
      BY <3>1
    <3>3. QED BY <1>2, <3>1, <3>2 DEF FragmentEnd
  <2>1. f.off + Len(f.bytes) - Len(entry.buf) = end - old
    <3>1. f.off + Len(f.bytes) - Len(entry.buf) = a + b - old
      BY <1>2, <2>0
    <3>2. a + b - old = end - old
      <4>1. end = a + b
        BY <2>0
      <4>2. QED BY <4>1
    <3>3. QED BY <3>1, <3>2
  <2>2. PICK T : T = {0, f.off + Len(f.bytes) - Len(entry.buf)}
    OBVIOUS
  <2>3. grow = Max(T)
    BY <2>2
  <2>4. T = {0, end - old}
    BY <2>1, <2>2
  <2>5. QED BY <2>3, <2>4
<1>4. CASE end <= old
  <2>1. T \subseteq Int /\ 0 \in T /\ \A y \in T : y <= 0
    BY <1>2, <1>3, <1>4
  <2>2. \A z \in T : (\A y \in T : z >= y) => z = 0
    BY <2>1
  <2>3. grow = 0
    BY <1>3, <2>1, <2>2 DEF Max
  <2>4. len = old
    BY <1>2, <1>4
  <2>5. QED BY <1>1, <1>2, <2>3, <2>4
<1>5. CASE ~(end <= old)
  <2>1. T \subseteq Nat /\ end - old \in T /\ \A y \in T : y <= end - old
    BY <1>2, <1>3, <1>5
  <2>2. grow = end - old
    BY <1>3, <2>1, GreatestIs
  <2>3. len = end /\ end - old \in Nat /\ end = old + (end - old)
    BY <1>2, <1>5
  <2>4. QED BY <1>1, <1>2, <2>2, <2>3
<1>6. QED BY <1>4, <1>5

\* Room is made by the entry that was touched longest ago.
LEMMA WithRoomPooled ==
    ASSUME NEW n \in Nat, NEW d, DefragKept(d, n), NEW key
    PROVE  /\ DefragKept(WithRoom(d, key), n)
           /\ Cardinality(DOMAIN WithRoom(d, key).table \cup {key}) <= MaxDatagrams
<1>1. PICK K : K = DOMAIN d.table /\ IsFiniteSet(K) /\ Cardinality(K) = Len(d.lru) /\ Cardinality(K) \in Nat
  BY ListsLength, FS_CardinalityType DEF DefragKept, DefragPooled, DefragExact
<1>2. MaxDatagrams \in Nat \ {0} /\ Cardinality(K) <= MaxDatagrams
  BY <1>1, DefragAssumption DEF DefragKept, DefragPooled
<1>3. CASE key \in K
  <2>1. K \cup {key} = K
    BY <1>3
  <2>2. QED BY <1>1, <1>2, <1>3, <2>1 DEF WithRoom
<1>4. CASE key \notin K /\ Cardinality(K) < MaxDatagrams
  <2>1. Cardinality(K \cup {key}) = Cardinality(K) + 1
    BY <1>1, <1>4, FS_AddElement
  <2>2. WithRoom(d, key) = d
    BY <1>1, <1>4 DEF WithRoom
  <2>3. QED BY <1>1, <1>2, <1>4, <2>1, <2>2
<1>5. CASE key \notin K /\ ~(Cardinality(K) < MaxDatagrams)
  <2>1. PICK first : first = Head(d.lru)
    OBVIOUS
  <2>2. first \in K
    <3>1. d.lru \in Seq(K) /\ Len(d.lru) # 0
      BY <1>1, <1>2, <1>5 DEF DefragKept, DefragPooled, DefragExact, Lists
    <3>2. QED BY <2>1, <3>1
  <2>3. PICK left : left = Without(d, {first})
    OBVIOUS
  <2>4. left = WithRoom(d, key)
    BY <1>1, <1>5, <2>1, <2>3 DEF WithRoom
  <2>5. EntriesKept(left, n)
    BY <2>3, WithoutEntries DEF DefragKept
  <2>6. DefragExact(left) /\ left.mem <= d.mem /\ DOMAIN left.table = K \ {first}
    BY <1>1, <2>2, <2>3, WithoutExact DEF DefragKept, DefragPooled
  <2>7. Cardinality(K \ {first}) = Cardinality(K) - 1 /\ IsFiniteSet(K \ {first})
    BY <1>1, <2>2, FS_RemoveElement
  <2>8. Cardinality((K \ {first}) \cup {key}) = Cardinality(K \ {first}) + 1
    BY <1>5, <2>7, FS_AddElement
  <2>9. left.mem \in Nat /\ d.mem \in Nat /\ d.mem <= MaxDefragMem /\ MaxDefragMem \in Nat
    BY <2>6, DefragAssumption DEF DefragKept, DefragPooled, DefragExact
  <2>10. left.mem <= MaxDefragMem
    BY <2>6, <2>9
  <2>11. Cardinality(DOMAIN left.table) <= MaxDatagrams
    BY <1>1, <1>2, <2>6, <2>7
  <2>12. Cardinality(DOMAIN left.table \cup {key}) <= MaxDatagrams
    BY <1>1, <1>2, <2>6, <2>7, <2>8
  <2>13. QED BY <2>4, <2>5, <2>6, <2>10, <2>11, <2>12 DEF DefragKept, DefragPooled
<1>6. QED BY <1>3, <1>4, <1>5

\* Taking entries out makes the table smaller in everything.
LEMMA WithoutPooled ==
    ASSUME NEW d, DefragExact(d), Cardinality(DOMAIN d.table) <= MaxDatagrams,
           NEW keys \in SUBSET DOMAIN d.table
    PROVE  /\ DefragExact(Without(d, keys)) /\ Without(d, keys).mem <= d.mem
           /\ Cardinality(DOMAIN Without(d, keys).table) <= MaxDatagrams
<1>1. PICK left : left = Without(d, keys)
  OBVIOUS
<1>2. DefragExact(left) /\ left.mem <= d.mem /\ DOMAIN left.table = DOMAIN d.table \ keys
  BY <1>1, WithoutExact
<1>3. IsFiniteSet(DOMAIN d.table)
  BY ListsLength DEF DefragExact
<1>4. Cardinality(DOMAIN left.table) <= Cardinality(DOMAIN d.table)
      /\ Cardinality(DOMAIN left.table) \in Nat /\ Cardinality(DOMAIN d.table) \in Nat
  <2>1. DOMAIN left.table \subseteq DOMAIN d.table
    BY <1>2
  <2>2. IsFiniteSet(DOMAIN left.table)
    BY <1>3, <2>1, FS_Subset
  <2>3. QED BY <1>3, <2>1, <2>2, FS_Subset, FS_CardinalityType
<1>5. Cardinality(DOMAIN left.table) <= MaxDatagrams
  BY <1>4, DefragAssumption
<1>6. QED BY <1>1, <1>2, <1>5

\* The datagram pool after add_fragment, when its entries are as they should be.
LEMMA AddFragmentPooled ==
    ASSUME NEW n \in Nat, NEW d, DefragKept(d, n), NEW key, NEW frag \in FragmentOf(n), NEW now
    PROVE  DefragPooled(AddFragment(d, key, frag, now).defrag)
<1>1. CASE frag.bytes = <<>> \/ frag.off >= MaxDatagramLen
  <2>1. AddFragment(d, key, frag, now).defrag = d
    BY <1>1 DEF AddFragment
  <2>2. QED BY <2>1 DEF DefragKept
<1>2. CASE ~(frag.bytes = <<>> \/ frag.off >= MaxDatagramLen)
  <2>1. PICK f : f = Clipped(frag) /\ f \in FragmentOf(n) /\ f.bytes # <<>>
    BY <1>2, ClippedIs
  <2>2. PICK roomy : /\ roomy = WithRoom(d, key) /\ DefragKept(roomy, n)
                     /\ Cardinality(DOMAIN roomy.table \cup {key}) <= MaxDatagrams
    BY WithRoomPooled
  <2>3. PICK fed : fed = Touched(roomy, key, now)
    OBVIOUS
  <2>4. EntriesKept(fed, n) /\ key \in DOMAIN fed.table
    BY <2>2, <2>3, DefragTouched DEF DefragKept
  <2>5. /\ DefragExact(fed) /\ Cardinality(DOMAIN fed.table) <= MaxDatagrams
        /\ \E others : fed.lru = Append(others, key)
    <3>1. EntriesKept(roomy, n) /\ DefragExact(roomy)
      BY <2>2 DEF DefragKept, DefragPooled
    <3>2. DefragExact(fed) /\ DOMAIN fed.table = DOMAIN roomy.table \cup {key}
          /\ \E others : fed.lru = Append(others, key)
      BY <2>3, <3>1, TouchedExact
    <3>3. QED BY <2>2, <3>2
  <2>6. PICK entry : entry = fed.table[key] /\ EntryKept(entry, n)
    BY <2>4 DEF EntriesKept
  <2>7. PICK grow : grow = Max({0, f.off + Len(f.bytes) - Len(entry.buf)})
    OBVIOUS
  <2>8. PICK full : full = WithFragment(entry, f)
    OBVIOUS
  <2>9. grow \in Nat /\ Len(full.buf) = Len(entry.buf) + grow
    <3>1. n \in Nat /\ f \in FragmentOf(n) /\ f.bytes # <<>>
      BY <2>1
    <3>2. EntryKept(entry, n)
      BY <2>6
    <3>3. QED BY ONLY <3>1, <3>2, <2>7, <2>8, GrowIs
  <2>10. PICK gone : gone = Victims(fed, grow) /\ gone \in SUBSET DOMAIN fed.table /\ key \notin gone
    BY <2>5, VictimsAre
  <2>11. PICK rest : rest = Without(fed, gone)
    OBVIOUS
  <2>12. EntriesKept(rest, n) /\ DefragExact(rest) /\ rest.mem <= fed.mem
         /\ Cardinality(DOMAIN rest.table) <= MaxDatagrams
    BY <2>4, <2>5, <2>10, <2>11, WithoutEntries, WithoutPooled
  <2>13. key \in DOMAIN rest.table /\ rest.table[key] = entry
    BY <2>4, <2>5, <2>6, <2>10, <2>11, WithoutExact
  <2>14. PICK evicted : evicted = (roomy # d \/ rest # fed)
    OBVIOUS
  <2>15. PICK stored : stored = [rest EXCEPT !.table[key] = full, !.mem = @ + grow]
    OBVIOUS
  <2>16. AddFragment(d, key, frag, now) =
           IF rest.mem + grow > MaxDefragMem
           THEN [defrag |-> IF entry.buf = <<>> THEN Without(rest, {key}) ELSE rest,
                 evicted |-> evicted, complete |-> <<>>]
           ELSE IF IsComplete(full)
                THEN [defrag |-> Without(stored, {key}), evicted |-> evicted, complete |-> <<full>>]
                ELSE [defrag |-> stored, evicted |-> evicted, complete |-> <<>>]
    BY <1>2, <2>1, <2>2, <2>3, <2>6, <2>7, <2>8, <2>10, <2>11, <2>14, <2>15 DEF AddFragment
  <2>17. MaxDefragMem \in Nat /\ rest.mem \in Nat
    BY <2>12, DefragAssumption DEF DefragExact
  <2>18. rest.mem <= MaxDefragMem
    <3>1. fed.mem = roomy.mem /\ roomy.mem <= MaxDefragMem /\ roomy.mem \in Nat
      <4>1. EntriesKept(roomy, n) /\ DefragExact(roomy) /\ roomy.mem <= MaxDefragMem
        BY <2>2 DEF DefragKept, DefragPooled
      <4>2. fed.mem = roomy.mem
        BY <2>3, <4>1, TouchedExact
      <4>3. QED BY <4>1, <4>2 DEF DefragExact
    <3>2. QED BY <2>12, <2>17, <3>1
  <2>19. DefragPooled(rest)
    BY <2>12, <2>18 DEF DefragPooled
  <2>20. DefragPooled(Without(rest, {key}))
    <3>1. PICK left : left = Without(rest, {key})
      OBVIOUS
    <3>2. {key} \in SUBSET DOMAIN rest.table
      BY <2>13
    <3>3. DefragExact(left) /\ left.mem <= rest.mem /\ Cardinality(DOMAIN left.table) <= MaxDatagrams
      BY <2>12, <3>1, <3>2, WithoutPooled
    <3>4. left.mem \in Nat
      BY <3>3 DEF DefragExact
    <3>5. left.mem <= MaxDefragMem
      BY <2>17, <2>18, <3>3, <3>4
    <3>6. QED BY <3>1, <3>3, <3>5 DEF DefragPooled
  <2>21. ASSUME ~(rest.mem + grow > MaxDefragMem)
         PROVE  DefragPooled(stored) /\ DefragPooled(Without(stored, {key}))
    <3>1. DefragExact(stored) /\ DOMAIN stored.table = DOMAIN rest.table /\ stored.mem = rest.mem + grow
      <4>1. Len(full.buf) = Len(rest.table[key].buf) + grow
        BY <2>9, <2>13
      <4>2. stored.table = [rest.table EXCEPT ![key] = full] /\ stored.mem = rest.mem + grow
            /\ stored.lru = rest.lru
        BY <2>12, <2>15 DEF EntriesKept
      <4>3. DOMAIN stored.table = DOMAIN rest.table
        BY <4>2
      <4>4. DefragExact(rest) /\ key \in DOMAIN rest.table /\ grow \in Nat
        BY <2>9, <2>12, <2>13
      <4>5. DefragExact(stored)
        BY ONLY <4>1, <4>2, <4>4, GrownExact
      <4>6. QED BY <4>2, <4>3, <4>5
    <3>2. stored.mem <= MaxDefragMem /\ stored.mem \in Nat
      BY <2>9, <2>17, <2>21, <3>1
    <3>3. DefragPooled(stored)
      BY <2>12, <3>1, <3>2 DEF DefragPooled
    <3>4. PICK left : left = Without(stored, {key})
      OBVIOUS
    <3>5. {key} \in SUBSET DOMAIN stored.table /\ Cardinality(DOMAIN stored.table) <= MaxDatagrams
      BY <2>12, <2>13, <3>1
    <3>6. DefragExact(left) /\ left.mem <= stored.mem /\ Cardinality(DOMAIN left.table) <= MaxDatagrams
      BY <3>1, <3>4, <3>5, WithoutPooled
    <3>7. left.mem \in Nat
      BY <3>6 DEF DefragExact
    <3>8. left.mem <= MaxDefragMem
      BY <2>17, <3>2, <3>6, <3>7
    <3>9. QED BY <3>3, <3>4, <3>6, <3>8 DEF DefragPooled
  <2>22. QED BY <2>16, <2>19, <2>20, <2>21
<1>3. QED BY <1>1, <1>2

\* What add_fragment makes of the table, and the datagram that it returns.
DefragResult(r, n) ==
    /\ DefragKept(r.defrag, n)
    /\ r.complete = <<>>
       \/ \E entry : r.complete = <<entry>> /\ EntryKept(entry, n) /\ IsComplete(entry)

\* add_fragment keeps the table and its pool, and returns a datagram only when it is complete.
LEMMA AddFragmentKept ==
    ASSUME NEW n \in Nat, NEW d, DefragKept(d, n), NEW key, NEW frag \in FragmentOf(n), NEW now
    PROVE  DefragResult(AddFragment(d, key, frag, now), n)
<1>1. FragmentsResult(AddFragment(d, key, frag, now), n)
  BY AddFragmentEntries DEF DefragKept
<1>2. DefragPooled(AddFragment(d, key, frag, now).defrag)
  BY AddFragmentPooled
<1>3. QED BY <1>1, <1>2 DEF DefragResult, FragmentsResult, DefragKept

\* expire() of the fragment table.
LEMMA ExpireDefragKept ==
    ASSUME NEW n \in Nat, NEW d, DefragKept(d, n), NEW now
    PROVE  DefragKept(ExpireDefrag(d, now), n)
<1>1. PICK gone \in SUBSET DOMAIN d.table : ExpireDefrag(d, now) = Without(d, gone)
  <2>1. PICK gone : gone = {k \in DOMAIN d.table : now - d.table[k].seen >= DefragTimeout}
    OBVIOUS
  <2>2. gone \in SUBSET DOMAIN d.table /\ ExpireDefrag(d, now) = Without(d, gone)
    BY <2>1 DEF ExpireDefrag
  <2>3. QED BY <2>2
<1>2. PICK left : left = Without(d, gone)
  OBVIOUS
<1>3. EntriesKept(left, n)
  BY <1>2, WithoutEntries DEF DefragKept
<1>4. DefragExact(left) /\ left.mem <= d.mem /\ Cardinality(DOMAIN left.table) <= MaxDatagrams
  BY <1>2, WithoutPooled DEF DefragKept, DefragPooled
<1>5. left.mem \in Nat /\ d.mem \in Nat /\ MaxDefragMem \in Nat /\ d.mem <= MaxDefragMem
  BY <1>4, DefragAssumption DEF DefragKept, DefragPooled, DefragExact
<1>6. left.mem <= MaxDefragMem
  BY <1>4, <1>5
<1>7. QED BY <1>1, <1>2, <1>3, <1>4, <1>6 DEF DefragKept, DefragPooled

\* Another packet changes nothing of what was put together before.
LEMMA DefragGrows ==
    ASSUME NEW n \in Nat, NEW d, DefragKept(d, n)
    PROVE  DefragKept(d, n + 1)
BY EntriesGrow DEF DefragKept

\* The fragment table starts with nothing.
LEMMA EmptyDefragKept == DefragKept(EmptyDefrag, 0)
<1>1. PICK d : d = EmptyDefrag
  OBVIOUS
<1>2. DOMAIN d = {"table", "lru", "mem"} /\ d.table = <<>> /\ d.lru = <<>> /\ d.mem = 0
  BY <1>1 DEF EmptyDefrag
<1>3. DOMAIN d.table = {}
  BY <1>2
<1>4. EntriesKept(d, 0)
  BY <1>2, <1>3 DEF EntriesKept
<1>5. Sizes(BufSizes(d.table), {})
  BY FS_EmptySet DEF Sizes
<1>6. DefragExact(d)
  BY <1>2, <1>3, <1>5, ListsNothing, WeightNat DEF DefragExact
<1>7. Cardinality({}) = 0
  BY FS_EmptySet
<1>8. QED BY <1>1, <1>2, <1>3, <1>4, <1>6, <1>7, DefragAssumption DEF DefragKept, DefragPooled

-----------------------------------------------------------------------------
\* The streams.

StreamByte == [at : Nat, byte : Nat]

DirectionKept(d) ==
    /\ DOMAIN d = {"initialized", "next", "ooo", "gap", "since", "fin"}
    /\ d.next \in Nat
    /\ DOMAIN d.ooo \subseteq Nat /\ IsFiniteSet(DOMAIN d.ooo)
    /\ d.ooo \in [DOMAIN d.ooo -> Seq(StreamByte)]

FlowKept(flow) ==
    /\ DOMAIN flow = {"dir", "seen", "life"}
    /\ DOMAIN flow.dir = 0..1 /\ \A i \in 0..1 : DirectionKept(flow.dir[i])

FlowsKept(t) ==
    /\ DOMAIN t = {"flows", "lru", "mem"}
    /\ \A k \in DOMAIN t.flows : FlowKept(t.flows[k])

Addition(x) ==
    /\ DOMAIN x = {"d", "mem", "out", "evicted"}
    /\ DirectionKept(x.d) /\ x.out \in Seq(StreamByte)

\* A sequence number is a natural number.
LEMMA Modulo ==
    ASSUME NEW a \in Int
    PROVE  a % SeqSpace \in Nat
<1>1. SeqSpace \in Nat /\ SeqSpace > 0
  BY TcpAssumption
<1>2. QED BY <1>1

\* What is delivered of a segment is a part of it.
LEMMA DeliverKept ==
    ASSUME NEW x, Addition(x), NEW start \in Nat, NEW data \in Seq(StreamByte)
    PROVE  /\ Addition(Deliver(x, start, data))
           /\ Deliver(x, start, data).d.ooo = x.d.ooo
<1>1. PICK new : new = Unseen(x.d, start, data)
  OBVIOUS
<1>2. new \in Seq(StreamByte) /\ Len(new) \in Nat
  <2>1. x.d.next \in Nat
    BY DEF Addition, DirectionKept
  <2>2. PICK m : m = (x.d.next - start) % SeqSpace
    OBVIOUS
  <2>3. m \in Nat
    <3>1. x.d.next - start \in Int
      BY <2>1
    <3>2. QED BY <2>2, <3>1, Modulo
  <2>4. m + 1 \in Nat \ {0}
    BY <2>3
  <2>5. SubSeq(data, m + 1, Len(data)) \in Seq(StreamByte)
    BY <2>4, PartOfSeq
  <2>6. new \in Seq(StreamByte)
    BY <1>1, <2>2, <2>5 DEF Unseen
  <2>7. QED BY <2>6
<1>3. PICK next : next = (x.d.next + Len(new)) % SeqSpace
  OBVIOUS
<1>4. next \in Nat
  <2>1. x.d.next + Len(new) \in Int
    BY <1>2 DEF Addition, DirectionKept
  <2>2. QED BY <1>3, <2>1, Modulo
<1>5. PICK y : y = Deliver(x, start, data)
  OBVIOUS
<1>6. /\ DOMAIN y = {"d", "mem", "out", "evicted"}
      /\ y.d = [x.d EXCEPT !.next = next] /\ y.out = x.out \o new
  BY <1>1, <1>3, <1>5 DEF Deliver, Addition
<1>7. y.out \in Seq(StreamByte)
  BY <1>2, <1>6 DEF Addition
<1>8. DirectionKept(y.d) /\ y.d.ooo = x.d.ooo
  BY <1>4, <1>6 DEF Addition, DirectionKept
<1>9. QED BY <1>5, <1>6, <1>7, <1>8 DEF Addition

\* A segment leaves the buffer.
LEMMA DropKept ==
    ASSUME NEW ooo, DOMAIN ooo \subseteq Nat, IsFiniteSet(DOMAIN ooo),
           ooo \in [DOMAIN ooo -> Seq(StreamByte)], NEW gone
    PROVE  /\ DOMAIN Dropped(ooo, gone) \subseteq Nat /\ IsFiniteSet(DOMAIN Dropped(ooo, gone))
           /\ Dropped(ooo, gone) \in [DOMAIN Dropped(ooo, gone) -> Seq(StreamByte)]
<1>1. PICK left : left = Dropped(ooo, gone)
  OBVIOUS
<1>2. DOMAIN left = DOMAIN ooo \ gone /\ left \in [DOMAIN left -> Seq(StreamByte)]
  BY <1>1 DEF Dropped, Restrict
<1>3. IsFiniteSet(DOMAIN left)
  BY <1>2, FS_Subset
<1>4. QED BY <1>1, <1>2, <1>3

\* A segment is buffered in the place of those it covers.
LEMMA BufferKept ==
    ASSUME NEW x, Addition(x), NEW start \in Nat, NEW data \in Seq(StreamByte), NEW now
    PROVE  Addition(Buffer(x, start, data, now))
<1>1. PICK end, gone, freed :
        /\ end = End(start, data)
        /\ gone = Swallowed(x.d.ooo, start, end)
        /\ freed = MapThenSumSet(LAMBDA s : Len(x.d.ooo[s]), gone)
  OBVIOUS
<1>2. PICK left : left = Dropped(x.d.ooo, gone)
  OBVIOUS
<1>3. /\ DOMAIN left \subseteq Nat /\ IsFiniteSet(DOMAIN left)
      /\ left \in [DOMAIN left -> Seq(StreamByte)]
  BY <1>2, DropKept DEF Addition, DirectionKept
<1>4. PICK ooo : ooo = Put(left, start, data)
  OBVIOUS
<1>5. DOMAIN ooo = DOMAIN left \cup {start} /\ ooo \in [DOMAIN ooo -> Seq(StreamByte)]
  BY <1>3, <1>4 DEF Put
<1>6. DOMAIN ooo \subseteq Nat /\ IsFiniteSet(DOMAIN ooo)
  BY <1>3, <1>5, FS_AddElement
<1>7. PICK y : y = [x EXCEPT !.mem = @ - freed + Len(data), !.d.ooo = ooo,
                             !.d.since = IF x.d.gap THEN @ ELSE now, !.d.gap = TRUE]
  OBVIOUS
<1>8. DOMAIN y = {"d", "mem", "out", "evicted"} /\ y.out = x.out
  BY <1>7 DEF Addition
<1>9. /\ DOMAIN y.d = DOMAIN x.d
      /\ y.d.next = x.d.next /\ y.d.ooo = ooo
  BY <1>7 DEF Addition, DirectionKept
<1>10. Addition(y)
  BY <1>5, <1>6, <1>8, <1>9 DEF Addition, DirectionKept
<1>11. Addition([x EXCEPT !.evicted = TRUE])
  BY DEF Addition
<1>12. Buffer(x, start, data, now) \in {[x EXCEPT !.evicted = TRUE], x, y}
  BY <1>1, <1>2, <1>4, <1>7 DEF Buffer
<1>13. QED BY <1>10, <1>11, <1>12

\* A buffer that is not empty has a segment.
LEMMA SomeBuffered ==
    ASSUME NEW x, Addition(x), x.d.ooo # <<>>
    PROVE  DOMAIN x.d.ooo # {} /\ DOMAIN x.d.ooo \subseteq Nat
<1>1. PICK S, ooo : S = DOMAIN x.d.ooo /\ ooo = x.d.ooo
  OBVIOUS
<1>2. ooo \in [S -> Seq(StreamByte)] /\ S \subseteq Nat
  BY <1>1 DEF Addition, DirectionKept
<1>3. \A f \in [{} -> Seq(StreamByte)] : f = <<>>
  OBVIOUS
<1>4. QED BY <1>1, <1>2, <1>3

\* A gap is skipped to a number that is buffered.
LEMMA SkipGapKept ==
    ASSUME NEW x, Addition(x), NEW now
    PROVE  Addition(SkipGap(x, now))
<1>1. PICK y : y = [x EXCEPT !.d.next = Min(DOMAIN x.d.ooo), !.d.gap = FALSE]
  OBVIOUS
<1>2. CASE SkipGap(x, now) = x
  BY <1>2
<1>3. CASE SkipGap(x, now) = y /\ x.d.ooo # <<>>
  <2>0. x.d.ooo # <<>>
    BY <1>3
  <2>1. DOMAIN x.d.ooo # {} /\ DOMAIN x.d.ooo \subseteq Nat
    BY <2>0, SomeBuffered
  <2>2. Min(DOMAIN x.d.ooo) \in Nat
    BY <2>1, FirstOfFinite
  <2>3. DOMAIN y = {"d", "mem", "out", "evicted"} /\ y.out = x.out
    BY <1>1 DEF Addition
  <2>4. DOMAIN y.d = DOMAIN x.d /\ y.d.next = Min(DOMAIN x.d.ooo) /\ y.d.ooo = x.d.ooo
    BY <1>1 DEF Addition, DirectionKept
  <2>5. Addition(y)
    BY <2>2, <2>3, <2>4 DEF Addition, DirectionKept
  <2>6. QED BY <1>3, <2>5
<1>4. QED BY <1>1, <1>2, <1>3 DEF SkipGap

\* One round of Drain.
LEMMA DrainFirstKept ==
    ASSUME NEW x, Addition(x)
    PROVE  Addition(DrainFirst(x))
<1>1. PICK first, seg : first = Min(DOMAIN x.d.ooo) /\ seg = x.d.ooo[first]
  OBVIOUS
<1>2. PICK z : z = Deliver(x, first, seg)
  OBVIOUS
<1>3. PICK y : y = [z EXCEPT !.d.ooo = Dropped(@, {first}), !.mem = @ - Len(seg)]
  OBVIOUS
<1>4. DrainFirst(x) = IF x.d.ooo = <<>> \/ ~SeqLeq(first, x.d.next) THEN x ELSE y
  BY <1>1, <1>2, <1>3 DEF DrainFirst
<1>5. CASE x.d.ooo = <<>> \/ ~SeqLeq(first, x.d.next)
  BY <1>4, <1>5
<1>6. CASE x.d.ooo # <<>>
  <2>1. DOMAIN x.d.ooo # {} /\ DOMAIN x.d.ooo \subseteq Nat
    BY <1>6, SomeBuffered
  <2>2. first \in DOMAIN x.d.ooo /\ first \in Nat
    BY <1>1, <2>1, FirstOfFinite
  <2>3. seg \in Seq(StreamByte)
    BY <1>1, <2>2 DEF Addition, DirectionKept
  <2>4. Addition(z) /\ z.d.ooo = x.d.ooo
    BY <1>2, <2>2, <2>3, DeliverKept
  <2>5. PICK left : left = Dropped(z.d.ooo, {first})
    OBVIOUS
  <2>6. /\ DOMAIN left \subseteq Nat /\ IsFiniteSet(DOMAIN left)
        /\ left \in [DOMAIN left -> Seq(StreamByte)]
    BY <2>4, <2>5, DropKept DEF Addition, DirectionKept
  <2>7. DOMAIN y = {"d", "mem", "out", "evicted"} /\ y.out = z.out
    BY <1>3, <2>4 DEF Addition
  <2>8. DOMAIN y.d = DOMAIN z.d /\ y.d.next = z.d.next /\ y.d.ooo = left
    BY <1>3, <2>4, <2>5 DEF Addition, DirectionKept
  <2>9. Addition(y)
    BY <2>4, <2>6, <2>7, <2>8 DEF Addition, DirectionKept
  <2>10. QED BY <1>4, <2>9
<1>7. QED BY <1>5, <1>6

\* The loops of the model, of which a round drains a buffer or takes a message.
Step(loop, x, life) ==
    CASE loop = "drain" -> DrainFirst(x)
      [] loop = "doip"  -> DoipMessage(x, life)
      [] OTHER          -> HttpMessage(x, life)

IsLoop(f, loop, m, x, life) ==
    f = [i \in 0..m |-> IF i = 0 THEN x ELSE Step(loop, f[i - 1], life)]

\* The function that Repeated is the last value of.
LEMMA LoopExists ==
    ASSUME NEW loop, NEW m \in Nat, NEW x, NEW life
    PROVE  \E f : IsLoop(f, loop, m, x, life)
<1> DEFINE P == {n \in Nat : \E f : IsLoop(f, loop, n, x, life)}
<1>1. 0 \in P
  <2>1. IsLoop([n \in 0..0 |-> x], loop, 0, x, life)
    BY DEF IsLoop
  <2>2. QED BY <2>1
<1>2. ASSUME NEW k \in Nat, k \in P PROVE k + 1 \in P
  <2>1. PICK f : IsLoop(f, loop, k, x, life)
    BY <1>2
  <2>2. PICK last : last = Step(loop, f[k], life)
    OBVIOUS
  <2> DEFINE g == [n \in 0..(k + 1) |-> IF n = k + 1 THEN last ELSE f[n]]
  <2>3. \A n \in 0..k : g[n] = f[n]
    OBVIOUS
  <2>4. \A n \in 0..k : f[n] = IF n = 0 THEN x ELSE Step(loop, f[n - 1], life)
    BY <2>1 DEF IsLoop
  <2>5. g[k + 1] = last /\ g = [n \in 0..(k + 1) |-> g[n]]
    OBVIOUS
  <2> HIDE DEF g
  <2>6. ASSUME NEW n \in 0..(k + 1)
        PROVE  g[n] = IF n = 0 THEN x ELSE Step(loop, g[n - 1], life)
    <3>1. CASE n = k + 1
      <4>1. n # 0 /\ n - 1 = k /\ k \in 0..k
        BY <3>1
      <4>2. QED BY <2>2, <2>3, <2>5, <3>1, <4>1
    <3>2. CASE n # k + 1
      <4>1. n \in 0..k /\ (n # 0 => n - 1 \in 0..k)
        BY <3>2
      <4>2. QED BY <2>3, <2>4, <4>1
    <3>3. QED BY <3>1, <3>2
  <2>7. IsLoop(g, loop, k + 1, x, life)
    BY <2>5, <2>6 DEF IsLoop
  <2>8. QED BY <2>7
<1> HIDE DEF P
<1>3. m \in P
  BY <1>1, <1>2, NumberInduction DEF P
<1>4. QED BY <1>3 DEF P

\* What the model's loop comes to.
LoopEnd(loop, m, x, life) == (CHOOSE f : IsLoop(f, loop, m, x, life))[m]

\* The rounds of Drain, one after the other.
LEMMA DrainLoopKept ==
    ASSUME NEW m \in Nat, NEW x, Addition(x)
    PROVE  Addition(LoopEnd("drain", m, x, 0))
<1> DEFINE f == CHOOSE g : IsLoop(g, "drain", m, x, 0)
           P == {n \in Nat : n <= m => Addition(f[n])}
<1>1. IsLoop(f, "drain", m, x, 0)
  BY LoopExists
<1> HIDE DEF f
<1>2. \A n \in 0..m : f[n] = IF n = 0 THEN x ELSE DrainFirst(f[n - 1])
  BY <1>1 DEF IsLoop, Step
<1>3. 0 \in P
  <2>1. f[0] = x
    BY <1>2
  <2>2. QED BY <2>1
<1>4. ASSUME NEW k \in Nat, k \in P PROVE k + 1 \in P
  <2>1. SUFFICES ASSUME k + 1 <= m PROVE Addition(f[k + 1])
    OBVIOUS
  <2>2. Addition(f[k])
    BY <1>4, <2>1
  <2>3. f[k + 1] = DrainFirst(f[k])
    <3>1. k + 1 \in 0..m /\ k + 1 # 0 /\ (k + 1) - 1 = k
      BY <2>1
    <3>2. QED BY <1>2, <3>1
  <2>4. QED BY <2>2, <2>3, DrainFirstKept
<1> HIDE DEF P
<1>5. m \in P
  BY <1>3, <1>4, NumberInduction DEF P
<1>6. Addition(f[m])
  BY <1>5 DEF P
<1>7. QED BY <1>6 DEF f, LoopEnd

\* Drain is such a loop.
LEMMA DrainKept ==
    ASSUME NEW x, Addition(x)
    PROVE  Addition(Drain(x))
<1>1. PICK m \in Nat : m = Cardinality(DOMAIN x.d.ooo)
  BY FS_CardinalityType DEF Addition, DirectionKept
<1>2. PICK y : y = LoopEnd("drain", m, x, 0)
  OBVIOUS
<1>3. Addition(y)
  BY <1>2, DrainLoopKept
<1>4. Repeated(DrainFirst, m, x) = y
  BY <1>2 DEF Repeated, LoopEnd, IsLoop, Step
<1>5. PICK z : z = [y EXCEPT !.d.gap = FALSE]
  OBVIOUS
<1>6. DOMAIN z = {"d", "mem", "out", "evicted"} /\ z.out = y.out
  BY <1>3, <1>5 DEF Addition
<1>7. DOMAIN z.d = DOMAIN y.d /\ z.d.next = y.d.next /\ z.d.ooo = y.d.ooo
  BY <1>3, <1>5 DEF Addition, DirectionKept
<1>8. Addition(z)
  BY <1>3, <1>6, <1>7 DEF Addition, DirectionKept
<1>9. Drain(x) \in {y, z}
  BY <1>1, <1>4, <1>5 DEF Drain
<1>10. QED BY <1>3, <1>8, <1>9

\* The data of a segment is delivered or buffered.
LEMMA AddDataKept ==
    ASSUME NEW x, Addition(x), NEW start \in Nat, NEW data \in Seq(StreamByte), NEW now
    PROVE  Addition(AddData(x, start, data, now))
BY DeliverKept, BufferKept, SkipGapKept, DrainKept DEF AddData

\* A new flow has two directions that have nothing.
LEMMA NewFlowKept ==
    ASSUME NEW life
    PROVE  FlowKept(NewFlow(life))
<1>1. PICK d : d = NewDirection
  OBVIOUS
<1>2. DirectionKept(d)
  <2>1. DOMAIN d = {"initialized", "next", "ooo", "gap", "since", "fin"} /\ d.next = 0 /\ d.ooo = <<>>
    BY <1>1 DEF NewDirection
  <2>2. DOMAIN d.ooo = {}
    BY <2>1
  <2>3. QED BY <2>1, <2>2, FS_EmptySet DEF DirectionKept
<1>3. QED BY <1>1, <1>2 DEF FlowKept, NewFlow

\* A flow is taken out.
LEMMA EraseLeaves ==
    ASSUME NEW t, FlowsKept(t), NEW key
    PROVE  FlowsKept(EraseFlow(t, key))
BY DEF FlowsKept, EraseFlow, Dropped, Restrict

\* expire() of the flows.
LEMMA ExpireLeaves ==
    ASSUME NEW t, FlowsKept(t), NEW now
    PROVE  FlowsKept(ExpireFlows(t, now))
<1>1. PICK idle : idle = {k \in DOMAIN t.flows : now - t.flows[k].seen >= IdleTimeout}
  OBVIOUS
<1>2. PICK u : u = ExpireFlows(t, now)
  OBVIOUS
<1>3. DOMAIN u = {"flows", "lru", "mem"} /\ u.flows = Dropped(t.flows, idle)
  BY <1>1, <1>2 DEF ExpireFlows
<1>4. QED BY <1>2, <1>3 DEF FlowsKept, Dropped, Restrict

\* The flow of a segment is there, new or used again.
LEMMA TouchFlowKept ==
    ASSUME NEW t, FlowsKept(t), NEW key, NEW now, NEW life
    PROVE  /\ FlowsKept(TouchFlow(t, key, now, life))
           /\ key \in DOMAIN TouchFlow(t, key, now, life).flows
<1>1. PICK flow : flow = At(t.flows, key, NewFlow(life))
  OBVIOUS
<1>2. FlowKept(flow)
  BY <1>1, NewFlowKept DEF At, FlowsKept
<1>3. PICK seen : seen = [flow EXCEPT !.seen = now]
  OBVIOUS
<1>4. FlowKept(seen)
  BY <1>2, <1>3 DEF FlowKept
<1>5. PICK u : u = TouchFlow(t, key, now, life)
  OBVIOUS
<1>6. DOMAIN u = {"flows", "lru", "mem"} /\ u.flows = Put(t.flows, key, seen)
  BY <1>1, <1>3, <1>5 DEF TouchFlow, FlowsKept
<1>7. QED BY <1>4, <1>5, <1>6 DEF FlowsKept, Put

\* What add_segment makes of the flows, and what it delivers.
FlowsResult(r) ==
    /\ FlowsKept(r.tcp) /\ r.data \in Seq(StreamByte) /\ r.dir \in 0..1

\* The number of a packet is one of the space.
LEMMA SeqOfPacket ==
    ASSUME NEW p, IsPacket(p)
    PROVE  p.seq \in Nat /\ p.seq < SeqSpace
<1>1. PICK m \in Nat : m = SeqSpace
  BY TcpAssumption
<1>2. p.seq \in 0..(m - 1)
  BY <1>1 DEF IsPacket
<1>3. QED BY <1>1, <1>2

\* A FIN moves next_seq on.
LEMMA FinishedKept ==
    ASSUME NEW d, DirectionKept(d), NEW p
    PROVE  DirectionKept(Finished(d, p)) /\ Finished(d, p).ooo = d.ooo
<1>1. PICK next : next = (d.next + 1) % SeqSpace
  OBVIOUS
<1>2. next \in Nat
  <2>1. d.next + 1 \in Int
    BY DEF DirectionKept
  <2>2. QED BY <1>1, <2>1, Modulo
<1>3. PICK e : e = [d EXCEPT !.fin = TRUE, !.next = next]
  OBVIOUS
<1>4. DOMAIN e = DOMAIN d /\ e.next = next /\ e.ooo = d.ooo
  BY <1>3 DEF DirectionKept
<1>5. DirectionKept(e)
  BY <1>2, <1>4 DEF DirectionKept
<1>6. Finished(d, p) \in {d, e}
  BY <1>1, <1>3 DEF Finished
<1>7. QED BY <1>4, <1>5, <1>6

\* The first segment says where a direction begins.
LEMMA InitializedKept ==
    ASSUME NEW d, DirectionKept(d), NEW p, IsPacket(p)
    PROVE  DirectionKept(Initialized(d, p)) /\ Initialized(d, p).ooo = d.ooo
<1>1. PICK next : next = (p.seq + (IF "SYN" \in p.flags THEN 1 ELSE 0)) % SeqSpace
  OBVIOUS
<1>2. next \in Nat
  <2>1. p.seq + (IF "SYN" \in p.flags THEN 1 ELSE 0) \in Int
    BY SeqOfPacket
  <2>2. QED BY <1>1, <2>1, Modulo
<1>3. PICK e : e = [d EXCEPT !.initialized = TRUE, !.next = next]
  OBVIOUS
<1>4. DOMAIN e = DOMAIN d /\ e.next = next /\ e.ooo = d.ooo
  BY <1>3 DEF DirectionKept
<1>5. DirectionKept(e)
  BY <1>2, <1>4 DEF DirectionKept
<1>6. Initialized(d, p) \in {d, e}
  BY <1>1, <1>3 DEF Initialized
<1>7. QED BY <1>4, <1>5, <1>6

\* The bytes of a segment, numbered.
LEMMA SegmentBytes ==
    ASSUME NEW p, IsPacket(p), NEW bytes,
           bytes = [i \in DOMAIN p.data |-> [at |-> (p.seq + i - 1) % SeqSpace, byte |-> p.data[i]]]
    PROVE  bytes \in Seq(StreamByte)
<1>1. PICK n \in Nat : DOMAIN p.data = 1..n /\ p.seq \in Nat /\ \A i \in 1..n : p.data[i] \in Nat
  <2>1. p.data \in Seq(Nat) /\ p.seq \in Nat
    BY SeqOfPacket DEF IsPacket
  <2>2. Len(p.data) \in Nat /\ DOMAIN p.data = 1..Len(p.data)
    BY <2>1
  <2>3. QED BY <2>1, <2>2
<1>2. ASSUME NEW i \in 1..n PROVE bytes[i] \in StreamByte
  <2>1. p.seq + i - 1 \in Int
    BY <1>1
  <2>2. (p.seq + i - 1) % SeqSpace \in Nat
    BY <2>1, Modulo
  <2>3. QED BY <1>1, <2>2 DEF StreamByte
<1>3. bytes \in [1..n -> StreamByte]
  BY <1>1, <1>2
<1>4. QED BY <1>3

\* add_segment keeps the flows, and delivers a sequence of bytes.
LEMMA AddSegmentFlows ==
    ASSUME NEW t, FlowsKept(t), NEW p, IsPacket(p), NEW now, NEW life
    PROVE  FlowsResult(AddSegment(t, p, now, life))
<1>1. PICK key, dir : key = FlowKey(p) /\ dir = FlowDir(p) /\ dir \in 0..1
  BY DEF FlowDir
<1>2. PICK roomy : roomy = FlowRoom(t, key) /\ FlowsKept(roomy)
  BY EraseLeaves DEF FlowRoom
<1>3. PICK fed : fed = TouchFlow(roomy, key, now, life)
  OBVIOUS
<1>4. FlowsKept(fed) /\ key \in DOMAIN fed.flows
  BY <1>2, <1>3, TouchFlowKept
<1>5. PICK bytes : bytes = [i \in DOMAIN p.data |->
                              [at |-> (p.seq + i - 1) % SeqSpace, byte |-> p.data[i]]]
  OBVIOUS
<1>6. bytes \in Seq(StreamByte)
  BY <1>5, SegmentBytes
<1>7. PICK flow : flow = fed.flows[key] /\ FlowKept(flow)
  BY <1>4 DEF FlowsKept
<1>8. PICK x : x = [d |-> Initialized(flow.dir[dir], p), mem |-> fed.mem,
                    out |-> <<>>, evicted |-> roomy # t]
  OBVIOUS
<1>9. Addition(x)
  <2>1. DirectionKept(flow.dir[dir])
    BY <1>1, <1>7 DEF FlowKept
  <2>2. DirectionKept(x.d)
    BY <1>8, <2>1, InitializedKept
  <2>3. DOMAIN x = {"d", "mem", "out", "evicted"} /\ x.out = <<>>
    BY <1>8
  <2>4. QED BY <2>2, <2>3 DEF Addition
<1>10. PICK y : y = AddData(x, p.seq, bytes, now)
  OBVIOUS
<1>11. Addition(y)
  <2>1. p.seq \in Nat
    BY SeqOfPacket
  <2>2. QED BY <1>6, <1>9, <1>10, <2>1, AddDataKept
<1>12. PICK done : done = [flow EXCEPT !.dir[dir] = Finished(y.d, p)]
  OBVIOUS
<1>13. FlowKept(done)
  <2>1. DirectionKept(Finished(y.d, p))
    BY <1>11, FinishedKept DEF Addition
  <2>2. QED BY <1>1, <1>7, <1>12, <2>1 DEF FlowKept
<1>14. PICK after : after = [fed EXCEPT !.flows[key] = done, !.mem = y.mem]
  OBVIOUS
<1>15. FlowsKept(after)
  <2>1. DOMAIN after = {"flows", "lru", "mem"} /\ after.flows = [fed.flows EXCEPT ![key] = done]
    BY <1>4, <1>14 DEF FlowsKept
  <2>2. QED BY <1>4, <1>13, <2>1 DEF FlowsKept
<1>16. FlowsKept(EraseFlow(fed, key)) /\ FlowsKept(EraseFlow(after, key))
  BY <1>4, <1>15, EraseLeaves
<1>17. PICK closed : closed = (done.dir[0].fin /\ done.dir[1].fin)
  OBVIOUS
<1>18. PICK r : r = AddSegment(t, p, now, life)
  OBVIOUS
<1>19. r = IF "RST" \in p.flags
           THEN [flow |-> key, dir |-> dir, life |-> done.life, tcp |-> EraseFlow(fed, key),
                 data |-> <<>>, closed |-> TRUE, evicted |-> roomy # t]
           ELSE [flow |-> key, dir |-> dir, life |-> done.life,
                 tcp |-> IF closed THEN EraseFlow(after, key) ELSE after,
                 data |-> y.out, closed |-> closed, evicted |-> y.evicted]
  BY <1>1, <1>2, <1>3, <1>5, <1>7, <1>8, <1>10, <1>12, <1>14, <1>17, <1>18 DEF AddSegment
<1>20. r.tcp \in {EraseFlow(fed, key), EraseFlow(after, key), after} /\ r.dir = dir
       /\ r.data \in {<<>>, y.out}
  BY <1>19
<1>21. y.out \in Seq(StreamByte) /\ <<>> \in Seq(StreamByte)
  BY <1>11 DEF Addition
<1>22. QED BY <1>1, <1>15, <1>16, <1>18, <1>20, <1>21 DEF FlowsResult

-----------------------------------------------------------------------------
\* The pool of the streams: what a direction holds, and what the pool counts.

SegSizes(ooo) == [s \in DOMAIN ooo |-> Len(ooo[s])]

\* What a direction holds is what its segments come to.
LEMMA SegSum ==
    ASSUME NEW d, NEW keys, keys \subseteq DOMAIN d.ooo, Sizes(SegSizes(d.ooo), keys)
    PROVE  MapThenSumSet(LAMBDA s : Len(d.ooo[s]), keys) = Weight(SegSizes(d.ooo), keys)
<1>1. PICK w : w = SegSizes(d.ooo)
  OBVIOUS
<1>2. PICK it : Weights(it, w, keys)
  BY <1>1, WeightsExist
<1> DEFINE OK(g) == g = [s \in SUBSET keys |->
                          IF s = {} THEN 0
                          ELSE Len(d.ooo[CHOOSE x \in s : TRUE]) + g[s \ {CHOOSE x \in s : TRUE}]]
           g0 == CHOOSE g : OK(g)
<1>3. MapThenSumSet(LAMBDA s : Len(d.ooo[s]), keys) = g0[keys]
  BY DEF MapThenSumSet, MapThenFoldSet
<1>4. \A s \in SUBSET keys : s # {} => Len(d.ooo[CHOOSE x \in s : TRUE]) = w[CHOOSE x \in s : TRUE]
  BY <1>1 DEF SegSizes
<1>5. OK(it)
  <2>1. Taken(it, w, keys)
    BY <1>1, <1>2, WeightsTaken
  <2>2. it = [s \in SUBSET keys |-> it[s]]
    BY <1>2 DEF Weights
  <2>3. \A s \in SUBSET keys :
            it[s] = IF s = {} THEN 0
                    ELSE Len(d.ooo[CHOOSE x \in s : TRUE]) + it[s \ {CHOOSE x \in s : TRUE}]
    BY <1>4, <2>1 DEF Taken
  <2>4. QED BY <2>2, <2>3
<1>6. OK(g0)
  BY <1>5
<1> HIDE DEF g0
<1>7. Taken(g0, w, keys)
  BY <1>4, <1>6 DEF Taken
<1>8. g0[keys] = it[keys]
  BY <1>1, <1>2, <1>7, TakenOnce
<1>9. Weight(w, keys) = it[keys]
  BY <1>1, <1>2, WeightIs
<1>10. QED BY <1>1, <1>3, <1>8, <1>9

FlowSizes(flows) == [k \in DOMAIN flows |-> HeldBy(flows[k])]

\* What the flows hold together.
LEMMA FlowSum ==
    ASSUME NEW t, NEW keys, keys \subseteq DOMAIN t.flows, Sizes(FlowSizes(t.flows), keys)
    PROVE  MapThenSumSet(LAMBDA k : HeldBy(t.flows[k]), keys) = Weight(FlowSizes(t.flows), keys)
<1>1. PICK w : w = FlowSizes(t.flows)
  OBVIOUS
<1>2. PICK it : Weights(it, w, keys)
  BY <1>1, WeightsExist
<1> DEFINE OK(g) == g = [s \in SUBSET keys |->
                          IF s = {} THEN 0
                          ELSE HeldBy(t.flows[CHOOSE x \in s : TRUE]) + g[s \ {CHOOSE x \in s : TRUE}]]
           g0 == CHOOSE g : OK(g)
<1>3. MapThenSumSet(LAMBDA k : HeldBy(t.flows[k]), keys) = g0[keys]
  BY DEF MapThenSumSet, MapThenFoldSet
<1>4. \A s \in SUBSET keys : s # {} => HeldBy(t.flows[CHOOSE x \in s : TRUE]) = w[CHOOSE x \in s : TRUE]
  BY <1>1 DEF FlowSizes
<1>5. OK(it)
  <2>1. Taken(it, w, keys)
    BY <1>1, <1>2, WeightsTaken
  <2>2. it = [s \in SUBSET keys |-> it[s]]
    BY <1>2 DEF Weights
  <2>3. \A s \in SUBSET keys :
            it[s] = IF s = {} THEN 0 ELSE HeldBy(t.flows[CHOOSE x \in s : TRUE]) + it[s \ {CHOOSE x \in s : TRUE}]
    BY <1>4, <2>1 DEF Taken
  <2>4. QED BY <2>2, <2>3
<1>6. OK(g0)
  BY <1>5
<1> HIDE DEF g0
<1>7. Taken(g0, w, keys)
  BY <1>4, <1>6 DEF Taken
<1>8. g0[keys] = it[keys]
  BY <1>1, <1>2, <1>7, TakenOnce
<1>9. Weight(w, keys) = it[keys]
  BY <1>1, <1>2, WeightIs
<1>10. QED BY <1>1, <1>3, <1>8, <1>9

\* What a direction holds, as a sum.
LEMMA HeldIs ==
    ASSUME NEW d, DirectionKept(d)
    PROVE  /\ Held(d) = Weight(SegSizes(d.ooo), DOMAIN d.ooo) /\ Held(d) \in Nat
           /\ \A keys \in SUBSET DOMAIN d.ooo : Sizes(SegSizes(d.ooo), keys)
<1>1. \A s \in DOMAIN d.ooo : Len(d.ooo[s]) \in Nat
  <2> TAKE s \in DOMAIN d.ooo
  <2>1. d.ooo[s] \in Seq(StreamByte)
    BY DEF DirectionKept
  <2>2. QED BY <2>1
<1>2. \A keys \in SUBSET DOMAIN d.ooo : Sizes(SegSizes(d.ooo), keys)
  BY <1>1, FS_Subset DEF DirectionKept, Sizes, SegSizes
<1>3. PICK S : S = DOMAIN d.ooo /\ Sizes(SegSizes(d.ooo), S)
  BY <1>2
<1>4. MapThenSumSet(LAMBDA s : Len(d.ooo[s]), S) = Weight(SegSizes(d.ooo), S)
  BY <1>3, SegSum
<1>5. Held(d) = Weight(SegSizes(d.ooo), S)
  BY <1>3, <1>4 DEF Held
<1>6. Weight(SegSizes(d.ooo), S) \in Nat
  BY <1>3, WeightNat
<1>7. QED BY <1>2, <1>3, <1>5, <1>6

\* It depends on the segments only.
LEMMA HeldSame ==
    ASSUME NEW d, DirectionKept(d), NEW e, DirectionKept(e), e.ooo = d.ooo
    PROVE  Held(e) = Held(d)
BY HeldIs

\* Of two numbers one is not after the other.
LEMMA OneIsFirst ==
    ASSUME NEW a \in Nat, NEW b \in Nat, a < SeqSpace, b < SeqSpace
    PROVE  SeqLeq(a, b) \/ SeqLeq(b, a)
<1>1. PICK m \in Nat, h \in Nat : m = SeqSpace /\ h = m \div 2 /\ m = h + h /\ h > 0
  <2>1. PICK m \in Nat : m = SeqSpace /\ m > 0 /\ m % 2 = 0
    BY TcpAssumption
  <2>2. PICK h \in Nat : h = m \div 2 /\ m = h + h
    BY <2>1
  <2>3. QED BY <2>1, <2>2
<1>2. ASSUME NEW u \in Nat, NEW v \in Nat, u < v, v < m
      PROVE  (v - u) % m = v - u /\ (u - v) % m = m - (v - u)
  <2>1. PICK k \in Nat : k = v - u /\ 0 < k /\ k < m
    BY <1>2
  <2>2. k % m = k
    BY <1>1, <2>1
  <2>3. (0 - k) % m = m - k
    BY <1>1, <2>1
  <2>4. u - v = 0 - k
    BY <2>1
  <2>5. QED BY <2>1, <2>2, <2>3, <2>4
<1>3. CASE a < b
  <2>1. (b - a) % m = b - a /\ (a - b) % m = m - (b - a)
    BY <1>1, <1>2, <1>3
  <2>2. (b - a) % m >= h \/ (a - b) % m >= h
    BY <1>1, <1>3, <2>1
  <2>3. QED BY <1>1, <2>2 DEF SeqLeq, SeqLt
<1>4. CASE b < a
  <2>1. (a - b) % m = a - b /\ (b - a) % m = m - (a - b)
    BY <1>1, <1>2, <1>4
  <2>2. (b - a) % m >= h \/ (a - b) % m >= h
    BY <1>1, <1>4, <2>1
  <2>3. QED BY <1>1, <2>2 DEF SeqLeq, SeqLt
<1>5. CASE a = b
  BY <1>5 DEF SeqLeq
<1>6. QED BY <1>3, <1>4, <1>5

\* What the pool counts besides this direction stays the same.
Accounted(x, others) ==
    /\ others \in Nat /\ x.mem = others + Held(x.d)
    /\ x.mem <= MaxTcpMem /\ Held(x.d) <= MaxStreamBytes

\* Neither the pool nor the segments change.
LEMMA AccountedSame ==
    ASSUME NEW x, Addition(x), NEW y, Addition(y), NEW others, Accounted(x, others),
           y.mem = x.mem, y.d.ooo = x.d.ooo
    PROVE  Accounted(y, others)
<1>1. Held(y.d) = Held(x.d)
  BY HeldSame DEF Addition
<1>2. QED BY <1>1 DEF Accounted

\* A segment that is not dominated takes the place of one that begins where it does.
LEMMA TakesPlace ==
    ASSUME NEW x, Addition(x), NEW start \in Nat, NEW data \in Seq(StreamByte),
           NEW end, end = End(start, data), ~Dominated(x.d.ooo, start, end),
           start \in DOMAIN x.d.ooo
    PROVE  start \in Swallowed(x.d.ooo, start, end)
<1>1. PICK seg \in Seq(StreamByte) : seg = x.d.ooo[start]
  BY DEF Addition, DirectionKept
<1>2. PICK other : other = End(start, seg)
  OBVIOUS
<1>3. ~SeqLeq(end, other)
  BY <1>1, <1>2 DEF Dominated
<1>4. \A s \in Seq(StreamByte) : End(start, s) \in Nat /\ End(start, s) < SeqSpace
  <2> TAKE s \in Seq(StreamByte)
  <2>1. PICK a \in Nat : a = start + Len(s)
    OBVIOUS
  <2>2. SeqSpace \in Nat /\ SeqSpace > 0
    BY TcpAssumption
  <2>3. a % SeqSpace \in Nat /\ a % SeqSpace < SeqSpace
    BY <2>2
  <2>4. QED BY <2>1, <2>3 DEF End
<1>5. end \in Nat /\ other \in Nat /\ end < SeqSpace /\ other < SeqSpace
  BY <1>1, <1>2, <1>4
<1>6. SeqLeq(other, end)
  BY <1>3, <1>5, OneIsFirst
<1>7. \A q \in DOMAIN x.d.ooo : start <= q /\ q <= start => q = start
  BY DEF Addition, DirectionKept
<1>8. QED BY <1>1, <1>2, <1>6, <1>7 DEF Swallowed

\* Segments are taken out of a buffer, and one is put in.
LEMMA HeldBuffered ==
    ASSUME NEW d, DirectionKept(d), NEW gone \in SUBSET DOMAIN d.ooo, NEW start, NEW data \in Seq(StreamByte),
           start \in DOMAIN d.ooo => start \in gone,
           NEW e, DirectionKept(e), e.ooo = Put(Dropped(d.ooo, gone), start, data)
    PROVE  /\ Held(e) = Held(d) - Weight(SegSizes(d.ooo), gone) + Len(data)
           /\ Weight(SegSizes(d.ooo), gone) \in Nat /\ Weight(SegSizes(d.ooo), gone) <= Held(d)
<1>1. PICK S, w, v : S = DOMAIN d.ooo /\ w = SegSizes(d.ooo) /\ v = SegSizes(e.ooo)
  OBVIOUS
<1>2. PICK rest : rest = S \ gone
  OBVIOUS
<1>3. DOMAIN e.ooo = rest \cup {start} /\ e.ooo[start] = data /\ \A s \in rest : e.ooo[s] = d.ooo[s]
  <2>1. start \notin rest
    BY <1>1, <1>2
  <2>2. QED BY <1>1, <1>2, <2>1 DEF Put, Dropped, Restrict
<1>4. v[start] = Len(data) /\ \A s \in rest : v[s] = w[s]
  BY <1>1, <1>2, <1>3 DEF SegSizes
<1>5. Sizes(w, S) /\ Sizes(w, gone) /\ Sizes(w, rest) /\ Held(d) = Weight(w, S)
  BY <1>1, <1>2, HeldIs
<1>6. PICK a \in Nat, b \in Nat, c \in Nat :
        a = Weight(w, gone) /\ b = Weight(w, rest) /\ c = Len(data) /\ Held(d) = a + b
  <2>1. Weight(w, gone) \in Nat /\ Weight(w, rest) \in Nat /\ Len(data) \in Nat
    BY <1>5, WeightNat
  <2>2. Weight(w, S) = Weight(w, gone) + Weight(w, S \ gone)
    BY <1>1, <1>5, WeightSplit
  <2>3. QED BY <1>2, <1>5, <2>1, <2>2
<1>7. Held(e) = Weight(v, rest \cup {start}) /\ Sizes(v, rest \cup {start})
  BY <1>1, <1>3, HeldIs
<1>8. Weight(v, rest \cup {start}) = Weight(v, (rest \cup {start}) \ {start}) + v[start]
  BY <1>7, WeightAdded
<1>9. (rest \cup {start}) \ {start} = rest
  <2>1. start \notin rest
    BY <1>1, <1>2
  <2>2. QED BY <2>1
<1>10. Weight(v, rest) = b
  BY <1>4, <1>5, <1>6, WeightSame
<1>11. Held(e) = b + c
  BY <1>4, <1>6, <1>7, <1>8, <1>9, <1>10
<1>12. b + c = (a + b) - a + c /\ a <= a + b
  OBVIOUS
<1>13. QED BY <1>1, <1>6, <1>11, <1>12

\* The pool after a segment came too early.
LEMMA BufferAccounted ==
    ASSUME NEW x, Addition(x), NEW start \in Nat, NEW data \in Seq(StreamByte), NEW now,
           NEW others, Accounted(x, others)
    PROVE  Accounted(Buffer(x, start, data, now), others)
<1>1. PICK end, gone, freed :
        /\ end = End(start, data)
        /\ gone = Swallowed(x.d.ooo, start, end)
        /\ freed = MapThenSumSet(LAMBDA s : Len(x.d.ooo[s]), gone)
  OBVIOUS
<1>2. PICK b : b = Buffer(x, start, data, now)
  OBVIOUS
<1>3. PICK ooo : ooo = Put(Dropped(x.d.ooo, gone), start, data)
  OBVIOUS
<1>4. PICK y : y = [x EXCEPT !.mem = @ - freed + Len(data), !.d.ooo = ooo,
                             !.d.since = IF x.d.gap THEN @ ELSE now, !.d.gap = TRUE]
  OBVIOUS
<1>6. b = IF Held(x.d) + Len(data) > MaxStreamBytes \/ x.mem + Len(data) > MaxTcpMem
          THEN [x EXCEPT !.evicted = TRUE]
          ELSE IF Dominated(x.d.ooo, start, end) THEN x ELSE y
  BY <1>1, <1>2, <1>3, <1>4 DEF Buffer
<1>7. Addition(b)
  BY <1>2, BufferKept
<1>8. CASE Held(x.d) + Len(data) > MaxStreamBytes \/ x.mem + Len(data) > MaxTcpMem
  <2>1. b.mem = x.mem /\ b.d = x.d
    BY <1>6, <1>8 DEF Addition
  <2>2. QED BY <1>2, <2>1 DEF Accounted
<1>9. CASE /\ ~(Held(x.d) + Len(data) > MaxStreamBytes \/ x.mem + Len(data) > MaxTcpMem)
           /\ Dominated(x.d.ooo, start, end)
  BY <1>2, <1>6, <1>9
<1>10. CASE /\ ~(Held(x.d) + Len(data) > MaxStreamBytes \/ x.mem + Len(data) > MaxTcpMem)
           /\ ~Dominated(x.d.ooo, start, end)
  <2>1. b = y /\ DirectionKept(x.d) /\ DirectionKept(y.d)
    BY <1>6, <1>7, <1>10 DEF Addition
  <2>2. y.d.ooo = ooo /\ y.mem = x.mem - freed + Len(data)
    BY <1>4 DEF Addition, DirectionKept
  <2>3. gone \in SUBSET DOMAIN x.d.ooo
    BY <1>1 DEF Swallowed
  <2>4. start \in DOMAIN x.d.ooo => start \in gone
    BY <1>1, <1>10, TakesPlace
  <2>5. freed = Weight(SegSizes(x.d.ooo), gone)
    BY <1>1, <2>1, <2>3, HeldIs, SegSum
  <2>6. Held(y.d) = Held(x.d) - freed + Len(data) /\ freed \in Nat /\ freed <= Held(x.d)
    BY <1>3, <2>1, <2>2, <2>3, <2>4, <2>5, HeldBuffered
  <2>7. PICK h \in Nat, l \in Nat, m \in Nat : h = Held(x.d) /\ l = Len(data) /\ m = x.mem
    BY <2>1, HeldIs DEF Accounted
  <2>8. m = others + h /\ others \in Nat /\ h <= MaxStreamBytes /\ m <= MaxTcpMem
    BY <2>7 DEF Accounted
  <2>9. h + l <= MaxStreamBytes /\ m + l <= MaxTcpMem
    <3>1. MaxStreamBytes \in Nat /\ MaxTcpMem \in Nat
      BY TcpAssumption
    <3>2. QED BY <1>10, <2>7, <3>1
  <2>10. Held(y.d) = h - freed + l /\ y.mem = m - freed + l
    BY <2>2, <2>6, <2>7
  <2>11. freed \in Nat /\ freed <= h /\ MaxStreamBytes \in Nat /\ MaxTcpMem \in Nat
    BY <2>6, <2>7, TcpAssumption
  <2>12. /\ m - freed + l = others + (h - freed + l)
         /\ m - freed + l <= MaxTcpMem /\ h - freed + l <= MaxStreamBytes
    BY <2>8, <2>9, <2>11
  <2>13. QED BY <1>2, <2>1, <2>8, <2>10, <2>12 DEF Accounted
<1>11. QED BY <1>8, <1>9, <1>10

\* What is delivered at once is not counted.
LEMMA DeliverAccounted ==
    ASSUME NEW x, Addition(x), NEW start \in Nat, NEW data \in Seq(StreamByte),
           NEW others, Accounted(x, others)
    PROVE  Accounted(Deliver(x, start, data), others) /\ Deliver(x, start, data).mem = x.mem
<1>1. PICK y : y = Deliver(x, start, data)
  OBVIOUS
<1>2. Addition(y) /\ y.d.ooo = x.d.ooo
  BY <1>1, DeliverKept
<1>3. y.mem = x.mem
  BY <1>1 DEF Deliver, Addition
<1>4. QED BY <1>1, <1>2, <1>3, AccountedSame

\* A gap that is skipped frees nothing.
LEMMA SkipGapAccounted ==
    ASSUME NEW x, Addition(x), NEW now, NEW others, Accounted(x, others)
    PROVE  Accounted(SkipGap(x, now), others)
<1>1. PICK y : y = SkipGap(x, now)
  OBVIOUS
<1>2. Addition(y)
  BY <1>1, SkipGapKept
<1>3. y.mem = x.mem /\ y.d.ooo = x.d.ooo
  <2>1. PICK z : z = [x EXCEPT !.d.next = Min(DOMAIN x.d.ooo), !.d.gap = FALSE]
    OBVIOUS
  <2>2. y \in {x, z}
    BY <1>1, <2>1 DEF SkipGap
  <2>3. z.mem = x.mem /\ z.d.ooo = x.d.ooo
    BY <2>1 DEF Addition, DirectionKept
  <2>4. QED BY <2>2, <2>3
<1>4. QED BY <1>1, <1>2, <1>3, AccountedSame

\* A segment leaves the buffer, and the pool.
LEMMA DrainFirstAccounted ==
    ASSUME NEW x, Addition(x), NEW others, Accounted(x, others)
    PROVE  Accounted(DrainFirst(x), others)
<1>1. PICK first, seg : first = Min(DOMAIN x.d.ooo) /\ seg = x.d.ooo[first]
  OBVIOUS
<1>2. PICK z : z = Deliver(x, first, seg)
  OBVIOUS
<1>3. PICK y : y = [z EXCEPT !.d.ooo = Dropped(@, {first}), !.mem = @ - Len(seg)]
  OBVIOUS
<1>4. DrainFirst(x) = IF x.d.ooo = <<>> \/ ~SeqLeq(first, x.d.next) THEN x ELSE y
  BY <1>1, <1>2, <1>3 DEF DrainFirst
<1>5. CASE x.d.ooo = <<>> \/ ~SeqLeq(first, x.d.next)
  BY <1>4, <1>5
<1>6. CASE ~(x.d.ooo = <<>> \/ ~SeqLeq(first, x.d.next))
  <2>1. DrainFirst(x) = y /\ Addition(y)
    BY <1>4, <1>6, DrainFirstKept
  <2>2. first \in DOMAIN x.d.ooo /\ first \in Nat /\ seg \in Seq(StreamByte)
    <3>1. x.d.ooo # <<>>
      BY <1>6
    <3>2. DOMAIN x.d.ooo # {} /\ DOMAIN x.d.ooo \subseteq Nat
      <4>1. PICK ooo, S : ooo = x.d.ooo /\ ooo \in [S -> Seq(StreamByte)] /\ S \subseteq Nat
        BY DEF Addition, DirectionKept
      <4>2. S = {} => ooo = <<>>
        BY <4>1
      <4>3. QED BY <3>1, <4>1, <4>2
    <3>3. first \in DOMAIN x.d.ooo
      BY <1>1, <3>2, FirstOfFinite
    <3>4. seg \in Seq(StreamByte)
      <4>1. x.d.ooo \in [DOMAIN x.d.ooo -> Seq(StreamByte)]
        BY DEF Addition, DirectionKept
      <4>2. QED BY <1>1, <3>3, <4>1
    <3>5. QED BY <3>2, <3>3, <3>4
  <2>3. Addition(z) /\ z.d.ooo = x.d.ooo /\ z.mem = x.mem
    BY <1>2, <2>2, DeliverKept, DeliverAccounted
  <2>4. y.d.ooo = Dropped(x.d.ooo, {first}) /\ y.mem = x.mem - Len(seg)
    BY <1>3, <2>3 DEF Addition, DirectionKept
  <2>5. PICK S, w, v : S = DOMAIN x.d.ooo /\ w = SegSizes(x.d.ooo) /\ v = SegSizes(y.d.ooo)
    OBVIOUS
  <2>6. DOMAIN y.d.ooo = S \ {first} /\ \A s \in S \ {first} : v[s] = w[s]
    BY <2>4, <2>5 DEF Dropped, Restrict, SegSizes
  <2>7. DirectionKept(x.d) /\ DirectionKept(y.d)
    BY <2>1 DEF Addition
  <2>8. Held(x.d) = Weight(w, S) /\ Sizes(w, S) /\ Sizes(w, S \ {first})
    BY <2>5, <2>7, HeldIs
  <2>9. Held(y.d) = Weight(w, S \ {first})
    <3>1. Held(y.d) = Weight(v, S \ {first})
      BY <2>5, <2>6, <2>7, HeldIs
    <3>2. Weight(v, S \ {first}) = Weight(w, S \ {first})
      BY <2>6, <2>8, WeightSame
    <3>3. QED BY <3>1, <3>2
  <2>10. Weight(w, S) = Weight(w, S \ {first}) + w[first]
    BY <2>2, <2>5, <2>8, WeightAdded
  <2>11. w[first] = Len(seg)
    BY <1>1, <2>2, <2>5 DEF SegSizes
  <2>12. PICK h \in Nat, l \in Nat, m \in Nat : h = Held(y.d) /\ l = Len(seg) /\ m = x.mem
    <3>1. x.mem \in Nat
      BY <2>7, HeldIs DEF Accounted
    <3>2. QED BY <2>2, <2>7, <3>1, HeldIs
  <2>13. Held(x.d) = h + l
    BY <2>8, <2>9, <2>10, <2>11, <2>12
  <2>14. others \in Nat /\ m = others + (h + l) /\ m <= MaxTcpMem /\ h + l <= MaxStreamBytes
         /\ MaxTcpMem \in Nat /\ MaxStreamBytes \in Nat
    BY <2>12, <2>13, TcpAssumption DEF Accounted
  <2>15. m - l = others + h /\ m - l <= MaxTcpMem /\ h <= MaxStreamBytes
    BY <2>14
  <2>16. y.mem = m - l
    BY <2>4, <2>12
  <2>17. QED BY <2>1, <2>12, <2>14, <2>15, <2>16 DEF Accounted
<1>7. QED BY <1>5, <1>6

\* The rounds of Drain give back what they deliver.
LEMMA DrainLoopAccounted ==
    ASSUME NEW m \in Nat, NEW x, Addition(x), NEW others, Accounted(x, others)
    PROVE  Accounted(LoopEnd("drain", m, x, 0), others)
<1> DEFINE f == CHOOSE g : IsLoop(g, "drain", m, x, 0)
           P == {n \in Nat : n <= m => Addition(f[n]) /\ Accounted(f[n], others)}
<1>1. IsLoop(f, "drain", m, x, 0)
  BY LoopExists
<1> HIDE DEF f
<1>2. \A n \in 0..m : f[n] = IF n = 0 THEN x ELSE DrainFirst(f[n - 1])
  BY <1>1 DEF IsLoop, Step
<1>3. 0 \in P
  <2>1. f[0] = x
    BY <1>2
  <2>2. QED BY <2>1
<1>4. ASSUME NEW k \in Nat, k \in P PROVE k + 1 \in P
  <2>1. SUFFICES ASSUME k + 1 <= m PROVE Addition(f[k + 1]) /\ Accounted(f[k + 1], others)
    OBVIOUS
  <2>2. Addition(f[k]) /\ Accounted(f[k], others)
    BY <1>4, <2>1
  <2>3. f[k + 1] = DrainFirst(f[k])
    <3>1. k + 1 \in 0..m /\ k + 1 # 0 /\ (k + 1) - 1 = k
      BY <2>1
    <3>2. QED BY <1>2, <3>1
  <2>4. QED BY <2>2, <2>3, DrainFirstKept, DrainFirstAccounted
<1> HIDE DEF P
<1>5. m \in P
  BY <1>3, <1>4, NumberInduction DEF P
<1>6. Accounted(f[m], others)
  BY <1>5 DEF P
<1>7. QED BY <1>6 DEF f, LoopEnd

\* Drain is such a loop.
LEMMA DrainAccounted ==
    ASSUME NEW x, Addition(x), NEW others, Accounted(x, others)
    PROVE  Accounted(Drain(x), others)
<1>1. PICK m \in Nat : m = Cardinality(DOMAIN x.d.ooo)
  BY FS_CardinalityType DEF Addition, DirectionKept
<1>2. PICK y : y = LoopEnd("drain", m, x, 0)
  OBVIOUS
<1>3. Addition(y) /\ Accounted(y, others)
  BY <1>2, DrainLoopKept, DrainLoopAccounted
<1>4. Repeated(DrainFirst, m, x) = y
  BY <1>2 DEF Repeated, LoopEnd, IsLoop, Step
<1>5. PICK z : z = [y EXCEPT !.d.gap = FALSE]
  OBVIOUS
<1>6. Drain(x) \in {y, z}
  BY <1>1, <1>4, <1>5 DEF Drain
<1>7. /\ DOMAIN z = {"d", "mem", "out", "evicted"} /\ z.out = y.out /\ z.mem = y.mem
      /\ DOMAIN z.d = DOMAIN y.d /\ z.d.next = y.d.next /\ z.d.ooo = y.d.ooo
  BY <1>3, <1>5 DEF Addition, DirectionKept
<1>8. Addition(z)
  BY <1>3, <1>7 DEF Addition, DirectionKept
<1>9. Accounted(z, others)
  BY <1>3, <1>7, <1>8, AccountedSame
<1>10. QED BY <1>3, <1>6, <1>9

\* The pool after the data of a segment.
LEMMA AddDataAccounted ==
    ASSUME NEW x, Addition(x), NEW start \in Nat, NEW data \in Seq(StreamByte), NEW now,
           NEW others, Accounted(x, others)
    PROVE  Accounted(AddData(x, start, data, now), others)
<1>1. PICK taken : taken = IF SeqLeq(start, x.d.next) \/ SeqLeq(End(start, data), x.d.next)
                           THEN Deliver(x, start, data) ELSE Buffer(x, start, data, now)
  OBVIOUS
<1>2. Addition(taken) /\ Accounted(taken, others)
  BY <1>1, DeliverKept, BufferKept, DeliverAccounted, BufferAccounted
<1>3. PICK skipped : skipped = SkipGap(taken, now)
  OBVIOUS
<1>4. Addition(skipped) /\ Accounted(skipped, others)
  BY <1>2, <1>3, SkipGapKept, SkipGapAccounted
<1>5. Accounted(Drain(skipped), others)
  BY <1>4, DrainAccounted
<1>6. AddData(x, start, data, now) = IF data = <<>> THEN x ELSE Drain(skipped)
  BY <1>1, <1>3 DEF AddData
<1>7. QED BY <1>5, <1>6

-----------------------------------------------------------------------------
\* The table of the flows and its pool.

\* The pool of the streams counts what is held, and lru names every flow once.
TcpExact(t) ==
    /\ Lists(t.lru, DOMAIN t.flows) /\ Sizes(FlowSizes(t.flows), DOMAIN t.flows)
    /\ t.mem \in Nat /\ t.mem = Weight(FlowSizes(t.flows), DOMAIN t.flows)

StreamsCapped(t) ==
    \A k \in DOMAIN t.flows : \A i \in 0..1 : Held(t.flows[k].dir[i]) <= MaxStreamBytes

TcpPooled(t) ==
    /\ TcpExact(t) /\ StreamsCapped(t)
    /\ t.mem <= MaxTcpMem /\ Cardinality(DOMAIN t.flows) <= MaxFlows

TcpKept(t) == FlowsKept(t) /\ TcpPooled(t)

\* What a flow holds is a number.
LEMMA HeldByNat ==
    ASSUME NEW flow, FlowKept(flow)
    PROVE  HeldBy(flow) \in Nat
<1>1. Held(flow.dir[0]) \in Nat /\ Held(flow.dir[1]) \in Nat
  BY HeldIs DEF FlowKept
<1>2. QED BY <1>1 DEF HeldBy

\* Flows give back what they hold.
LEMMA FlowsLeft ==
    ASSUME NEW t, TcpKept(t), NEW keys \in SUBSET DOMAIN t.flows,
           NEW u, u.flows = Dropped(t.flows, keys), u.lru = Others(t.lru, keys),
           u.mem = t.mem - Weight(FlowSizes(t.flows), keys)
    PROVE  TcpPooled(u) /\ DOMAIN u.flows = DOMAIN t.flows \ keys
<1>1. PICK K, w, v : K = DOMAIN t.flows /\ w = FlowSizes(t.flows) /\ v = FlowSizes(u.flows)
  OBVIOUS
<1>2. TcpExact(t) /\ StreamsCapped(t) /\ t.mem <= MaxTcpMem /\ Cardinality(K) <= MaxFlows
  BY <1>1 DEF TcpKept, TcpPooled
<1>3. Sizes(w, K) /\ Lists(t.lru, K) /\ t.mem = Weight(w, K) /\ t.mem \in Nat
  BY <1>1, <1>2 DEF TcpExact
<1>4. Sizes(w, keys) /\ Sizes(w, K \ keys) /\ IsFiniteSet(K) /\ IsFiniteSet(K \ keys)
  BY <1>1, <1>3, FS_Subset DEF Sizes
<1>5. PICK a \in Nat, b \in Nat : a = Weight(w, keys) /\ b = Weight(w, K \ keys)
  BY <1>4, WeightNat
<1>6. t.mem = a + b
  BY <1>1, <1>3, <1>5, WeightSplit
<1>7. u.mem = b
  BY <1>1, <1>5, <1>6
<1>8. DOMAIN u.flows = K \ keys /\ \A k \in K \ keys : u.flows[k] = t.flows[k]
  BY <1>1 DEF Dropped, Restrict
<1>9. \A k \in K \ keys : v[k] = w[k]
  BY <1>1, <1>8 DEF FlowSizes
<1>10. Sizes(v, K \ keys)
  BY <1>4, <1>9 DEF Sizes
<1>11. Weight(v, K \ keys) = b
  BY <1>4, <1>5, <1>9, WeightSame
<1>12. Lists(u.lru, K \ keys)
  BY <1>3, OthersLists
<1>13. TcpExact(u)
  BY <1>1, <1>5, <1>7, <1>8, <1>10, <1>11, <1>12 DEF TcpExact
<1>14. StreamsCapped(u)
  BY <1>1, <1>2, <1>8 DEF StreamsCapped
<1>15. b <= MaxTcpMem
  <2>1. a + b <= MaxTcpMem /\ MaxTcpMem \in Nat
    BY <1>2, <1>6, TcpAssumption
  <2>2. QED BY <2>1
<1>16. Cardinality(K \ keys) <= MaxFlows
  <2>1. Cardinality(K \ keys) <= Cardinality(K)
    BY <1>4, FS_Subset
  <2>2. Cardinality(K \ keys) \in Nat /\ Cardinality(K) \in Nat /\ MaxFlows \in Nat
    BY <1>4, FS_CardinalityType, TcpAssumption
  <2>3. QED BY <1>2, <2>1, <2>2
<1>17. QED BY <1>1, <1>7, <1>8, <1>13, <1>14, <1>15, <1>16 DEF TcpPooled

\* A flow that is there is taken out.
LEMMA EraseKept ==
    ASSUME NEW t, TcpKept(t), NEW key \in DOMAIN t.flows
    PROVE  TcpKept(EraseFlow(t, key)) /\ DOMAIN EraseFlow(t, key).flows = DOMAIN t.flows \ {key}
<1>1. PICK w : w = FlowSizes(t.flows)
  OBVIOUS
<1>2. w[key] = HeldBy(t.flows[key]) /\ Sizes(w, {key})
  <2>1. Sizes(w, DOMAIN t.flows)
    BY <1>1 DEF TcpKept, TcpPooled, TcpExact
  <2>2. IsFiniteSet({key})
    BY FS_Singleton
  <2>3. QED BY <1>1, <2>1, <2>2 DEF Sizes, FlowSizes
<1>3. Weight(w, {key}) = HeldBy(t.flows[key])
  <2>1. Weight(w, {key}) = Weight(w, {key} \ {key}) + w[key]
    BY <1>2, WeightAdded
  <2>2. Weight(w, {}) = 0
    BY <1>2, WeightNat
  <2>3. {key} \ {key} = {} /\ w[key] \in Nat
    BY <1>2 DEF Sizes
  <2>4. QED BY <1>2, <2>1, <2>2, <2>3
<1>4. PICK u : u = EraseFlow(t, key)
  OBVIOUS
<1>5. /\ u.flows = Dropped(t.flows, {key}) /\ u.lru = Others(t.lru, {key})
      /\ u.mem = t.mem - Weight(FlowSizes(t.flows), {key})
  BY <1>1, <1>3, <1>4 DEF EraseFlow
<1>6. {key} \in SUBSET DOMAIN t.flows
  OBVIOUS
<1>7. TcpPooled(u) /\ DOMAIN u.flows = DOMAIN t.flows \ {key}
  BY <1>5, <1>6, FlowsLeft
<1>8. FlowsKept(u)
  BY <1>4, EraseLeaves DEF TcpKept
<1>9. QED BY <1>4, <1>7, <1>8 DEF TcpKept

\* expire() of the flows.
LEMMA ExpireFlowsKept ==
    ASSUME NEW t, TcpKept(t), NEW now
    PROVE  TcpKept(ExpireFlows(t, now))
<1>1. PICK idle : idle = {k \in DOMAIN t.flows : now - t.flows[k].seen >= IdleTimeout}
  OBVIOUS
<1>2. PICK u : u = ExpireFlows(t, now)
  OBVIOUS
<1>3. idle \in SUBSET DOMAIN t.flows
  BY <1>1
<1>4. Sizes(FlowSizes(t.flows), idle)
  <2>1. Sizes(FlowSizes(t.flows), DOMAIN t.flows)
    BY DEF TcpKept, TcpPooled, TcpExact
  <2>2. QED BY <1>3, <2>1, FS_Subset DEF Sizes
<1>5. MapThenSumSet(LAMBDA k : HeldBy(t.flows[k]), idle) = Weight(FlowSizes(t.flows), idle)
  BY <1>3, <1>4, FlowSum
<1>6. /\ u.flows = Dropped(t.flows, idle) /\ u.lru = Others(t.lru, idle)
      /\ u.mem = t.mem - Weight(FlowSizes(t.flows), idle)
  BY <1>1, <1>2, <1>5 DEF ExpireFlows
<1>7. TcpPooled(u)
  BY <1>3, <1>6, FlowsLeft
<1>8. FlowsKept(u)
  BY <1>2, ExpireLeaves DEF TcpKept
<1>9. QED BY <1>2, <1>7, <1>8 DEF TcpKept

\* The least recently used flow makes room.
LEMMA FlowRoomKept ==
    ASSUME NEW t, TcpKept(t), NEW key
    PROVE  /\ TcpKept(FlowRoom(t, key))
           /\ Cardinality(DOMAIN FlowRoom(t, key).flows \cup {key}) <= MaxFlows
<1>1. PICK K : K = DOMAIN t.flows /\ IsFiniteSet(K) /\ Cardinality(K) = Len(t.lru) /\ Cardinality(K) \in Nat
  BY ListsLength, FS_CardinalityType DEF TcpKept, TcpPooled, TcpExact
<1>2. MaxFlows \in Nat \ {0} /\ Cardinality(K) <= MaxFlows
  BY <1>1, TcpAssumption DEF TcpKept, TcpPooled
<1>3. CASE key \in K
  <2>1. K \cup {key} = K
    BY <1>3
  <2>2. QED BY <1>1, <1>2, <1>3, <2>1 DEF FlowRoom
<1>4. CASE key \notin K /\ Cardinality(K) < MaxFlows
  <2>1. Cardinality(K \cup {key}) = Cardinality(K) + 1
    BY <1>1, <1>4, FS_AddElement
  <2>2. FlowRoom(t, key) = t
    BY <1>1, <1>4 DEF FlowRoom
  <2>3. QED BY <1>1, <1>2, <1>4, <2>1, <2>2
<1>5. CASE key \notin K /\ ~(Cardinality(K) < MaxFlows)
  <2>1. PICK first : first = Head(t.lru)
    OBVIOUS
  <2>2. first \in K
    <3>1. t.lru \in Seq(K) /\ Len(t.lru) # 0
      BY <1>1, <1>2, <1>5 DEF TcpKept, TcpPooled, TcpExact, Lists
    <3>2. QED BY <2>1, <3>1
  <2>3. PICK left : left = EraseFlow(t, first)
    OBVIOUS
  <2>4. left = FlowRoom(t, key)
    BY <1>1, <1>5, <2>1, <2>3 DEF FlowRoom
  <2>5. TcpKept(left) /\ DOMAIN left.flows = K \ {first}
    BY <1>1, <2>2, <2>3, EraseKept
  <2>6. Cardinality(K \ {first}) = Cardinality(K) - 1 /\ IsFiniteSet(K \ {first})
    BY <1>1, <2>2, FS_RemoveElement
  <2>7. Cardinality((K \ {first}) \cup {key}) = Cardinality(K \ {first}) + 1
    BY <1>5, <2>6, FS_AddElement
  <2>8. Cardinality(DOMAIN left.flows \cup {key}) <= MaxFlows
    BY <1>1, <1>2, <2>5, <2>6, <2>7
  <2>9. QED BY <2>4, <2>5, <2>8
<1>6. QED BY <1>3, <1>4, <1>5

\* A flow, and what the others hold.
LEMMA OtherFlows ==
    ASSUME NEW t, TcpKept(t), NEW key \in DOMAIN t.flows
    PROVE  \E rest \in Nat : rest = Weight(FlowSizes(t.flows), DOMAIN t.flows \ {key})
                             /\ t.mem = rest + HeldBy(t.flows[key])
<1>1. PICK K, w : K = DOMAIN t.flows /\ w = FlowSizes(t.flows)
  OBVIOUS
<1>2. Sizes(w, K) /\ t.mem = Weight(w, K)
  BY <1>1 DEF TcpKept, TcpPooled, TcpExact
<1>3. Weight(w, K) = Weight(w, K \ {key}) + w[key]
  BY <1>1, <1>2, WeightAdded
<1>4. Weight(w, K \ {key}) \in Nat
  <2>1. Sizes(w, K \ {key})
    BY <1>2, FS_Subset DEF Sizes
  <2>2. QED BY <2>1, WeightNat
<1>5. w[key] = HeldBy(t.flows[key])
  BY <1>1 DEF FlowSizes
<1>6. QED BY <1>1, <1>2, <1>3, <1>4, <1>5

\* One flow holds more or less, and the pool counts it.
LEMMA FlowChanged ==
    ASSUME NEW t, TcpKept(t), NEW key \in DOMAIN t.flows, NEW flow, FlowKept(flow),
           \A i \in 0..1 : Held(flow.dir[i]) <= MaxStreamBytes,
           NEW rest \in Nat, rest = Weight(FlowSizes(t.flows), DOMAIN t.flows \ {key}),
           NEW u, u.flows = [t.flows EXCEPT ![key] = flow], u.lru = t.lru,
           u.mem = rest + HeldBy(flow), u.mem <= MaxTcpMem
    PROVE  TcpPooled(u)
<1>1. PICK K, w, v : K = DOMAIN t.flows /\ w = FlowSizes(t.flows) /\ v = FlowSizes(u.flows)
  OBVIOUS
<1>2. TcpExact(t) /\ StreamsCapped(t) /\ Cardinality(K) <= MaxFlows
  BY <1>1 DEF TcpKept, TcpPooled
<1>3. Sizes(w, K) /\ Lists(t.lru, K)
  BY <1>1, <1>2 DEF TcpExact
<1>4. DOMAIN u.flows = K /\ u.flows[key] = flow /\ \A k \in K : k # key => u.flows[k] = t.flows[k]
  BY <1>1
<1>5. v[key] = HeldBy(flow) /\ HeldBy(flow) \in Nat /\ \A k \in K \ {key} : v[k] = w[k]
  BY <1>1, <1>4, HeldByNat DEF FlowSizes
<1>6. Sizes(v, K)
  BY <1>3, <1>5 DEF Sizes
<1>7. Weight(v, K) = Weight(v, K \ {key}) + v[key]
  BY <1>1, <1>6, WeightAdded
<1>8. Weight(v, K \ {key}) = rest
  <2>1. Sizes(w, K \ {key})
    BY <1>3, FS_Subset DEF Sizes
  <2>2. Weight(v, K \ {key}) = Weight(w, K \ {key})
    BY <1>5, <2>1, WeightSame
  <2>3. QED BY <1>1, <2>2
<1>9. u.mem = Weight(v, K) /\ u.mem \in Nat
  BY <1>5, <1>7, <1>8
<1>10. TcpExact(u)
  BY <1>1, <1>3, <1>4, <1>6, <1>9 DEF TcpExact
<1>11. StreamsCapped(u)
  BY <1>1, <1>2, <1>4 DEF StreamsCapped
<1>12. QED BY <1>1, <1>2, <1>4, <1>10, <1>11 DEF TcpPooled

\* A new flow holds nothing.
LEMMA NewFlowHolds ==
    ASSUME NEW life
    PROVE  HeldBy(NewFlow(life)) = 0 /\ \A i \in 0..1 : Held(NewFlow(life).dir[i]) = 0
<1>1. PICK flow : flow = NewFlow(life) /\ FlowKept(flow)
  BY NewFlowKept
<1>2. \A i \in 0..1 : flow.dir[i] = NewDirection
  BY <1>1 DEF NewFlow
<1>3. PICK d : d = NewDirection /\ DirectionKept(d)
  BY <1>1, <1>2 DEF FlowKept
<1>4. DOMAIN d.ooo = {}
  <2>1. d.ooo = <<>>
    BY <1>3 DEF NewDirection
  <2>2. QED BY <2>1
<1>5. Held(d) = 0
  BY <1>3, <1>4, HeldIs, WeightNat
<1>6. HeldBy(flow) = 0
  BY <1>2, <1>3, <1>5 DEF HeldBy
<1>7. QED BY <1>1, <1>2, <1>3, <1>5, <1>6

\* The flow of a segment is the last of lru, and holds what it did, or nothing.
LEMMA TouchFlowPooled ==
    ASSUME NEW t, TcpKept(t), NEW key, Cardinality(DOMAIN t.flows \cup {key}) <= MaxFlows,
           NEW now, NEW life, NEW u, u = TouchFlow(t, key, now, life)
    PROVE  TcpKept(u) /\ key \in DOMAIN u.flows /\ u.mem = t.mem
<1>1. PICK K, w, v : K = DOMAIN t.flows /\ w = FlowSizes(t.flows) /\ v = FlowSizes(u.flows)
  OBVIOUS
<1>2. /\ TcpExact(t) /\ StreamsCapped(t) /\ FlowsKept(t)
      /\ t.mem <= MaxTcpMem /\ Cardinality(K \cup {key}) <= MaxFlows
  BY <1>1 DEF TcpKept, TcpPooled
<1>3. Sizes(w, K) /\ Lists(t.lru, K) /\ t.mem = Weight(w, K) /\ t.mem \in Nat
  BY <1>1, <1>2 DEF TcpExact
<1>4. PICK flow : flow = At(t.flows, key, NewFlow(life)) /\ FlowKept(flow)
  BY <1>2, NewFlowKept DEF At, FlowsKept
<1>5. PICK seen : seen = [flow EXCEPT !.seen = now]
  OBVIOUS
<1>6. seen.dir = flow.dir
  BY <1>4, <1>5 DEF FlowKept
<1>7. u.flows = Put(t.flows, key, seen) /\ u.lru = Append(Others(t.lru, {key}), key) /\ u.mem = t.mem
  BY <1>2, <1>4, <1>5 DEF TouchFlow, FlowsKept
<1>8. DOMAIN u.flows = K \cup {key} /\ u.flows[key] = seen
      /\ \A k \in K : k # key => u.flows[k] = t.flows[k]
  BY <1>1, <1>7 DEF Put
<1>9. HeldBy(seen) = HeldBy(flow)
  <2>1. seen.dir[0] = flow.dir[0] /\ seen.dir[1] = flow.dir[1]
    BY <1>6
  <2>2. Held(seen.dir[0]) = Held(flow.dir[0]) /\ Held(seen.dir[1]) = Held(flow.dir[1])
    BY <2>1
  <2>3. QED BY <2>2 DEF HeldBy
<1>10. key \in K => flow = t.flows[key]
  BY <1>1, <1>4 DEF At
<1>11. key \notin K => flow = NewFlow(life)
  BY <1>1, <1>4 DEF At
<1>12. \A k \in K : v[k] = w[k]
  BY <1>1, <1>8, <1>9, <1>10 DEF FlowSizes
<1>13. Sizes(v, K \cup {key}) /\ Weight(v, K \cup {key}) = t.mem
  <2>1. Weight(v, K) = t.mem /\ Sizes(v, K) /\ IsFiniteSet(K)
    BY <1>3, <1>12, WeightSame DEF Sizes
  <2>2. CASE key \in K
    <3>1. K \cup {key} = K
      BY <2>2
    <3>2. QED BY <2>1, <3>1
  <2>3. CASE key \notin K
    <3>1. v[key] = 0
      <4>1. HeldBy(flow) = 0
        BY <1>11, <2>3, NewFlowHolds
      <4>2. QED BY <1>1, <1>8, <1>9, <4>1 DEF FlowSizes
    <3>2. Sizes(v, K \cup {key})
      <4>1. IsFiniteSet(K \cup {key})
        BY <2>1, FS_AddElement
      <4>2. QED BY <2>1, <3>1, <4>1 DEF Sizes
    <3>3. Weight(v, K \cup {key}) = Weight(v, (K \cup {key}) \ {key}) + v[key]
      BY <3>2, WeightAdded
    <3>4. (K \cup {key}) \ {key} = K
      BY <2>3
    <3>5. QED BY <1>3, <2>1, <3>1, <3>2, <3>3, <3>4
  <2>4. QED BY <2>2, <2>3
<1>14. Lists(u.lru, K \cup {key})
  BY <1>3, <1>7, ListsTouched
<1>15. TcpExact(u)
  BY <1>1, <1>3, <1>7, <1>8, <1>13, <1>14 DEF TcpExact
<1>16. StreamsCapped(u)
  <2>1. \A i \in 0..1 : Held(seen.dir[i]) <= MaxStreamBytes
    <3>1. CASE key \in K
      BY <1>1, <1>2, <1>6, <1>10, <3>1 DEF StreamsCapped
    <3>2. CASE key \notin K
      BY <1>6, <1>11, <3>2, NewFlowHolds, TcpAssumption
    <3>3. QED BY <3>1, <3>2
  <2>2. QED BY <1>1, <1>2, <1>8, <2>1 DEF StreamsCapped
<1>17. FlowsKept(u) /\ key \in DOMAIN u.flows
  BY <1>2, TouchFlowKept
<1>18. QED BY <1>1, <1>2, <1>7, <1>8, <1>15, <1>16, <1>17 DEF TcpKept, TcpPooled

\* The streams start with nothing.
LEMMA EmptyTcpKept == TcpKept(EmptyTcp)
<1>1. PICK t : t = EmptyTcp
  OBVIOUS
<1>2. DOMAIN t = {"flows", "lru", "mem"} /\ t.flows = <<>> /\ t.lru = <<>> /\ t.mem = 0
  BY <1>1 DEF EmptyTcp
<1>3. DOMAIN t.flows = {}
  BY <1>2
<1>4. FlowsKept(t) /\ StreamsCapped(t)
  BY <1>2, <1>3 DEF FlowsKept, StreamsCapped
<1>5. Sizes(FlowSizes(t.flows), {})
  BY FS_EmptySet DEF Sizes
<1>6. TcpExact(t)
  BY <1>2, <1>3, <1>5, ListsNothing, WeightNat DEF TcpExact
<1>7. Cardinality({}) = 0
  BY FS_EmptySet
<1>8. QED BY <1>1, <1>2, <1>3, <1>4, <1>6, <1>7, TcpAssumption DEF TcpKept, TcpPooled

\* The pool of the streams after add_segment.
LEMMA AddSegmentPooled ==
    ASSUME NEW t, TcpKept(t), NEW p, IsPacket(p), NEW now, NEW life
    PROVE  TcpPooled(AddSegment(t, p, now, life).tcp)
<1>1. PICK key, dir : key = FlowKey(p) /\ dir = FlowDir(p) /\ dir \in 0..1
  BY DEF FlowDir
<1>2. PICK roomy : /\ roomy = FlowRoom(t, key) /\ TcpKept(roomy)
                   /\ Cardinality(DOMAIN roomy.flows \cup {key}) <= MaxFlows
  BY FlowRoomKept
<1>3. PICK fed : fed = TouchFlow(roomy, key, now, life)
  OBVIOUS
<1>4. TcpKept(fed) /\ key \in DOMAIN fed.flows
  BY <1>2, <1>3, TouchFlowPooled
<1>5. PICK bytes : bytes = [i \in DOMAIN p.data |->
                              [at |-> (p.seq + i - 1) % SeqSpace, byte |-> p.data[i]]]
  OBVIOUS
<1>6. bytes \in Seq(StreamByte)
  BY <1>5, SegmentBytes
<1>7. PICK flow : flow = fed.flows[key] /\ FlowKept(flow)
  BY <1>4 DEF TcpKept, FlowsKept
<1>8. PICK old : old = flow.dir[dir] /\ DirectionKept(old)
  BY <1>1, <1>7 DEF FlowKept
<1>9. PICK d : d = Initialized(old, p) /\ DirectionKept(d) /\ d.ooo = old.ooo
  BY <1>8, InitializedKept
<1>10. PICK x : x = [d |-> d, mem |-> fed.mem, out |-> <<>>, evicted |-> roomy # t]
  OBVIOUS
<1>11. Addition(x)
  BY <1>9, <1>10 DEF Addition
<1>12. PICK rest \in Nat : rest = Weight(FlowSizes(fed.flows), DOMAIN fed.flows \ {key})
                           /\ fed.mem = rest + HeldBy(flow)
  BY <1>4, <1>7, OtherFlows
<1>13. PICK back \in Nat : back = Held(flow.dir[1 - dir]) /\ back <= MaxStreamBytes
  <2>1. 1 - dir \in 0..1
    BY <1>1
  <2>2. Held(flow.dir[1 - dir]) \in Nat
    BY <1>7, <2>1, HeldIs DEF FlowKept
  <2>3. Held(flow.dir[1 - dir]) <= MaxStreamBytes
    BY <1>4, <1>7, <2>1 DEF TcpKept, TcpPooled, StreamsCapped
  <2>4. QED BY <2>2, <2>3
<1>14. \A g : HeldBy(g) = Held(g.dir[0]) + Held(g.dir[1])
  BY DEF HeldBy
<1>15. Accounted(x, rest + back)
  <2>1. Held(d) = Held(old) /\ Held(old) \in Nat
    BY <1>8, <1>9, HeldSame, HeldIs
  <2>2. Held(old) <= MaxStreamBytes /\ fed.mem <= MaxTcpMem
    BY <1>1, <1>4, <1>7, <1>8 DEF TcpKept, TcpPooled, StreamsCapped
  <2>3. HeldBy(flow) = back + Held(old)
    <3>1. CASE dir = 0
      <4>1. HeldBy(flow) = Held(old) + back
        BY <1>8, <1>13, <1>14, <3>1
      <4>2. QED BY <2>1, <4>1
    <3>2. CASE dir = 1
      BY <1>8, <1>13, <1>14, <3>2
    <3>3. QED BY <1>1, <3>1, <3>2
  <2>4. fed.mem = rest + back + Held(old)
    BY <1>12, <2>1, <2>3
  <2>5. x.d = d /\ x.mem = fed.mem
    BY <1>10
  <2>6. QED BY <2>1, <2>2, <2>4, <2>5 DEF Accounted
<1>16. PICK y : y = AddData(x, p.seq, bytes, now)
  OBVIOUS
<1>17. Addition(y) /\ Accounted(y, rest + back)
  <2>1. p.seq \in Nat
    BY SeqOfPacket
  <2>2. QED BY <1>6, <1>11, <1>15, <1>16, <2>1, AddDataKept, AddDataAccounted
<1>18. PICK e : e = Finished(y.d, p) /\ DirectionKept(e) /\ e.ooo = y.d.ooo
  BY <1>17, FinishedKept DEF Addition
<1>19. Held(e) = Held(y.d) /\ Held(e) \in Nat
  BY <1>17, <1>18, HeldSame, HeldIs DEF Addition
<1>20. PICK done : done = [flow EXCEPT !.dir[dir] = e]
  OBVIOUS
<1>21. FlowKept(done) /\ done.dir[dir] = e /\ done.dir[1 - dir] = flow.dir[1 - dir]
  BY <1>1, <1>7, <1>18, <1>20 DEF FlowKept
<1>22. \A i \in 0..1 : Held(done.dir[i]) <= MaxStreamBytes
  <2>1. Held(e) <= MaxStreamBytes
    BY <1>17, <1>19 DEF Accounted
  <2>2. \A i \in 0..1 : i = dir \/ i = 1 - dir
    BY <1>1
  <2>3. QED BY <1>13, <1>21, <2>1, <2>2
<1>23. HeldBy(done) = back + Held(e)
  <2>1. CASE dir = 0
    <3>1. HeldBy(done) = Held(e) + back
      BY <1>13, <1>14, <1>21, <2>1
    <3>2. QED BY <1>19, <3>1
  <2>2. CASE dir = 1
    BY <1>13, <1>14, <1>21, <2>2
  <2>3. QED BY <1>1, <2>1, <2>2
<1>24. PICK after : after = [fed EXCEPT !.flows[key] = done, !.mem = y.mem]
  OBVIOUS
<1>25. /\ DOMAIN after = {"flows", "lru", "mem"}
       /\ after.flows = [fed.flows EXCEPT ![key] = done] /\ after.lru = fed.lru /\ after.mem = y.mem
  BY <1>4, <1>24 DEF TcpKept, FlowsKept
<1>26. TcpPooled(after)
  <2>1. y.mem = rest + back + Held(e) /\ y.mem <= MaxTcpMem
    BY <1>17, <1>19 DEF Accounted
  <2>2. after.mem = rest + HeldBy(done)
    BY <1>19, <1>23, <1>25, <2>1
  <2>3. after.mem <= MaxTcpMem
    BY <1>25, <2>1
  <2>4. TcpKept(fed) /\ key \in DOMAIN fed.flows /\ FlowKept(done)
    BY <1>4, <1>21
  <2>5. after.flows = [fed.flows EXCEPT ![key] = done] /\ after.lru = fed.lru
    BY <1>25
  <2>6. rest \in Nat /\ rest = Weight(FlowSizes(fed.flows), DOMAIN fed.flows \ {key})
    BY <1>12
  <2>7. QED BY ONLY <1>22, <2>2, <2>3, <2>4, <2>5, <2>6, FlowChanged
<1>27. FlowsKept(after)
  BY <1>4, <1>21, <1>25 DEF TcpKept, FlowsKept
<1>28. TcpKept(after) /\ key \in DOMAIN after.flows
  BY <1>4, <1>25, <1>26, <1>27 DEF TcpKept
<1>29. TcpPooled(EraseFlow(fed, key)) /\ TcpPooled(EraseFlow(after, key))
  BY <1>4, <1>28, EraseKept DEF TcpKept
<1>30. PICK closed : closed = (done.dir[0].fin /\ done.dir[1].fin)
  OBVIOUS
<1>31. PICK r : r = AddSegment(t, p, now, life)
  OBVIOUS
<1>32. r = IF "RST" \in p.flags
           THEN [flow |-> key, dir |-> dir, life |-> done.life, tcp |-> EraseFlow(fed, key),
                 data |-> <<>>, closed |-> TRUE, evicted |-> roomy # t]
           ELSE [flow |-> key, dir |-> dir, life |-> done.life,
                 tcp |-> IF closed THEN EraseFlow(after, key) ELSE after,
                 data |-> y.out, closed |-> closed, evicted |-> y.evicted]
  BY ONLY ZenonT(60), <1>1, <1>2, <1>3, <1>5, <1>7, <1>8, <1>9, <1>10, <1>16, <1>18, <1>20, <1>24, <1>30, <1>31 DEF AddSegment
<1>33. r.tcp \in {EraseFlow(fed, key), EraseFlow(after, key), after}
  BY <1>32
<1>34. QED BY <1>26, <1>29, <1>31, <1>33

\* What add_segment makes of the flows, and what it delivers.
SegmentResult(r) ==
    /\ TcpKept(r.tcp) /\ r.data \in Seq(StreamByte) /\ r.dir \in 0..1

\* add_segment keeps the flows and their pool, and delivers a sequence of bytes.
LEMMA AddSegmentKept ==
    ASSUME NEW t, TcpKept(t), NEW p, IsPacket(p), NEW now, NEW life
    PROVE  SegmentResult(AddSegment(t, p, now, life))
<1>1. FlowsResult(AddSegment(t, p, now, life))
  BY AddSegmentFlows DEF TcpKept
<1>2. TcpPooled(AddSegment(t, p, now, life).tcp)
  BY AddSegmentPooled
<1>3. QED BY <1>1, <1>2 DEF SegmentResult, FlowsResult, TcpKept

-----------------------------------------------------------------------------
\* The order of the streams.  First what is left of a number in the sequence space.

\* Turns of the sequence space leave nothing.
LEMMA TurnsLeave ==
    ASSUME NEW a \in Int, NEW q \in Int
    PROVE  (a + q * SeqSpace) % SeqSpace = a % SeqSpace
<1>1. PICK m \in Nat : m = SeqSpace /\ m > 0
  BY TcpAssumption
<1>2. PICK b \in Int : b = a + q * m
  BY <1>1
<1>3. PICK u \in Int, r \in Int : u = a \div m /\ r = a % m /\ a = m * u + r /\ 0 <= r /\ r < m
  BY <1>1
<1>4. PICK v \in Int, s \in Int : v = b \div m /\ s = b % m /\ b = m * v + s /\ 0 <= s /\ s < m
  BY <1>1
<1>5. PICK w \in Int : w = u + q - v
  OBVIOUS
<1>6. s - r = m * w
  BY <1>1, <1>2, <1>3, <1>4, <1>5
<1>7. w <= 0
  <2>1. SUFFICES ASSUME w >= 1 PROVE FALSE
    OBVIOUS
  <2>2. m * w >= m
    BY <1>1, <2>1
  <2>3. QED BY <1>1, <1>3, <1>4, <1>6, <2>2
<1>8. w >= 0
  <2>1. SUFFICES ASSUME w <= -1 PROVE FALSE
    OBVIOUS
  <2>2. m * w <= -m
    BY <1>1, <2>1
  <2>3. QED BY <1>1, <1>3, <1>4, <1>6, <2>2
<1>9. w = 0
  BY <1>7, <1>8
<1>10. m * w = 0
  BY <1>9
<1>11. s = r
  BY <1>3, <1>4, <1>6, <1>10
<1>12. QED BY <1>1, <1>2, <1>3, <1>4, <1>11

\* What a number leaves, and how many turns it makes.
LEMMA WhatIsLeft ==
    ASSUME NEW a \in Int
    PROVE  /\ a % SeqSpace \in Nat /\ a % SeqSpace < SeqSpace
           /\ \E q \in Int : a = (a % SeqSpace) + q * SeqSpace
<1>1. PICK m \in Nat : m = SeqSpace /\ m > 0
  BY TcpAssumption
<1>2. PICK u \in Int, r \in Int : u = a \div m /\ r = a % m /\ a = m * u + r /\ 0 <= r /\ r < m
  BY <1>1
<1>3. a = r + u * m
  BY <1>1, <1>2
<1>4. QED BY <1>1, <1>2, <1>3

\* A number of the space is left as it is.
LEMMA LeftAsItIs ==
    ASSUME NEW a \in Nat, a < SeqSpace
    PROVE  a % SeqSpace = a
<1>1. PICK m \in Nat : m = SeqSpace /\ m > 0
  BY TcpAssumption
<1>2. QED BY <1>1

\* It does not matter where in a sum the turns are taken off.
LEMMA SumLeft ==
    ASSUME NEW a \in Int, NEW b \in Int
    PROVE  /\ ((a % SeqSpace) + b) % SeqSpace = (a + b) % SeqSpace
           /\ (b - (a % SeqSpace)) % SeqSpace = (b - a) % SeqSpace
<1>1. PICK m \in Nat : m = SeqSpace /\ m > 0
  BY TcpAssumption
<1>2. PICK q \in Int, r \in Int : r = a % SeqSpace /\ a = r + q * m
  BY <1>1, WhatIsLeft
<1>3. PICK c \in Int, d \in Int : c = r + b /\ d = b - a
  BY <1>2
<1>4. (c + q * m) % m = c % m /\ (d + q * m) % m = d % m
  BY <1>1, TurnsLeave
<1>5. c + q * m = a + b /\ d + q * m = b - r
  BY <1>1, <1>2, <1>3
<1>6. QED BY <1>1, <1>2, <1>3, <1>4, <1>5

\* Half of the numbers, and how far two of them are apart.
Half == SeqSpace \div 2
Ahead(b, a) == (b - a) % SeqSpace

LEMMA HalfIs == Half \in Nat /\ Half >= 3 /\ SeqSpace \in Nat /\ SeqSpace = Half + Half
<1>1. PICK m \in Nat : m = SeqSpace /\ m > 4 /\ m % 2 = 0
  BY TcpAssumption
<1>2. PICK h \in Nat : h = m \div 2 /\ m = h + h
  BY <1>1
<1>3. QED BY <1>1, <1>2 DEF Half

\* Back is the rest of a turn.
LEMMA BackAgain ==
    ASSUME NEW a \in Int, NEW b \in Int
    PROVE  /\ Ahead(b, a) \in Nat /\ Ahead(b, a) < SeqSpace
           /\ \E q \in Int : b - a = Ahead(b, a) + q * SeqSpace
           /\ Ahead(b, a) # 0 => Ahead(a, b) = SeqSpace - Ahead(b, a)
<1>1. PICK m \in Nat : m = SeqSpace /\ m > 0
  BY TcpAssumption
<1>2. PICK c \in Int : c = b - a
  OBVIOUS
<1>3. PICK u \in Nat : u = Ahead(b, a) /\ u < m
  BY <1>1, <1>2, WhatIsLeft DEF Ahead
<1>4. PICK p \in Int : b - a = u + p * m
  BY <1>1, <1>2, <1>3, WhatIsLeft DEF Ahead
<1>5. u # 0 => Ahead(a, b) = m - u
  <2>1. SUFFICES ASSUME u # 0 PROVE (a - b) % m = m - u
    BY <1>1 DEF Ahead
  <2>2. PICK t \in Nat, k \in Int : t = m - u /\ k = -p - 1 /\ t < m
    BY <1>3, <2>1
  <2>3. a - b = t + k * m
    BY <1>1, <1>4, <2>2
  <2>4. (t + k * m) % m = t % m
    BY <1>1, TurnsLeave
  <2>5. t % m = t
    BY <1>1, <2>2, LeftAsItIs
  <2>6. QED BY <2>2, <2>3, <2>4, <2>5
<1>6. QED BY <1>1, <1>3, <1>4, <1>5

\* Distances add up, unless they make a turn.
LEMMA DistancesAdd ==
    ASSUME NEW a \in Int, NEW b \in Int, NEW c \in Int, Ahead(b, a) + Ahead(c, b) < SeqSpace
    PROVE  Ahead(c, a) = Ahead(b, a) + Ahead(c, b)
<1>1. PICK m \in Nat : m = SeqSpace /\ m > 0
  BY TcpAssumption
<1>2. PICK u \in Nat, v \in Nat : u = Ahead(b, a) /\ v = Ahead(c, b) /\ u + v < m
  BY <1>1, BackAgain
<1>3. PICK p \in Int, q \in Int : b - a = u + p * m /\ c - b = v + q * m
  <2>1. PICK p \in Int : b - a = Ahead(b, a) + p * SeqSpace
    BY BackAgain
  <2>2. PICK q \in Int : c - b = Ahead(c, b) + q * SeqSpace
    BY BackAgain
  <2>3. QED BY <1>1, <1>2, <2>1, <2>2
<1>4. PICK t \in Nat, k \in Int : t = u + v /\ k = p + q
  OBVIOUS
<1>5. c - a = t + k * m
  BY <1>1, <1>3, <1>4
<1>6. (t + k * m) % m = t % m
  BY <1>1, TurnsLeave
<1>7. t % m = t
  BY <1>1, <1>2, <1>4, LeftAsItIs
<1>8. QED BY <1>1, <1>2, <1>4, <1>5, <1>6, <1>7 DEF Ahead

-----------------------------------------------------------------------------
\* Bytes that come one after the other from a number on, and bytes that get ahead.
Numbered(s, start) == \A i \in 1..Len(s) : s[i].at = (start + i - 1) % SeqSpace
Rising(s) == \A j \in 1..(Len(s) - 1) : Ahead(s[j + 1].at, s[j].at) \in 1..(Half + 2)
Behind(s, next, most) == s # <<>> => Ahead(next, s[Len(s)].at) \in 1..most

\* Where the number after some bytes is.
LEMMA OneAhead ==
    ASSUME NEW a \in Int
    PROVE  Ahead((a + 1) % SeqSpace, a) = 1 /\ Ahead((a + 1) % SeqSpace, a % SeqSpace) = 1
           /\ \A b \in Int : Ahead(b % SeqSpace, a) = Ahead(b, a) /\ Ahead(b, a % SeqSpace) = Ahead(b, a)
<1>1. PICK m \in Nat : m = SeqSpace /\ m > 4
  BY TcpAssumption
<1>2. ASSUME NEW b \in Int
      PROVE  Ahead(b % SeqSpace, a) = Ahead(b, a) /\ Ahead(b, a % SeqSpace) = Ahead(b, a)
  <2>1. ((b % SeqSpace) + (0 - a)) % SeqSpace = (b + (0 - a)) % SeqSpace
    <3>1. 0 - a \in Int
      OBVIOUS
    <3>2. QED BY <3>1, SumLeft
  <2>2. (b % SeqSpace) + (0 - a) = (b % SeqSpace) - a /\ b + (0 - a) = b - a
    <3>1. b % SeqSpace \in Int
      BY WhatIsLeft
    <3>2. QED BY <3>1
  <2>3. (b - (a % SeqSpace)) % SeqSpace = (b - a) % SeqSpace
    BY SumLeft
  <2>4. QED BY <2>1, <2>2, <2>3 DEF Ahead
<1>3. Ahead(a + 1, a) = 1
  <2>1. (a + 1) - a = 1 /\ 1 % m = 1
    BY <1>1
  <2>2. QED BY <1>1, <2>1 DEF Ahead
<1>4. a + 1 \in Int /\ (a + 1) % SeqSpace \in Int
  BY WhatIsLeft
<1>5. Ahead((a + 1) % SeqSpace, a) = 1
  BY <1>2, <1>3, <1>4
<1>6. Ahead((a + 1) % SeqSpace, a % SeqSpace) = 1
  <2>1. (((a + 1) % SeqSpace) - (a % SeqSpace)) % SeqSpace = (((a + 1) % SeqSpace) - a) % SeqSpace
    BY <1>4, SumLeft
  <2>2. QED BY <1>5, <2>1 DEF Ahead
<1>7. QED BY <1>2, <1>5, <1>6

\* New bytes, numbered from the number that is next, are put to those delivered.
LEMMA RisesOn ==
    ASSUME NEW s \in Seq(StreamByte), NEW new \in Seq(StreamByte), NEW next \in Nat, next < SeqSpace,
           Numbered(new, next), Rising(s), Behind(s, next, Half + 2)
    PROVE  /\ Rising(s \o new)
           /\ \A most \in Nat \ {0} :
                  (new # <<>> \/ Behind(s, next, most)) => Behind(s \o new, (next + Len(new)) % SeqSpace, most)
<1>0. PICK t : t = s \o new
  OBVIOUS
<1>1. PICK k \in Nat, n \in Nat :
        /\ k = Len(s) /\ n = Len(new) /\ t \in Seq(StreamByte) /\ Len(t) = k + n
        /\ \A i \in 1..k : t[i] = s[i]
        /\ \A i \in 1..n : t[k + i] = new[i]
  <2>1. Len(s) \in Nat /\ Len(new) \in Nat
    OBVIOUS
  <2>2. t \in Seq(StreamByte) /\ Len(t) = Len(s) + Len(new)
    BY <1>0
  <2>3. \A i \in 1..Len(s) : t[i] = s[i]
    BY <1>0, <2>1
  <2>4. \A i \in 1..Len(new) : t[Len(s) + i] = new[i]
    BY <1>0, <2>1
  <2>5. QED BY <2>1, <2>2, <2>3, <2>4
<1>2. (s = <<>> <=> k = 0) /\ (new = <<>> <=> n = 0) /\ (t = <<>> <=> k + n = 0)
  BY <1>1
<1>3. \A i \in 1..n : new[i].at = (next + i - 1) % SeqSpace
  BY <1>1 DEF Numbered
<1>4. \A i \in 1..(n - 1) : Ahead(new[i + 1].at, new[i].at) = 1
  <2> TAKE i \in 1..(n - 1)
  <2>1. i \in 1..n /\ i + 1 \in 1..n
    BY <1>1
  <2>2. PICK a \in Int : a = next + i - 1 /\ next + (i + 1) - 1 = a + 1
    OBVIOUS
  <2>3. new[i].at = a % SeqSpace /\ new[i + 1].at = (a + 1) % SeqSpace
    BY <1>3, <2>1, <2>2
  <2>4. QED BY <2>3, OneAhead
<1>5. n > 0 => new[1].at = next
  <2>1. SUFFICES ASSUME n > 0 PROVE new[1].at = next
    OBVIOUS
  <2>2. 1 \in 1..n /\ next + 1 - 1 = next
    BY <1>1, <2>1
  <2>3. new[1].at = next % SeqSpace
    BY <1>3, <2>2
  <2>4. QED BY <2>3, LeftAsItIs
<1>6. PICK h \in Nat : h = Half + 2 /\ 1 \in 1..h
  BY HalfIs
<1>7. \A j \in 1..((k + n) - 1) : Ahead(t[j + 1].at, t[j].at) \in 1..h
  <2> TAKE j \in 1..((k + n) - 1)
  <2>1. CASE j < k
    <3>1. j \in 1..k /\ j + 1 \in 1..k /\ j \in 1..(k - 1)
      BY <2>1
    <3>2. t[j] = s[j] /\ t[j + 1] = s[j + 1]
      BY <1>1, <3>1
    <3>3. Ahead(s[j + 1].at, s[j].at) \in 1..(Half + 2)
      BY <1>1, <3>1 DEF Rising
    <3>4. QED BY <1>6, <3>2, <3>3
  <2>2. CASE j = k
    <3>1. k \in 1..k /\ 1 \in 1..n /\ k # 0 /\ n > 0
      BY <1>1, <2>2
    <3>2. t[j] = s[k] /\ t[j + 1] = new[1]
      BY <1>1, <2>2, <3>1
    <3>3. Ahead(next, s[k].at) \in 1..(Half + 2)
      BY <1>1, <1>2, <3>1 DEF Behind
    <3>4. QED BY <1>5, <1>6, <3>1, <3>2, <3>3
  <2>3. CASE j > k
    <3>1. PICK i \in 1..(n - 1) : j = k + i /\ i \in 1..n /\ i + 1 \in 1..n /\ j + 1 = k + (i + 1)
      <4>1. PICK i \in Int : i = j - k
        BY <1>1
      <4>2. j = k + i /\ i >= 1 /\ i <= n - 1
        BY <1>1, <2>3, <4>1
      <4>3. i \in 1..(n - 1) /\ i \in 1..n /\ i + 1 \in 1..n /\ j + 1 = k + (i + 1)
        BY <1>1, <4>2
      <4>4. QED BY <4>2, <4>3
    <3>2. t[j] = new[i] /\ t[j + 1] = new[i + 1]
      BY <1>1, <3>1
    <3>3. QED BY <1>4, <1>6, <3>1, <3>2
  <2>4. QED BY <1>1, <2>1, <2>2, <2>3
<1>8. Rising(t)
  BY <1>1, <1>6, <1>7 DEF Rising
<1>9. ASSUME NEW most \in Nat \ {0}, new # <<>> \/ Behind(s, next, most), t # <<>>
      PROVE  Ahead((next + Len(new)) % SeqSpace, t[Len(t)].at) \in 1..most
  <2>1. CASE new # <<>>
    <3>0. n >= 1 /\ n \in 1..n
      BY <1>1, <1>2, <2>1
    <3>6. PICK a : a = next + n - 1
      OBVIOUS
    <3>9. n \in Nat /\ next \in Nat
      OBVIOUS
    <3>1. a \in Int /\ a = next + n - 1 /\ next + n = a + 1 /\ n \in 1..n
      BY ONLY <3>0, <3>6, <3>9
    <3>7. t[k + n] = new[n]
      <4>1. \A i \in 1..n : t[k + i] = new[i]
        BY <1>1
      <4>2. n \in 1..n
        BY <3>0
      <4>3. QED BY ONLY <4>1, <4>2
    <3>8. new[n].at = (next + n - 1) % SeqSpace
      BY <1>3, <3>1
    <3>2. t[k + n] = new[n] /\ new[n].at = a % SeqSpace
      BY <3>6, <3>7, <3>8
    <3>3. Ahead((a + 1) % SeqSpace, a % SeqSpace) = 1
      BY <3>1, OneAhead
    <3>4. 1 \in 1..most
      BY <1>9
    <3>5. QED BY <1>1, <3>1, <3>2, <3>3, <3>4
  <2>2. CASE new = <<>>
    <3>1. n = 0 /\ k # 0 /\ s # <<>> /\ k \in 1..k
      BY <1>1, <1>2, <1>9, <2>2
    <3>2. (next + n) % SeqSpace = next
      BY <3>1, LeftAsItIs
    <3>3. t[k + n] = s[k]
      BY <1>1, <3>1
    <3>4. Ahead(next, s[k].at) \in 1..most
      BY <1>1, <1>9, <2>2, <3>1 DEF Behind
    <3>5. QED BY <1>1, <3>2, <3>3, <3>4
  <2>3. QED BY <2>1, <2>2
<1>10. QED BY <1>0, <1>8, <1>9 DEF Behind

\* What is delivered behind what was, with the number that is next at most so far
\* ahead of the last byte; and where the segments that came too early begin.
Order(g, x, most) == Rising(g \o x.out) /\ Behind(g \o x.out, x.d.next, most)
Placed(d) ==
    /\ d.next < SeqSpace
    /\ \A s \in DOMAIN d.ooo : s < SeqSpace /\ Numbered(d.ooo[s], s) /\ d.ooo[s] # <<>>

\* What a segment has from the number on that is next.
LEMMA UnseenNumbered ==
    ASSUME NEW d, d.next \in Nat, d.next < SeqSpace,
           NEW start \in Nat, NEW data \in Seq(StreamByte), Numbered(data, start)
    PROVE  /\ Unseen(d, start, data) \in Seq(StreamByte)
           /\ Numbered(Unseen(d, start, data), d.next)
           /\ start = d.next => Unseen(d, start, data) = data
<1>1. PICK m \in Nat : m = (d.next - start) % SeqSpace
  <2>1. d.next - start \in Int
    OBVIOUS
  <2>2. QED BY <2>1, WhatIsLeft
<1>2. PICK new : new = SubSeq(data, m + 1, Len(data))
  OBVIOUS
<1>3. Unseen(d, start, data) = new
  BY <1>1, <1>2 DEF Unseen
<1>4. PICK k \in Nat : k = Len(data)
  OBVIOUS
<1>5. new \in Seq(StreamByte)
  <2>1. m + 1 \in Nat \ {0}
    OBVIOUS
  <2>2. QED BY <1>2, <2>1, PartOfSeq
<1>6. Len(new) \in Nat /\ \A i \in 1..Len(new) : m + i \in 1..k /\ new[i] = data[m + i]
  BY <1>2, <1>4
<1>7. \A i \in 1..Len(new) : new[i].at = (d.next + i - 1) % SeqSpace
  <2> TAKE i \in 1..Len(new)
  <2>1. new[i] = data[m + i] /\ m + i \in 1..k
    BY <1>6
  <2>2. new[i].at = (start + (m + i) - 1) % SeqSpace
    BY <1>4, <2>1 DEF Numbered
  <2>3. PICK a, b : a = d.next - start /\ b = start + i - 1
    OBVIOUS
  <2>8. PICK n \in Nat : n = d.next
    OBVIOUS
  <2>9. start \in Nat /\ n \in Nat /\ m \in Nat /\ i \in Int
    OBVIOUS
  <2>4. a \in Int /\ b \in Int /\ a + b = d.next + i - 1 /\ m + b = start + (m + i) - 1
    BY ONLY <2>3, <2>8, <2>9
  <2>5. ((a % SeqSpace) + b) % SeqSpace = (a + b) % SeqSpace
    BY <2>4, SumLeft
  <2>6. m = a % SeqSpace
    BY <1>1, <2>3
  <2>7. QED BY ONLY <2>2, <2>4, <2>5, <2>6
<1>8. start = d.next => new = data
  <2>1. SUFFICES ASSUME start = d.next PROVE new = data
    OBVIOUS
  <2>2. m = 0
    <3>1. d.next - start = 0
      BY <2>1
    <3>2. 0 % SeqSpace = 0
      <4>1. 0 \in Nat /\ 0 < SeqSpace
        BY HalfIs
      <4>2. QED BY <4>1, LeftAsItIs
    <3>3. QED BY <1>1, <3>1, <3>2
  <2>3. new = SubSeq(data, 1, Len(data))
    BY <1>2, <2>2
  <2>4. QED BY <2>3
<1>9. QED BY <1>3, <1>5, <1>7, <1>8 DEF Numbered

\* A segment is delivered from there on.
LEMMA DeliverOrdered ==
    ASSUME NEW x, Addition(x), Placed(x.d), NEW g \in Seq(StreamByte), Order(g, x, Half + 2),
           NEW start \in Nat, NEW data \in Seq(StreamByte), Numbered(data, start),
           NEW y, y = Deliver(x, start, data)
    PROVE  /\ Addition(y) /\ Placed(y.d) /\ y.d.ooo = x.d.ooo /\ y.d.fin = x.d.fin
           /\ y.d.initialized = x.d.initialized
           /\ \A most \in Nat \ {0} : Order(g, x, most) => Order(g, y, most)
           /\ start = x.d.next /\ data # <<>> => Order(g, y, 1)
<1>1. PICK new : new = Unseen(x.d, start, data)
  OBVIOUS
<1>2. x.d.next \in Nat /\ x.d.next < SeqSpace
  BY DEF Addition, DirectionKept, Placed
<1>3. new \in Seq(StreamByte) /\ Numbered(new, x.d.next) /\ (start = x.d.next => new = data)
  BY <1>1, <1>2, UnseenNumbered
<1>4. PICK next : next = (x.d.next + Len(new)) % SeqSpace
  OBVIOUS
<1>5. next < SeqSpace
  <2>1. x.d.next + Len(new) \in Int
    BY <1>2, <1>3
  <2>2. QED BY <1>4, <2>1, WhatIsLeft
<1>6. Addition(y) /\ y.d.ooo = x.d.ooo
  BY DeliverKept
<1>7. y.d = [x.d EXCEPT !.next = next] /\ y.out = x.out \o new
  BY <1>1, <1>4 DEF Deliver, Addition
<1>8. y.d.next = next /\ y.d.fin = x.d.fin /\ y.d.initialized = x.d.initialized
  BY <1>7 DEF Addition, DirectionKept
<1>9. Placed(y.d)
  BY <1>5, <1>6, <1>8 DEF Placed
<1>10. PICK s : s = g \o x.out /\ s \in Seq(StreamByte) /\ g \o y.out = s \o new
  <2>1. PICK out \in Seq(StreamByte) : out = x.out
    BY DEF Addition
  <2>2. (g \o out) \o new = g \o (out \o new)
    BY <1>3, JoinedSequences
  <2>3. g \o out \in Seq(StreamByte)
    OBVIOUS
  <2>4. QED BY <1>7, <2>1, <2>2, <2>3
<1>11. Rising(s) /\ Behind(s, x.d.next, Half + 2)
  BY <1>10 DEF Order
<1>12. /\ Rising(s \o new)
       /\ \A most \in Nat \ {0} :
              (new # <<>> \/ Behind(s, x.d.next, most)) => Behind(s \o new, next, most)
  BY <1>2, <1>3, <1>4, <1>10, <1>11, RisesOn
<1>13. \A most \in Nat \ {0} : Order(g, x, most) => Order(g, y, most)
  BY <1>8, <1>10, <1>12 DEF Order
<1>14. start = x.d.next /\ data # <<>> => Order(g, y, 1)
  BY <1>3, <1>8, <1>10, <1>12 DEF Order
<1>15. QED BY <1>6, <1>8, <1>9, <1>13, <1>14

\* Nothing that is held back is next.
Waits(d) == d.ooo = <<>> \/ ~SeqLeq(Min(DOMAIN d.ooo), d.next)
Skipped(d) == d.ooo # <<>> /\ d.next = Min(DOMAIN d.ooo)
Same(d, e) == d.fin = e.fin /\ d.initialized = e.initialized

\* A segment is buffered.
LEMMA BufferOrdered ==
    ASSUME NEW x, Addition(x), Placed(x.d), NEW g,
           NEW start \in Nat, start < SeqSpace,
           NEW data \in Seq(StreamByte), Numbered(data, start), data # <<>>, NEW now,
           NEW b, b = Buffer(x, start, data, now)
    PROVE  /\ Addition(b) /\ Placed(b.d) /\ Same(b.d, x.d)
           /\ \A most : Order(g, x, most) => Order(g, b, most)
<1>1. PICK left : left = Dropped(x.d.ooo, Swallowed(x.d.ooo, start, End(start, data)))
  OBVIOUS
<1>2. PICK ooo : ooo = Put(left, start, data)
  OBVIOUS
<1>3. PICK y : y = [x EXCEPT !.mem = @ - MapThenSumSet(LAMBDA s : Len(x.d.ooo[s]), Swallowed(x.d.ooo, start, End(start, data))) + Len(data),
                       !.d.ooo = ooo,
                       !.d.since = IF x.d.gap THEN @ ELSE now,
                       !.d.gap = TRUE]
  OBVIOUS
<1>4. PICK z : z = [x EXCEPT !.evicted = TRUE]
  OBVIOUS
<1>5. b \in {x, y, z}
  BY <1>1, <1>2, <1>3, <1>4 DEF Buffer
<1>6. Addition(b)
  BY BufferKept
<1>7. y.out = x.out /\ y.d.next = x.d.next /\ y.d.ooo = ooo /\ Same(y.d, x.d)
  BY <1>3 DEF Addition, DirectionKept, Same
<1>8. z.out = x.out /\ z.d = x.d
  BY <1>4 DEF Addition
<1>9. \A s \in DOMAIN ooo : (s = start /\ ooo[s] = data) \/ (s \in DOMAIN x.d.ooo /\ ooo[s] = x.d.ooo[s])
  BY <1>1, <1>2 DEF Put, Dropped, Restrict
<1>10. Placed(y.d)
  BY <1>7, <1>9 DEF Placed
<1>11. Placed(b.d) /\ Same(b.d, x.d) /\ b.out = x.out /\ b.d.next = x.d.next
  BY <1>5, <1>7, <1>8, <1>10 DEF Same
<1>12. QED BY <1>6, <1>11 DEF Order

\* A gap is skipped, which is half of the numbers at most.
LEMMA SkipGapOrdered ==
    ASSUME NEW x, Addition(x), Placed(x.d), NEW g \in Seq(StreamByte), NEW now,
           NEW most \in 1..2, Order(g, x, most), NEW y, y = SkipGap(x, now)
    PROVE  /\ Addition(y) /\ Placed(y.d) /\ Same(y.d, x.d)
           /\ Order(g, y, Half + 2) /\ (Order(g, y, most) \/ Skipped(y.d))
<1>1. PICK first : first = Min(DOMAIN x.d.ooo)
  OBVIOUS
<1>2. PICK z : z = [x EXCEPT !.d.next = first, !.d.gap = FALSE]
  OBVIOUS
<1>3. Addition(y)
  BY SkipGapKept
<1>4. PICK s : s = g \o x.out /\ s \in Seq(StreamByte)
  <2>1. PICK out \in Seq(StreamByte) : out = x.out
    BY DEF Addition
  <2>2. g \o out \in Seq(StreamByte)
    OBVIOUS
  <2>3. QED BY <2>1, <2>2
<1>5. x.d.next \in Nat /\ Rising(s) /\ Behind(s, x.d.next, most)
  BY <1>4 DEF Order, Addition, DirectionKept
<1>6. CASE y = x
  <2>1. Behind(s, x.d.next, Half + 2)
    BY <1>5, HalfIs DEF Behind
  <2>2. QED BY <1>3, <1>4, <1>5, <1>6, <2>1 DEF Order, Same
<1>7. CASE y = z /\ x.d.ooo # <<>> /\ SeqLt(x.d.next, first)
  <2>1. y.out = x.out /\ y.d.next = first /\ y.d.ooo = x.d.ooo /\ Same(y.d, x.d)
    BY ZenonT(30), <1>2, <1>7 DEF Addition, DirectionKept, Same
  <2>2. first \in DOMAIN x.d.ooo /\ first \in Nat /\ first < SeqSpace
    <3>1. DOMAIN x.d.ooo # {} /\ DOMAIN x.d.ooo \subseteq Nat
      BY <1>7, SomeBuffered
    <3>2. QED BY <1>1, <3>1, FirstOfFinite DEF Placed
  <2>3. Placed(y.d) /\ Skipped(y.d)
    BY <1>1, <1>7, <2>1, <2>2 DEF Placed, Skipped
  <2>4. PICK next \in Nat : next = x.d.next
    BY <1>5
  <2>5. Ahead(first, next) \in 1..Half
    <3>1. first \in Int /\ next \in Int
      BY <2>2
    <3>2. PICK u \in Nat : u = Ahead(next, first) /\ u < SeqSpace
      BY <3>1, BackAgain
    <3>3. u >= Half
      BY <1>7, <2>4, <3>2 DEF SeqLt, Ahead, Half
    <3>4. u # 0
      BY <3>3, HalfIs
    <3>5. Ahead(first, next) = SeqSpace - u
      BY <3>1, <3>2, <3>4, BackAgain
    <3>6. QED BY <3>2, <3>3, <3>5, HalfIs
  <2>6. Behind(s, first, Half + 2)
    <3>1. SUFFICES ASSUME s # <<>> PROVE Ahead(first, s[Len(s)].at) \in 1..(Half + 2)
      BY DEF Behind
    <3>2. PICK last \in Nat : last = s[Len(s)].at
      <4>1. s[Len(s)] \in StreamByte
        BY <1>4, <3>1
      <4>2. QED BY <4>1 DEF StreamByte
    <3>3. Ahead(next, last) \in 1..2
      <4>1. Ahead(next, last) \in 1..most
        BY <1>5, <2>4, <3>1, <3>2 DEF Behind
      <4>2. QED BY <4>1
    <3>4. PICK u \in Nat, v \in Nat : u = Ahead(next, last) /\ v = Ahead(first, next)
                                      /\ 1 <= u /\ u <= 2 /\ 1 <= v /\ v <= Half
      BY <2>5, <3>3, HalfIs
    <3>5. u + v < SeqSpace
      BY <3>4, HalfIs
    <3>6. Ahead(first, last) = u + v
      <4>1. first \in Int /\ next \in Int /\ last \in Int
        BY <2>2
      <4>2. Ahead(next, last) + Ahead(first, next) < SeqSpace
        BY <3>4, <3>5
      <4>3. Ahead(first, last) = Ahead(next, last) + Ahead(first, next)
        BY <4>1, <4>2, DistancesAdd
      <4>4. QED BY <3>4, <4>3
    <3>7. QED BY <3>2, <3>4, <3>6, HalfIs
  <2>7. Order(g, y, Half + 2)
    BY <1>4, <1>5, <2>1, <2>6 DEF Order
  <2>8. QED BY <1>3, <2>1, <2>3, <2>7
<1>8. QED BY <1>1, <1>2, <1>6, <1>7 DEF SkipGap

\* What the rounds of Drain keep.
Drains(g, x) == Addition(x) /\ Placed(x.d) /\ Order(g, x, Half + 2)

\* The first of the buffered segments is delivered, the whole of it after a gap was
\* skipped to it.
LEMMA DrainFirstOrdered ==
    ASSUME NEW x, NEW g \in Seq(StreamByte), Drains(g, x), NEW y, y = DrainFirst(x)
    PROVE  /\ Drains(g, y) /\ Same(y.d, x.d)
           /\ \A most \in Nat \ {0} : Order(g, x, most) => Order(g, y, most)
           /\ Skipped(x.d) => Order(g, y, 1)
           /\ \/ y = x /\ Waits(x.d)
              \/ Cardinality(DOMAIN y.d.ooo) = Cardinality(DOMAIN x.d.ooo) - 1
<1>1. PICK first, seg : first = Min(DOMAIN x.d.ooo) /\ seg = x.d.ooo[first]
  OBVIOUS
<1>2. PICK z : z = Deliver(x, first, seg)
  OBVIOUS
<1>3. PICK w : w = [z EXCEPT !.d.ooo = Dropped(@, {first}), !.mem = @ - Len(seg)]
  OBVIOUS
<1>4. y = IF x.d.ooo = <<>> \/ ~SeqLeq(first, x.d.next) THEN x ELSE w
  BY <1>1, <1>2, <1>3 DEF DrainFirst
<1>5. CASE x.d.ooo = <<>> \/ ~SeqLeq(first, x.d.next)
  <2>1. y = x /\ Waits(x.d)
    BY <1>1, <1>4, <1>5 DEF Waits
  <2>2. ~Skipped(x.d)
    BY <1>1, <1>5 DEF Skipped, SeqLeq
  <2>3. QED BY <2>1, <2>2 DEF Same
<1>6. CASE ~(x.d.ooo = <<>> \/ ~SeqLeq(first, x.d.next))
  <2>1. y = w /\ Addition(y) /\ Addition(x)
    BY <1>4, <1>6, DrainFirstKept DEF Drains
  <2>2. DOMAIN x.d.ooo # {} /\ DOMAIN x.d.ooo \subseteq Nat
    BY <1>6, <2>1, SomeBuffered
  <2>3. first \in DOMAIN x.d.ooo /\ first \in Nat
    BY <1>1, <2>2, FirstOfFinite
  <2>4. seg \in Seq(StreamByte) /\ Numbered(seg, first) /\ seg # <<>>
    BY <1>1, <2>1, <2>3 DEF Drains, Placed, Addition, DirectionKept
  <2>5. /\ Addition(z) /\ Placed(z.d) /\ z.d.ooo = x.d.ooo /\ Same(z.d, x.d)
        /\ \A most \in Nat \ {0} : Order(g, x, most) => Order(g, z, most)
        /\ first = x.d.next => Order(g, z, 1)
    BY <1>2, <2>1, <2>3, <2>4, DeliverOrdered DEF Drains, Same
  <2>6. /\ y.out = z.out /\ y.d.next = z.d.next /\ Same(y.d, x.d)
        /\ y.d.ooo = Dropped(x.d.ooo, {first})
    BY <1>3, <2>1, <2>5 DEF Addition, DirectionKept, Same
  <2>7. DOMAIN y.d.ooo = DOMAIN x.d.ooo \ {first} /\ \A s \in DOMAIN y.d.ooo : y.d.ooo[s] = x.d.ooo[s]
    BY <2>6 DEF Dropped, Restrict
  <2>8. Placed(y.d)
    BY <2>5, <2>6, <2>7 DEF Placed
  <2>9. \A most : Order(g, z, most) => Order(g, y, most)
    BY <2>6 DEF Order
  <2>10. Half + 2 \in Nat \ {0}
    BY HalfIs
  <2>11. Drains(g, y)
    BY <2>1, <2>5, <2>8, <2>9, <2>10 DEF Drains
  <2>12. Cardinality(DOMAIN y.d.ooo) = Cardinality(DOMAIN x.d.ooo) - 1
    <3>1. IsFiniteSet(DOMAIN x.d.ooo)
      BY <2>1 DEF Addition, DirectionKept
    <3>2. QED BY <2>3, <2>7, <3>1, FS_RemoveElement
  <2>13. Skipped(x.d) => Order(g, y, 1)
    BY <1>1, <2>5, <2>9 DEF Skipped
  <2>14. QED BY <2>5, <2>6, <2>9, <2>11, <2>12, <2>13
<1>7. QED BY <1>5, <1>6

\* The rounds of Drain, one after the other: of m rounds of as many segments, nothing
\* is left to do.
LEMMA DrainLoopOrdered ==
    ASSUME NEW m \in Nat, NEW x, NEW g \in Seq(StreamByte), Drains(g, x),
           m = Cardinality(DOMAIN x.d.ooo),
           NEW most \in 1..2, Order(g, x, most) \/ Skipped(x.d),
           NEW y, y = LoopEnd("drain", m, x, 0)
    PROVE  Drains(g, y) /\ Same(y.d, x.d) /\ Order(g, y, most) /\ Waits(y.d)
<1> DEFINE f == CHOOSE h : IsLoop(h, "drain", m, x, 0)
           Done(n) == /\ Drains(g, f[n]) /\ Same(f[n].d, x.d)
                      /\ Order(g, f[n], most) \/ (n = 0 /\ Skipped(x.d))
                      /\ Waits(f[n].d) \/ Cardinality(DOMAIN f[n].d.ooo) <= m - n
           P == {n \in Nat : n <= m => Done(n)}
<1>1. IsLoop(f, "drain", m, x, 0)
  BY LoopExists
<1>2. y = f[m]
  BY DEF LoopEnd
<1> HIDE DEF f
<1>3. \A n \in 0..m : f[n] = IF n = 0 THEN x ELSE DrainFirst(f[n - 1])
  BY <1>1 DEF IsLoop, Step
<1>4. 0 \in P
  <2>1. f[0] = x
    BY <1>3
  <2>2. Same(x.d, x.d)
    BY DEF Same
  <2>3. QED BY <2>1, <2>2
<1>5. ASSUME NEW k \in Nat, k \in P PROVE k + 1 \in P
  <2>1. SUFFICES ASSUME k + 1 <= m PROVE Done(k + 1)
    OBVIOUS
  <2>2. Done(k)
    BY <1>5, <2>1
  <2>3. f[k + 1] = DrainFirst(f[k])
    <3>1. k + 1 \in 0..m /\ k + 1 # 0 /\ (k + 1) - 1 = k
      BY <2>1
    <3>2. QED BY <1>3, <3>1
  <2>4. PICK u, v : u = f[k] /\ v = f[k + 1] /\ v = DrainFirst(u)
    BY <2>3
  <2>5. /\ Drains(g, u) /\ Same(u.d, x.d)
        /\ Order(g, u, most) \/ (k = 0 /\ Skipped(x.d))
        /\ Waits(u.d) \/ Cardinality(DOMAIN u.d.ooo) <= m - k
    BY <2>2, <2>4
  <2>6. /\ Drains(g, v) /\ Same(v.d, u.d)
        /\ \A r \in Nat \ {0} : Order(g, u, r) => Order(g, v, r)
        /\ Skipped(u.d) => Order(g, v, 1)
        /\ \/ v = u /\ Waits(u.d)
           \/ Cardinality(DOMAIN v.d.ooo) = Cardinality(DOMAIN u.d.ooo) - 1
    BY <2>4, <2>5, DrainFirstOrdered
  <2>7. Order(g, v, most)
    <3>1. CASE Order(g, u, most)
      BY <2>6, <3>1
    <3>2. CASE k = 0 /\ Skipped(x.d)
      <4>1. u = x
        BY <1>3, <2>4, <3>2
      <4>2. Order(g, v, 1)
        BY <2>6, <3>2, <4>1
      <4>3. QED BY <4>2 DEF Order, Behind
    <3>3. QED BY <2>5, <3>1, <3>2
  <2>8. Waits(v.d) \/ Cardinality(DOMAIN v.d.ooo) <= m - (k + 1)
    <3>1. CASE v = u /\ Waits(u.d)
      BY <3>1
    <3>2. CASE Cardinality(DOMAIN v.d.ooo) = Cardinality(DOMAIN u.d.ooo) - 1 /\ ~Waits(u.d)
      <4>1. PICK c \in Nat : c = Cardinality(DOMAIN u.d.ooo)
        BY <2>5, FS_CardinalityType DEF Drains, Addition, DirectionKept
      <4>2. c <= m - k /\ Cardinality(DOMAIN v.d.ooo) = c - 1
        BY <2>5, <3>2, <4>1
      <4>3. QED BY <4>2
    <3>3. CASE Waits(u.d)
      <4>1. v = u
        BY <2>4, <3>3 DEF Waits, DrainFirst
      <4>2. QED BY <3>3, <4>1
    <3>4. QED BY <2>6, <3>1, <3>2, <3>3
  <2>9. Same(v.d, x.d)
    BY <2>5, <2>6 DEF Same
  <2>10. QED BY <2>4, <2>6, <2>7, <2>8, <2>9
<1> HIDE DEF P
<1>6. m \in P
  BY <1>4, <1>5, NumberInduction DEF P
<1>7. Done(m)
  BY <1>6 DEF P
<1> HIDE DEF Done
<1>8. /\ Drains(g, y) /\ Same(y.d, x.d)
      /\ Order(g, y, most) \/ (m = 0 /\ Skipped(x.d))
      /\ Waits(y.d) \/ Cardinality(DOMAIN y.d.ooo) <= 0
  BY <1>2, <1>7 DEF Done
<1>9. Order(g, y, most)
  <2>1. SUFFICES ASSUME m = 0, Skipped(x.d) PROVE FALSE
    BY <1>8
  <2>2. DOMAIN x.d.ooo # {} /\ IsFiniteSet(DOMAIN x.d.ooo)
    BY <2>1, SomeBuffered DEF Skipped, Drains, Addition, DirectionKept
  <2>3. QED BY <2>1, <2>2, FS_EmptySet
<1>10. Waits(y.d)
  <2>1. SUFFICES ASSUME Cardinality(DOMAIN y.d.ooo) <= 0, y.d.ooo # <<>> PROVE FALSE
    BY <1>8 DEF Waits
  <2>2. DOMAIN y.d.ooo # {} /\ IsFiniteSet(DOMAIN y.d.ooo)
    BY <1>8, <2>1, SomeBuffered DEF Drains, Addition, DirectionKept
  <2>3. Cardinality(DOMAIN y.d.ooo) \in Nat
    BY <2>2, FS_CardinalityType
  <2>4. Cardinality(DOMAIN y.d.ooo) = 0
    BY <2>1, <2>3
  <2>5. QED BY <2>2, <2>4, FS_EmptySet
<1>11. QED BY <1>8, <1>9, <1>10

\* Drain leaves nothing that is next.
LEMMA DrainOrdered ==
    ASSUME NEW x, NEW g \in Seq(StreamByte), Drains(g, x), NEW most \in 1..2,
           Order(g, x, most) \/ Skipped(x.d), NEW y, y = Drain(x)
    PROVE  Drains(g, y) /\ Same(y.d, x.d) /\ Order(g, y, most) /\ Waits(y.d)
<1>1. PICK m \in Nat : m = Cardinality(DOMAIN x.d.ooo)
  BY FS_CardinalityType DEF Drains, Addition, DirectionKept
<1>2. PICK u : u = LoopEnd("drain", m, x, 0)
  OBVIOUS
<1>3. Drains(g, u) /\ Same(u.d, x.d) /\ Order(g, u, most) /\ Waits(u.d)
  BY <1>1, <1>2, DrainLoopOrdered
<1>4. Repeated(DrainFirst, m, x) = u
  BY <1>2 DEF Repeated, LoopEnd, IsLoop, Step
<1>5. PICK z : z = [u EXCEPT !.d.gap = FALSE]
  OBVIOUS
<1>6. Drain(x) \in {u, z}
  BY <1>1, <1>4, <1>5 DEF Drain
<1>7. Addition(u)
  BY <1>3 DEF Drains
<1>8. DOMAIN z = {"d", "mem", "out", "evicted"} /\ z.out = u.out
  BY <1>5, <1>7 DEF Addition
<1>9. DOMAIN z.d = DOMAIN u.d /\ z.d.next = u.d.next /\ z.d.ooo = u.d.ooo /\ Same(z.d, u.d)
  BY <1>5, <1>7 DEF Addition, DirectionKept, Same
<1>10. Addition(z) /\ Placed(z.d) /\ \A r : Order(g, u, r) => Order(g, z, r)
  BY <1>3, <1>7, <1>8, <1>9 DEF Drains, Addition, DirectionKept, Placed, Order
<1>11. Waits(z.d) /\ Same(z.d, x.d)
  BY <1>3, <1>9 DEF Waits, Same
<1>12. QED BY <1>3, <1>6, <1>10, <1>11 DEF Drains

\* The data of a segment is delivered or buffered, and what has become next with it.
LEMMA AddDataOrdered ==
    ASSUME NEW x, Addition(x), Placed(x.d), NEW g \in Seq(StreamByte),
           NEW most \in 1..2, Order(g, x, most),
           NEW start \in Nat, start < SeqSpace,
           NEW data \in Seq(StreamByte), Numbered(data, start), NEW now,
           NEW y, y = AddData(x, start, data, now)
    PROVE  /\ Addition(y) /\ Placed(y.d) /\ Same(y.d, x.d) /\ Order(g, y, most)
           /\ Waits(y.d) \/ y = x
<1>1. CASE data = <<>>
  <2>1. y = x
    BY <1>1 DEF AddData
  <2>2. QED BY <2>1 DEF Same
<1>2. CASE data # <<>>
  <2>1. PICK u : u = IF SeqLeq(start, x.d.next) \/ SeqLeq(End(start, data), x.d.next)
                     THEN Deliver(x, start, data) ELSE Buffer(x, start, data, now)
    OBVIOUS
  <2>2. Order(g, x, Half + 2)
    BY HalfIs DEF Order, Behind
  <2>3. Addition(u) /\ Placed(u.d) /\ Same(u.d, x.d) /\ Order(g, u, most)
    <3>1. CASE u = Deliver(x, start, data)
      BY <2>2, <3>1, DeliverOrdered DEF Same
    <3>2. CASE u = Buffer(x, start, data, now)
      BY <1>2, <3>2, BufferOrdered
    <3>3. QED BY <2>1, <3>1, <3>2
  <2>4. PICK v : v = SkipGap(u, now)
    OBVIOUS
  <2>5. /\ Addition(v) /\ Placed(v.d) /\ Same(v.d, u.d)
        /\ Order(g, v, Half + 2) /\ (Order(g, v, most) \/ Skipped(v.d))
    BY <2>3, <2>4, SkipGapOrdered
  <2>6. y = Drain(v)
    BY <1>2, <2>1, <2>4 DEF AddData
  <2>7. Drains(g, y) /\ Same(y.d, v.d) /\ Order(g, y, most) /\ Waits(y.d)
    BY <2>5, <2>6, DrainOrdered DEF Drains
  <2>8. Same(y.d, x.d)
    BY <2>3, <2>5, <2>7 DEF Same
  <2>9. QED BY <2>7, <2>8 DEF Drains
<1>3. QED BY <1>1, <1>2

\* What is held back is not next, but for the wrap of the numbers and a FIN.
NothingNext(d) == ~Wraps(d) => \A s \in DOMAIN d.ooo : SeqLt(d.next, s) \/ (d.fin /\ s = d.next)

\* A number not far behind another is before it.
LEMMA JustBefore ==
    ASSUME NEW a \in Nat, NEW b \in Nat, a < b, b < SeqSpace
    PROVE  SeqLt(a, b) <=> b - a <= Half
<1>1. PICK c \in Nat : c = b - a /\ c # 0 /\ c < SeqSpace
  BY HalfIs
<1>2. Ahead(b, a) = c
  BY <1>1, LeftAsItIs DEF Ahead
<1>3. Ahead(a, b) = SeqSpace - c
  BY <1>1, <1>2, BackAgain
<1>4. SeqLt(a, b) <=> SeqSpace - c >= Half
  BY <1>3 DEF SeqLt, Ahead, Half
<1>5. QED BY <1>1, <1>4, HalfIs

\* The first of what is held back.
LEMMA FirstHeld ==
    ASSUME NEW d, DirectionKept(d), Placed(d), NEW s \in DOMAIN d.ooo
    PROVE  /\ s \in Nat /\ s < SeqSpace /\ d.next \in Nat /\ d.next < SeqSpace
           /\ \E first \in DOMAIN d.ooo : first = Min(DOMAIN d.ooo) /\ first \in Nat /\ first <= s
           /\ d.ooo # <<>>
<1>1. PICK S : S = DOMAIN d.ooo /\ S \subseteq Nat /\ S # {}
  BY DEF DirectionKept
<1>2. PICK first \in S : \A t \in S : first <= t
  BY <1>1, LeastNumber
<1>3. Min(S) = first
  BY <1>1, <1>2, LeastIs
<1>4. d.ooo # <<>>
  OBVIOUS
<1>5. QED BY <1>1, <1>2, <1>3, <1>4 DEF DirectionKept, Placed

LEMMA WaitingIsNotNext ==
    ASSUME NEW d, DirectionKept(d), Placed(d), Waits(d)
    PROVE  NothingNext(d)
<1>1. SUFFICES ASSUME ~Wraps(d), NEW s \in DOMAIN d.ooo PROVE SeqLt(d.next, s)
  BY DEF NothingNext
<1>2. PICK next \in Nat, first \in DOMAIN d.ooo :
        /\ next = d.next /\ first = Min(DOMAIN d.ooo) /\ first \in Nat /\ first <= s
        /\ s \in Nat /\ d.ooo # <<>>
  BY FirstHeld
<1>3. first # next /\ ~SeqLt(first, next)
  BY <1>2 DEF Waits, SeqLeq
<1>4. \A a, b \in DOMAIN d.ooo \cup {next} : a < b => SeqLt(a, b)
  BY <1>1, <1>2 DEF Wraps
<1>5. ~(first < next)
  BY <1>3, <1>4
<1>6. next < s
  BY <1>2, <1>3, <1>5
<1>7. QED BY <1>2, <1>4, <1>6

\* A FIN may make the first of it next.
LEMMA FinIsNext ==
    ASSUME NEW d, DirectionKept(d), Placed(d), Waits(d), NEW p, NEW e, e = Finished(d, p)
    PROVE  NothingNext(e)
<1>1. CASE e = d
  BY <1>1, WaitingIsNotNext
<1>2. CASE e # d
  <2>1. e = [d EXCEPT !.fin = TRUE, !.next = (d.next + 1) % SeqSpace]
    BY <1>2 DEF Finished
  <2>2. e.fin /\ e.ooo = d.ooo /\ e.next = (d.next + 1) % SeqSpace
    BY <2>1 DEF DirectionKept
  <2>3. SUFFICES ASSUME ~Wraps(e), NEW s \in DOMAIN e.ooo, s # e.next PROVE SeqLt(e.next, s)
    BY <2>2 DEF NothingNext
  <2>4. PICK next \in Nat, first \in DOMAIN d.ooo :
          /\ next = d.next /\ first = Min(DOMAIN d.ooo) /\ first \in Nat /\ first <= s
          /\ s \in Nat /\ d.ooo # <<>> /\ next < SeqSpace
    BY <2>2, FirstHeld
  <2>5. first # next /\ ~SeqLt(first, next)
    BY <2>4 DEF Waits, SeqLeq
  <2>6. \A a, b \in DOMAIN d.ooo \cup {e.next} : a < b => SeqLt(a, b)
    BY <2>2, <2>3 DEF Wraps
  <2>7. PICK after \in Nat : after = e.next /\ (after = next + 1 \/ after = 0)
    <3>1. CASE next + 1 < SeqSpace
      BY <2>2, <2>4, <3>1, LeftAsItIs
    <3>2. CASE ~(next + 1 < SeqSpace)
      <4>1. next + 1 = SeqSpace /\ SeqSpace \in Nat \ {0}
        BY <2>4, <3>2, HalfIs
      <4>2. SeqSpace % SeqSpace = 0
        BY <4>1
      <4>3. QED BY <2>2, <2>4, <4>1, <4>2
    <3>3. QED BY <3>1, <3>2
  <2>8. ~(s < after)
    <3>1. SUFFICES ASSUME s < after PROVE FALSE
      OBVIOUS
    <3>2. after = next + 1 /\ first < next
      BY <2>4, <2>5, <2>7, <3>1
    <3>3. SeqLt(first, after) /\ after < SeqSpace
      <4>1. SeqLt(first, after)
        BY <2>4, <2>6, <2>7, <3>2
      <4>2. d.next + 1 \in Int
        BY <2>4
      <4>3. QED BY <2>2, <2>7, <4>1, <4>2, WhatIsLeft
    <3>4. after - first <= Half
      BY <2>4, <3>2, <3>3, JustBefore
    <3>5. next - first <= Half
      BY <2>4, <3>2, <3>4, HalfIs
    <3>6. SeqLt(first, next)
      BY <2>4, <3>2, <3>5, JustBefore
    <3>7. QED BY <2>5, <3>6
  <2>9. after < s
    BY <2>3, <2>4, <2>7, <2>8
  <2>10. QED BY <2>2, <2>6, <2>7, <2>9
<1>3. QED BY <1>1, <1>2

\* A direction of a flow, and what was delivered of it.
InOrder(d, g) ==
    /\ Placed(d) /\ NothingNext(d) /\ (d.fin \/ Waits(d))
    /\ Behind(g, d.next, IF d.fin THEN 2 ELSE 1)
    /\ ~d.initialized => g = <<>> /\ d.ooo = <<>>

\* Where a direction begins.
LEMMA InitializedOrdered ==
    ASSUME NEW d, DirectionKept(d), NEW g, InOrder(d, g), NEW p, IsPacket(p),
           NEW e, e = Initialized(d, p)
    PROVE  DirectionKept(e) /\ InOrder(e, g) /\ e.initialized /\ e.fin = d.fin
<1>1. DirectionKept(e)
  BY InitializedKept
<1>2. CASE d.initialized
  BY <1>1, <1>2 DEF Initialized
<1>3. CASE ~d.initialized
  <2>1. PICK a : a = p.seq + (IF "SYN" \in p.flags THEN 1 ELSE 0)
    OBVIOUS
  <2>2. e = [d EXCEPT !.initialized = TRUE, !.next = a % SeqSpace]
    BY <1>3, <2>1 DEF Initialized
  <2>3. e.initialized /\ e.fin = d.fin /\ e.next = a % SeqSpace /\ e.ooo = d.ooo
    BY <2>2 DEF DirectionKept
  <2>4. g = <<>> /\ e.ooo = <<>>
    BY <1>3, <2>3 DEF InOrder
  <2>5. e.next < SeqSpace
    <3>1. a \in Int
      BY <2>1, SeqOfPacket
    <3>2. QED BY <2>3, <3>1, WhatIsLeft
  <2>6. DOMAIN e.ooo = {}
    BY <2>4
  <2>7. Placed(e) /\ Waits(e) /\ NothingNext(e)
    BY <2>4, <2>5, <2>6 DEF Placed, Waits, NothingNext
  <2>8. QED BY <1>1, <2>3, <2>4, <2>7 DEF InOrder, Behind
<1>4. QED BY <1>2, <1>3

\* Where it ends.
LEMMA FinishedOrdered ==
    ASSUME NEW d, DirectionKept(d), NEW g \in Seq(StreamByte), InOrder(d, g), d.initialized,
           NEW p, NEW e, e = Finished(d, p)
    PROVE  DirectionKept(e) /\ InOrder(e, g)
<1>1. DirectionKept(e)
  BY FinishedKept
<1>2. CASE e = d
  BY <1>1, <1>2
<1>3. CASE e # d
  <2>1. ~d.fin /\ e = [d EXCEPT !.fin = TRUE, !.next = (d.next + 1) % SeqSpace]
    BY <1>3 DEF Finished
  <2>2. /\ e.fin /\ e.ooo = d.ooo /\ e.next = (d.next + 1) % SeqSpace
        /\ e.initialized = d.initialized
    BY <2>1 DEF DirectionKept
  <2>3. Waits(d) /\ Placed(d) /\ Behind(g, d.next, 1)
    <3>1. PICK most : most = (IF d.fin THEN 2 ELSE 1) /\ most = 1
      BY <2>1
    <3>2. Behind(g, d.next, most)
      BY <3>1 DEF InOrder
    <3>3. QED BY <2>1, <3>1, <3>2 DEF InOrder
  <2>4. NothingNext(e)
    BY <2>3, FinIsNext
  <2>5. d.next \in Int /\ d.next + 1 \in Int /\ (d.next + 1) % SeqSpace \in Int
    <3>1. PICK a \in Int : a = d.next + 1
      BY DEF DirectionKept
    <3>2. a % SeqSpace \in Nat
      BY WhatIsLeft
    <3>3. QED BY <3>1, <3>2 DEF DirectionKept
  <2>6. Placed(e)
    BY <2>2, <2>3, <2>5, WhatIsLeft DEF Placed
  <2>7. Behind(g, e.next, 2)
    <3>1. SUFFICES ASSUME g # <<>> PROVE Ahead(e.next, g[Len(g)].at) \in 1..2
      BY DEF Behind
    <3>2. PICK last \in Nat : last = g[Len(g)].at
      <4>1. g[Len(g)] \in StreamByte
        BY <3>1
      <4>2. QED BY <4>1 DEF StreamByte
    <3>3. PICK a \in Int, b \in Int : a = d.next /\ b = e.next
      BY <2>2, <2>5
    <3>4. Ahead(a, last) = 1
      <4>1. Ahead(a, last) \in 1..1
        BY <2>3, <3>1, <3>2, <3>3 DEF Behind
      <4>2. QED BY <4>1
    <3>5. Ahead(b, a) = 1
      BY <2>2, <3>3, OneAhead
    <3>6. Ahead(a, last) + Ahead(b, a) < SeqSpace
      BY <3>4, <3>5, HalfIs
    <3>7. Ahead(b, last) = 2
      BY <3>4, <3>5, <3>6, DistancesAdd
    <3>8. QED BY <3>2, <3>3, <3>7
  <2>8. QED BY <1>1, <2>2, <2>4, <2>6, <2>7 DEF InOrder
<1>4. QED BY <1>2, <1>3

\* What a segment does to a direction.
LEMMA DirectionTakes ==
    ASSUME NEW d, DirectionKept(d), NEW g \in Seq(StreamByte), Rising(g), InOrder(d, g),
           NEW p, IsPacket(p), NEW bytes,
           bytes = [i \in DOMAIN p.data |-> [at |-> (p.seq + i - 1) % SeqSpace, byte |-> p.data[i]]],
           NEW mem, NEW evicted, NEW now,
           NEW x, x = [d |-> Initialized(d, p), mem |-> mem, out |-> <<>>, evicted |-> evicted],
           NEW y, y = AddData(x, p.seq, bytes, now)
    PROVE  /\ y.out \in Seq(StreamByte) /\ Rising(g \o y.out)
           /\ InOrder(Finished(y.d, p), g \o y.out)
<1>1. PICK i : i = Initialized(d, p)
  OBVIOUS
<1>2. DirectionKept(i) /\ InOrder(i, g) /\ i.initialized
  BY <1>1, InitializedOrdered
<1>3. DOMAIN x = {"d", "mem", "out", "evicted"} /\ x.d = i /\ x.out = <<>>
  BY <1>1
<1>4. Addition(x) /\ Placed(x.d)
  BY <1>2, <1>3 DEF Addition, InOrder
<1>5. PICK most \in 1..2 : most = IF i.fin THEN 2 ELSE 1
  OBVIOUS
<1>6. Order(g, x, most)
  <2>1. g \o <<>> = g
    OBVIOUS
  <2>2. QED BY <1>2, <1>3, <1>5, <2>1 DEF Order, InOrder
<1>7. bytes \in Seq(StreamByte) /\ Numbered(bytes, p.seq)
  <2>1. bytes \in Seq(StreamByte)
    BY SegmentBytes
  <2>2. Len(bytes) \in Nat /\ DOMAIN bytes = 1..Len(bytes)
    BY <2>1
  <2>3. \A j \in 1..Len(bytes) : bytes[j].at = (p.seq + j - 1) % SeqSpace
    BY <2>2
  <2>4. QED BY <2>1, <2>3 DEF Numbered
<1>8. p.seq \in Nat /\ p.seq < SeqSpace
  BY SeqOfPacket
<1>9. /\ Addition(y) /\ Placed(y.d) /\ Same(y.d, i) /\ Order(g, y, most)
      /\ Waits(y.d) \/ y = x
  BY <1>3, <1>4, <1>6, <1>7, <1>8, AddDataOrdered
<1>10. PICK out \in Seq(StreamByte) : out = y.out
  BY <1>9 DEF Addition
<1>11. g \o out \in Seq(StreamByte)
  BY <1>10
<1>12. Rising(g \o out) /\ Behind(g \o out, y.d.next, IF y.d.fin THEN 2 ELSE 1)
  BY <1>5, <1>9, <1>10 DEF Order, Same
<1>13. DirectionKept(y.d) /\ y.d.initialized /\ y.d.fin = i.fin
  BY <1>2, <1>9 DEF Addition, Same
<1>14. NothingNext(y.d) /\ (y.d.fin \/ Waits(y.d))
  <2>1. CASE Waits(y.d)
    BY <1>9, <1>13, <2>1, WaitingIsNotNext
  <2>2. CASE y = x
    BY <1>2, <1>3, <2>2 DEF InOrder
  <2>3. QED BY <1>9, <2>1, <2>2
<1>15. InOrder(y.d, g \o out)
  BY <1>9, <1>12, <1>13, <1>14 DEF InOrder
<1>16. InOrder(Finished(y.d, p), g \o out)
  BY <1>11, <1>13, <1>15, FinishedOrdered
<1>17. QED BY <1>10, <1>12, <1>16

\* A sequence over more, and one of which an element is replaced.
LEMMA WiderSeq ==
    ASSUME NEW s, IsSeq(s), NEW e
    PROVE  \E T : s \in Seq(T) /\ e \in T
<1>1. PICK T : T = ToSet(s) \cup {e}
  OBVIOUS
<1>2. \A U : U \subseteq T => Seq(U) \subseteq Seq(T)
  OBVIOUS
<1>3. QED BY <1>1, <1>2 DEF IsSeq

LEMMA SeqReplaced ==
    ASSUME NEW s, IsSeq(s), NEW i \in DOMAIN s, NEW e
    PROVE  IsSeq([s EXCEPT ![i] = e])
<1>1. PICK T : s \in Seq(T) /\ e \in T
  BY WiderSeq
<1>2. [s EXCEPT ![i] = e] \in Seq(T)
  BY <1>1
<1>3. QED BY <1>2, AnySeq

\* What was delivered of the flows that were opened; the streams of those that are
\* there, each of which has a number of its own.
Risen(got) == got \in [0..1 -> Seq(StreamByte)] /\ \A i \in 0..1 : Rising(got[i])
LivesKept(ls) == IsSeq(ls) /\ \A n \in DOMAIN ls : "got" \in DOMAIN ls[n] /\ Risen(ls[n].got)
FlowInOrder(flow, ls) ==
    flow.life \in DOMAIN ls /\ \A i \in 0..1 : InOrder(flow.dir[i], ls[flow.life].got[i])
StreamsKept(t, ls) ==
    /\ LivesKept(ls)
    /\ \A k \in DOMAIN t.flows : FlowInOrder(t.flows[k], ls)
    /\ \A k, l \in DOMAIN t.flows : t.flows[k].life = t.flows[l].life => k = l

\* Flows are taken out.
LEMMA StreamsLeft ==
    ASSUME NEW t, NEW ls, StreamsKept(t, ls), NEW gone, NEW u, u.flows = Dropped(t.flows, gone)
    PROVE  StreamsKept(u, ls)
<1>1. DOMAIN u.flows \subseteq DOMAIN t.flows /\ \A k \in DOMAIN u.flows : u.flows[k] = t.flows[k]
  BY DEF Dropped, Restrict
<1>2. QED BY <1>1 DEF StreamsKept

LEMMA StreamsOthers ==
    ASSUME NEW t, NEW ls, StreamsKept(t, ls), NEW key, NEW now
    PROVE  /\ StreamsKept(EraseFlow(t, key), ls) /\ StreamsKept(FlowRoom(t, key), ls)
           /\ StreamsKept(ExpireFlows(t, now), ls)
<1>1. ASSUME NEW k PROVE StreamsKept(EraseFlow(t, k), ls)
  <2>1. EraseFlow(t, k).flows = Dropped(t.flows, {k})
    BY DEF EraseFlow
  <2>2. QED BY <2>1, StreamsLeft
<1>2. StreamsKept(FlowRoom(t, key), ls)
  BY <1>1 DEF FlowRoom
<1>3. StreamsKept(ExpireFlows(t, now), ls)
  <2>1. PICK idle : ExpireFlows(t, now).flows = Dropped(t.flows, idle)
    BY DEF ExpireFlows
  <2>2. QED BY <2>1, StreamsLeft
<1>4. QED BY <1>1, <1>2, <1>3

\* A stream that has nothing yet.
LEMMA NewStream == Risen([i \in 0..1 |-> <<>>]) /\ InOrder(NewDirection, <<>>)
<1>1. <<>> \in Seq(StreamByte) /\ Rising(<<>>)
  BY DEF Rising
<1>2. PICK d : d = NewDirection
  OBVIOUS
<1>3. d.next = 0 /\ d.ooo = <<>> /\ d.initialized = FALSE /\ d.fin = FALSE
  BY <1>2 DEF NewDirection
<1>4. DOMAIN d.ooo = {}
  BY <1>3
<1>5. InOrder(d, <<>>)
  BY <1>3, <1>4, HalfIs DEF InOrder, Placed, NothingNext, Waits, Behind
<1>6. QED BY <1>1, <1>2, <1>5 DEF Risen

\* The flows that were opened, when one more may have been.
AllLives(ls, life, fresh) == IF life > Len(ls) THEN Append(ls, fresh) ELSE ls

\* The flow of a segment is opened, or is there.
LEMMA TouchOrdered ==
    ASSUME NEW t, FlowsKept(t), NEW ls, StreamsKept(t, ls), NEW key, NEW now,
           NEW u, u = TouchFlow(t, key, now, Len(ls) + 1),
           NEW fresh, "got" \in DOMAIN fresh, fresh.got = [i \in 0..1 |-> <<>>],
           NEW all, all = AllLives(ls, u.flows[key].life, fresh)
    PROVE  StreamsKept(u, all)
<1>1. PICK flow : flow = At(t.flows, key, NewFlow(Len(ls) + 1))
  OBVIOUS
<1>2. FlowKept(flow)
  BY <1>1, NewFlowKept DEF At, FlowsKept
<1>3. PICK seen : seen = [flow EXCEPT !.seen = now]
  OBVIOUS
<1>4. seen.life = flow.life /\ seen.dir = flow.dir
  BY <1>2, <1>3 DEF FlowKept
<1>5. u.flows = Put(t.flows, key, seen)
  BY <1>1, <1>3 DEF TouchFlow, FlowsKept
<1>6. /\ DOMAIN u.flows = DOMAIN t.flows \cup {key} /\ u.flows[key] = seen
      /\ \A k \in DOMAIN t.flows : k # key => u.flows[k] = t.flows[k]
  BY <1>5 DEF Put
<1>7. PICK n \in Nat : n = Len(ls) /\ DOMAIN ls = 1..n /\ LivesKept(ls)
  BY DEF StreamsKept, LivesKept, IsSeq
<1>8. CASE key \in DOMAIN t.flows
  <2>1. flow = t.flows[key]
    BY <1>1, <1>8 DEF At
  <2>2. flow.life \in 1..n
    BY <1>7, <1>8, <2>1 DEF StreamsKept, FlowInOrder
  <2>3. all = ls
    BY <1>4, <1>6, <1>7, <2>2 DEF AllLives
  <2>4. \A k \in DOMAIN u.flows : u.flows[k].life = t.flows[k].life /\ u.flows[k].dir = t.flows[k].dir
    BY <1>4, <1>6, <2>1
  <2>5. DOMAIN u.flows = DOMAIN t.flows
    BY <1>6, <1>8
  <2>6. \A k \in DOMAIN u.flows : FlowInOrder(u.flows[k], all)
    BY <2>3, <2>4, <2>5 DEF StreamsKept, FlowInOrder
  <2>7. \A k, l \in DOMAIN u.flows : u.flows[k].life = u.flows[l].life => k = l
    BY <2>4, <2>5 DEF StreamsKept
  <2>8. QED BY <1>7, <2>3, <2>6, <2>7 DEF StreamsKept
<1>9. CASE key \notin DOMAIN t.flows
  <2>1. flow = NewFlow(n + 1)
    BY <1>1, <1>7, <1>9 DEF At
  <2>2. flow.life = n + 1 /\ \A i \in 0..1 : flow.dir[i] = NewDirection
    BY <2>1 DEF NewFlow
  <2>3. all = Append(ls, fresh)
    BY <1>4, <1>6, <1>7, <2>2 DEF AllLives
  <2>4. IsSeq(all) /\ DOMAIN all = 1..(n + 1) /\ all[n + 1] = fresh /\ \A j \in 1..n : all[j] = ls[j]
    <3>1. IsSeq(ls)
      BY <1>7 DEF LivesKept
    <3>2. IsSeq(all)
      BY <2>3, <3>1, SeqExtended
    <3>3. PICK T : ls \in Seq(T) /\ fresh \in T
      BY <3>1, WiderSeq
    <3>4. QED BY <1>7, <2>3, <3>2, <3>3
  <2>5. LivesKept(all)
    BY <1>7, <2>4, NewStream DEF LivesKept
  <2>6. FlowInOrder(u.flows[key], all)
    <3>1. all[n + 1].got[0] = <<>> /\ all[n + 1].got[1] = <<>>
      BY <2>4
    <3>2. n + 1 \in DOMAIN all /\ u.flows[key].life = n + 1
      BY <1>4, <1>6, <2>2, <2>4
    <3>3. \A i \in 0..1 : u.flows[key].dir[i] = NewDirection /\ all[n + 1].got[i] = <<>>
      BY <1>4, <1>6, <2>2, <3>1
    <3>4. QED BY <3>2, <3>3, NewStream DEF FlowInOrder
  <2>7. ASSUME NEW k \in DOMAIN t.flows
        PROVE  FlowInOrder(u.flows[k], all) /\ u.flows[k].life # u.flows[key].life
               /\ u.flows[k] = t.flows[k]
    <3>1. u.flows[k] = t.flows[k]
      BY <1>6, <1>9
    <3>2. FlowInOrder(t.flows[k], ls)
      BY DEF StreamsKept
    <3>3. t.flows[k].life \in 1..n
      BY <1>7, <3>2 DEF FlowInOrder
    <3>4. u.flows[key].life = n + 1
      BY <1>4, <1>6, <2>2
    <3>5. t.flows[k].life \in DOMAIN all /\ all[t.flows[k].life] = ls[t.flows[k].life]
      BY <2>4, <3>3
    <3>6. FlowInOrder(t.flows[k], all)
      BY <3>2, <3>5 DEF FlowInOrder
    <3>7. t.flows[k].life # n + 1
      BY <3>3
    <3>8. QED BY <3>1, <3>4, <3>6, <3>7
  <2>8. \A k, l \in DOMAIN u.flows : u.flows[k].life = u.flows[l].life => k = l
    BY <1>6, <2>7 DEF StreamsKept
  <2>9. QED BY <1>6, <2>5, <2>6, <2>7, <2>8 DEF StreamsKept
<1>10. QED BY <1>8, <1>9

\* A direction of a flow takes what was delivered.
WithMore(ls, life, dir, data) == [ls EXCEPT ![life].got[dir] = @ \o data]
Replaced(t, u, key, dir, d) ==
    /\ DOMAIN u.flows = DOMAIN t.flows
    /\ \A k \in DOMAIN t.flows : k # key => u.flows[k] = t.flows[k]
    /\ u.flows[key].life = t.flows[key].life
    /\ \A i \in 0..1 : u.flows[key].dir[i] = IF i = dir THEN d ELSE t.flows[key].dir[i]

LEMMA StreamGrows ==
    ASSUME NEW t, NEW ls, StreamsKept(t, ls), NEW key \in DOMAIN t.flows, NEW dir \in 0..1,
           NEW life, life = t.flows[key].life, NEW data \in Seq(StreamByte), NEW d,
           NEW g, g = ls[life].got[dir], Rising(g \o data), InOrder(d, g \o data),
           NEW u, Replaced(t, u, key, dir, d), NEW ls1, ls1 = WithMore(ls, life, dir, data)
    PROVE  StreamsKept(u, ls1)
<1>1. PICK got : got = ls[life].got
  OBVIOUS
<1>2. life \in DOMAIN ls /\ \A k \in DOMAIN t.flows : FlowInOrder(t.flows[k], ls)
  BY DEF StreamsKept, FlowInOrder
<1>3. Risen(got) /\ "got" \in DOMAIN ls[life]
  BY <1>1, <1>2 DEF StreamsKept, LivesKept
<1>4. PICK more : more = [got EXCEPT ![dir] = got[dir] \o data]
  OBVIOUS
<1>5. PICK entry : entry = [ls[life] EXCEPT !.got = more]
  OBVIOUS
<1>6. ls1 = [ls EXCEPT ![life] = entry]
  BY <1>1, <1>4, <1>5 DEF WithMore
<1>7. got[dir] \o data \in Seq(StreamByte)
  <2>1. PICK old : old = got[dir] /\ old \in Seq(StreamByte)
    BY <1>3 DEF Risen
  <2>2. old \in Seq(StreamByte) /\ data \in Seq(StreamByte)
    BY <2>1
  <2>3. old \o data \in Seq(StreamByte)
    BY ONLY <2>2
  <2>4. QED BY <2>1, <2>3
<1>8. Risen(more) /\ more[dir] = g \o data /\ \A i \in 0..1 : i # dir => more[i] = got[i]
  <2>1. got[dir] \o data = g \o data
    BY <1>1
  <2>2. more[dir] = got[dir] \o data /\ \A i \in 0..1 : i # dir => more[i] = got[i]
    BY <1>3, <1>4 DEF Risen
  <2>3. Rising(more[dir])
    BY <2>1, <2>2
  <2>4. more \in [0..1 -> Seq(StreamByte)]
    BY <1>3, <1>4, <1>7 DEF Risen
  <2>5. \A i \in 0..1 : Rising(more[i])
    BY <1>3, <2>2, <2>3 DEF Risen
  <2>6. QED BY <2>1, <2>2, <2>4, <2>5 DEF Risen
<1>9. entry.got = more /\ DOMAIN entry = DOMAIN ls[life]
  BY <1>3, <1>5
<1>10. /\ DOMAIN ls1 = DOMAIN ls /\ ls1[life] = entry
       /\ \A n \in DOMAIN ls : n # life => ls1[n] = ls[n]
  BY <1>2, <1>6
<1>11. IsSeq(ls1)
  <2>1. IsSeq(ls) /\ life \in DOMAIN ls
    BY <1>2 DEF StreamsKept, LivesKept
  <2>2. IsSeq([ls EXCEPT ![life] = entry])
    BY ONLY <2>1, SeqReplaced
  <2>3. QED BY ONLY <1>6, <2>2
<1>12. LivesKept(ls1)
  BY <1>3, <1>8, <1>9, <1>10, <1>11 DEF LivesKept, StreamsKept
<1>13. FlowInOrder(u.flows[key], ls1)
  <2>1. \A i \in 0..1 : InOrder(t.flows[key].dir[i], got[i])
    BY <1>1, <1>2 DEF FlowInOrder
  <2>2. ASSUME NEW i \in 0..1 PROVE InOrder(u.flows[key].dir[i], more[i])
    <3>1. CASE i = dir
      <4>1. u.flows[key].dir[i] = d /\ more[i] = g \o data
        BY <1>8, <3>1 DEF Replaced
      <4>2. QED BY <4>1
    <3>2. CASE i # dir
      BY <1>8, <2>1, <3>2 DEF Replaced
    <3>3. QED BY <3>1, <3>2
  <2>3. QED BY <1>2, <1>9, <1>10, <2>2 DEF FlowInOrder, Replaced
<1>14. ASSUME NEW k \in DOMAIN t.flows, k # key PROVE FlowInOrder(u.flows[k], ls1)
  <2>1. t.flows[k].life # life
    BY <1>14 DEF StreamsKept
  <2>2. FlowInOrder(t.flows[k], ls) /\ u.flows[k] = t.flows[k]
    BY <1>2, <1>14 DEF Replaced
  <2>3. t.flows[k].life \in DOMAIN ls1 /\ ls1[t.flows[k].life] = ls[t.flows[k].life]
    BY <1>10, <2>1, <2>2 DEF FlowInOrder
  <2>4. QED BY <2>2, <2>3 DEF FlowInOrder
<1>15. DOMAIN u.flows = DOMAIN t.flows /\ \A k \in DOMAIN t.flows : u.flows[k].life = t.flows[k].life
  BY DEF Replaced
<1>16. QED BY <1>12, <1>13, <1>14, <1>15 DEF StreamsKept

\* add_segment keeps the order of the streams.
LEMMA AddSegmentOrdered ==
    ASSUME NEW t, FlowsKept(t), NEW ls, StreamsKept(t, ls), NEW p, IsPacket(p), NEW now,
           NEW r, r = AddSegment(t, p, now, Len(ls) + 1),
           NEW fresh, "got" \in DOMAIN fresh, fresh.got = [i \in 0..1 |-> <<>>],
           NEW all, all = AllLives(ls, r.life, fresh),
           NEW ls1, ls1 = WithMore(all, r.life, r.dir, r.data)
    PROVE  StreamsKept(r.tcp, ls1)
<1>0. IsPacket(p)
  OBVIOUS
<1>1. PICK key, dir : key = FlowKey(p) /\ dir = FlowDir(p) /\ dir \in 0..1
  BY DEF FlowDir
<1>2. PICK roomy : roomy = FlowRoom(t, key) /\ FlowsKept(roomy) /\ StreamsKept(roomy, ls)
  BY EraseLeaves, StreamsOthers DEF FlowRoom
<1>3. PICK fed : fed = TouchFlow(roomy, key, now, Len(ls) + 1)
  OBVIOUS
<1>4. FlowsKept(fed) /\ key \in DOMAIN fed.flows
  BY <1>2, <1>3, TouchFlowKept
<1>5. PICK bytes : bytes = [i \in DOMAIN p.data |->
                              [at |-> (p.seq + i - 1) % SeqSpace, byte |-> p.data[i]]]
  OBVIOUS
<1>6. PICK flow : flow = fed.flows[key] /\ FlowKept(flow)
  BY <1>4 DEF FlowsKept
<1>23. PICK late \in BOOLEAN : late = (roomy # t)
  OBVIOUS
<1>7. PICK x : x = [d |-> Initialized(flow.dir[dir], p), mem |-> fed.mem,
                    out |-> <<>>, evicted |-> late]
  OBVIOUS
<1>8. PICK y : y = AddData(x, p.seq, bytes, now)
  OBVIOUS
<1>9. PICK d : d = Finished(y.d, p)
  OBVIOUS
<1>10. PICK done : done = [flow EXCEPT !.dir[dir] = d]
  OBVIOUS
<1>11. PICK after : after = [fed EXCEPT !.flows[key] = done, !.mem = y.mem]
  OBVIOUS
<1>12. PICK closed : closed = (done.dir[0].fin /\ done.dir[1].fin)
  OBVIOUS
<1>13. r = IF "RST" \in p.flags
           THEN [flow |-> key, dir |-> dir, life |-> done.life, tcp |-> EraseFlow(fed, key),
                 data |-> <<>>, closed |-> TRUE, evicted |-> roomy # t]
           ELSE [flow |-> key, dir |-> dir, life |-> done.life,
                 tcp |-> IF closed THEN EraseFlow(after, key) ELSE after,
                 data |-> y.out, closed |-> closed, evicted |-> y.evicted]
  BY ZenonT(30), <1>1, <1>2, <1>3, <1>5, <1>6, <1>7, <1>8, <1>9, <1>10, <1>11, <1>12, <1>23 DEF AddSegment
<1>14. done.life = flow.life /\ \A i \in 0..1 : done.dir[i] = IF i = dir THEN d ELSE flow.dir[i]
  BY <1>1, <1>6, <1>10 DEF FlowKept
<1>15. r.life = flow.life /\ r.dir = dir
  BY <1>13, <1>14
<1>16. StreamsKept(fed, all)
  BY <1>2, <1>3, <1>6, <1>15, TouchOrdered
<1>17. PICK g : g = all[flow.life].got[dir]
  OBVIOUS
<1>18. g \in Seq(StreamByte) /\ Rising(g) /\ InOrder(flow.dir[dir], g)
  <2>1. FlowInOrder(flow, all) /\ LivesKept(all)
    BY <1>4, <1>6, <1>16 DEF StreamsKept
  <2>2. flow.life \in DOMAIN all /\ InOrder(flow.dir[dir], g)
    BY <1>1, <1>17, <2>1 DEF FlowInOrder
  <2>3. Risen(all[flow.life].got)
    BY <2>1, <2>2 DEF LivesKept
  <2>4. QED BY <1>1, <1>17, <2>2, <2>3 DEF Risen
<1>19. y.out \in Seq(StreamByte) /\ Rising(g \o y.out) /\ InOrder(d, g \o y.out)
  <2>1. DirectionKept(flow.dir[dir])
    BY <1>1, <1>6 DEF FlowKept
  <2>2. y.out \in Seq(StreamByte) /\ Rising(g \o y.out) /\ InOrder(Finished(y.d, p), g \o y.out)
    BY ONLY SMTT(30), <1>0, <1>5, <1>7, <1>8, <1>18, <2>1, DirectionTakes
  <2>3. QED BY <1>9, <2>2
<1>20. CASE "RST" \in p.flags
  <2>1. r.tcp = EraseFlow(fed, key) /\ r.data = <<>>
    BY <1>13, <1>20
  <2>2. PICK none : none = <<>> /\ none \in Seq(StreamByte) /\ g \o none = g
    <3>1. <<>> \in Seq(StreamByte) /\ g \in Seq(StreamByte)
      BY <1>18
    <3>2. g \o <<>> = g
      BY ONLY <3>1
    <3>3. QED BY ONLY <3>1, <3>2
  <2>3. PICK e : e = flow.dir[dir]
    OBVIOUS
  <2>4. Rising(g \o none) /\ InOrder(e, g \o none)
    BY <1>18, <2>2, <2>3
  <2>5. ls1 = WithMore(all, flow.life, dir, none)
    BY <1>15, <2>1, <2>2
  <2>6. Replaced(fed, fed, key, dir, e) /\ key \in DOMAIN fed.flows /\ flow.life = fed.flows[key].life
    BY <1>4, <1>6, <2>3 DEF Replaced
  <2>7. PICK life : life = flow.life /\ life = fed.flows[key].life /\ g = all[life].got[dir]
                    /\ ls1 = WithMore(all, life, dir, none)
    BY <1>17, <2>5, <2>6
  <2>8. dir \in 0..1 /\ key \in DOMAIN fed.flows /\ none \in Seq(StreamByte)
        /\ Replaced(fed, fed, key, dir, e)
    BY <1>1, <2>2, <2>6
  <2>9. StreamsKept(fed, ls1)
    BY ONLY <1>16, <2>4, <2>7, <2>8, StreamGrows
  <2>10. QED BY <2>1, <2>9, StreamsOthers
<1>21. CASE "RST" \notin p.flags
  <2>1. r.tcp \in {EraseFlow(after, key), after} /\ r.data = y.out
    BY <1>13, <1>21
  <2>2. after.flows = [fed.flows EXCEPT ![key] = done]
    BY <1>4, <1>11 DEF FlowsKept
  <2>3. /\ DOMAIN after.flows = DOMAIN fed.flows /\ after.flows[key] = done
        /\ \A k \in DOMAIN fed.flows : k # key => after.flows[k] = fed.flows[k]
    BY <1>4, <2>2
  <2>4. ls1 = WithMore(all, flow.life, dir, y.out)
    BY <1>15, <2>1
  <2>5. Replaced(fed, after, key, dir, d) /\ key \in DOMAIN fed.flows /\ flow.life = fed.flows[key].life
    BY <1>4, <1>6, <1>14, <2>3 DEF Replaced
  <2>6. PICK life : life = flow.life /\ life = fed.flows[key].life /\ g = all[life].got[dir]
    BY <1>17, <2>5
  <2>7. PICK more : more = y.out /\ more \in Seq(StreamByte) /\ Rising(g \o more)
                    /\ InOrder(d, g \o more) /\ ls1 = WithMore(all, life, dir, more)
    BY <1>19, <2>4, <2>6
  <2>8. dir \in 0..1 /\ key \in DOMAIN fed.flows /\ Replaced(fed, after, key, dir, d)
    BY <1>1, <2>5
  <2>9. StreamsKept(after, ls1)
    BY ONLY <1>16, <2>6, <2>7, <2>8, StreamGrows
  <2>10. QED BY <2>1, <2>9, StreamsOthers
<1>22. QED BY <1>20, <1>21

\* At the start there are no streams.
LEMMA NoStreams == StreamsKept(EmptyTcp, <<>>)
<1>1. IsSeq(<<>>)
  BY SingleSeq
<1>2. EmptyTcp.flows = <<>>
  BY DEF EmptyTcp
<1>3. DOMAIN <<>> = {}
  OBVIOUS
<1>4. QED BY <1>1, <1>2, <1>3 DEF StreamsKept, LivesKept

-----------------------------------------------------------------------------
\* The pipeline: what its handlers carry along.  n is the number of packets, and ls are
\* the flows that were opened.

DirStateKept(ds) ==
    DOMAIN ds = {"tail", "acc", "checked", "bad", "done"} /\ ds.acc \in Seq(Nat)
AppKept(app) == DOMAIN app = 0..1 /\ \A i \in 0..1 : DirStateKept(app[i])

EthKept(e, n, ls) ==
    /\ DOMAIN e = {"rates", "scans", "bindings", "storms", "crossings", "sessions",
                   "defrag", "tcp", "apps"}
    /\ DefragKept(e.defrag, n) /\ TcpKept(e.tcp) /\ StreamsKept(e.tcp, ls)
    /\ \A k \in DOMAIN e.apps : AppKept(e.apps[k])

DatagramsKept(ds) == IsSeq(ds) /\ \A i \in DOMAIN ds : Whole(ds[i])

Work(x, n) ==
    /\ DOMAIN x = {"e", "alerts", "ds", "lives", "datagrams"}
    /\ EthKept(x.e, n, x.lives) /\ IsSeq(x.alerts) /\ DirStateKept(x.ds)
    /\ DatagramsKept(x.datagrams)

\* A handler that leaves the tables as they should be and raises alerts.
LEMMA ThenKept ==
    ASSUME NEW n, NEW x, Work(x, n), NEW e, EthKept(e, n, x.lives),
           NEW alerts, IsSeq(alerts)
    PROVE  Work(Then(x, e, alerts), n)
<1>1. PICK y : y = Then(x, e, alerts)
  OBVIOUS
<1>2. /\ DOMAIN y = DOMAIN x /\ y.e = e /\ y.alerts = x.alerts \o alerts
      /\ y.ds = x.ds /\ y.datagrams = x.datagrams /\ y.lives = x.lives
  BY <1>1 DEF Then, Work
<1>3. IsSeq(x.alerts \o alerts)
  BY SeqsJoined DEF Work
<1>4. QED BY <1>1, <1>2, <1>3 DEF Work

\* A handler that only raises an alert.
LEMMA AlertKept ==
    ASSUME NEW n, NEW x, Work(x, n), NEW sev, NEW kind, NEW key
    PROVE  /\ Work(Alert(x, sev, kind, key), n)
           /\ Alert(x, sev, kind, key).ds = x.ds
<1>1. PICK y, a : y = Alert(x, sev, kind, key) /\ a = [sev |-> sev, kind |-> kind, key |-> key]
  OBVIOUS
<1>2. /\ DOMAIN y = DOMAIN x /\ y.e = x.e /\ y.alerts = Append(x.alerts, a)
      /\ y.ds = x.ds /\ y.datagrams = x.datagrams /\ y.lives = x.lives
  BY <1>1 DEF Alert, Work
<1>3. IsSeq(Append(x.alerts, a))
  BY SeqExtended DEF Work
<1>4. QED BY <1>1, <1>2, <1>3 DEF Work

\* What the tables of the detectors have in them says nothing of the others.
LEMMA OtherTables ==
    ASSUME NEW n, NEW e, NEW ls, EthKept(e, n, ls), NEW v
    PROVE  /\ EthKept([e EXCEPT !.rates = v], n, ls) /\ EthKept([e EXCEPT !.scans = v], n, ls)
           /\ EthKept([e EXCEPT !.bindings = v], n, ls) /\ EthKept([e EXCEPT !.storms = v], n, ls)
           /\ EthKept([e EXCEPT !.crossings = v], n, ls)
           /\ EthKept([e EXCEPT !.sessions = v], n, ls)
BY DEF EthKept

\* The alerts of the rules that match are a sequence.
LEMMA RuleAlertsSeq ==
    ASSUME NEW hits, IsSeq(hits), NEW key
    PROVE  IsSeq(RuleAlerts(hits, key))
<1>1. hits \in Seq(ToSet(hits))
  BY DEF IsSeq
<1> DEFINE a == RuleAlerts(hits, key)
           T == {[sev |-> "rule", kind |-> hits[i].sid, key |-> key] : i \in DOMAIN hits}
<1>2. Len(hits) \in Nat /\ DOMAIN hits = 1..Len(hits)
  BY <1>1
<1>3. a \in [1..Len(hits) -> T]
  BY <1>2 DEF RuleAlerts
<1>4. a \in Seq(T)
  BY <1>2, <1>3
<1>5. QED BY <1>4, AnySeq

\* And so are these rules.
LEMMA HitsAreSeq ==
    ASSUME IsSeq(scenario.rules), NEW kind, NEW bufs
    PROVE  IsSeq(Hits(kind, bufs))
BY ThoseIsSeq DEF Hits

\* The detectors of packets keep what they are given.
LEMMA DetectorsKept ==
    ASSUME NEW n, NEW x, Work(x, n), IsSeq(scenario.rules), NEW p, NEW at
    PROVE  /\ Work(FeedRate(x, p, at), n) /\ Work(FeedCrossing(x, p, at), n)
           /\ Work(FeedScan(x, p, at), n) /\ Work(FeedArp(x, p, at), n)
           /\ Work(FlagAlert(x, p), n)
           /\ \A headerOnly : Work(MatchPacket(x, p, headerOnly), n)
<1>0. IsSeq(<<>>) /\ EthKept(x.e, n, x.lives)
  BY SingleSeq DEF Work
<1>1. Work(FeedRate(x, p, at), n)
  BY <1>0, ThenKept, OtherTables, WhenIsSeq DEF FeedRate
<1>2. Work(FeedCrossing(x, p, at), n)
  BY <1>0, ThenKept, OtherTables, WhenIsSeq DEF FeedCrossing
<1>3. Work(FeedScan(x, p, at), n)
  BY <1>0, ThenKept, OtherTables, WhenIsSeq DEF FeedScan
<1>4. Work(FeedArp(x, p, at), n)
  <2>1. PICK b : b = [x.e EXCEPT !.bindings = Put(x.e.bindings, p.src, p.mac)] /\ EthKept(b, n, x.lives)
    BY <1>0, OtherTables
  <2>2. PICK s : s = [b EXCEPT !.storms = Put(b.storms, p.mac, Counted(OpenStorm(x.e.storms, p.mac, at), EthLimit("arpStorm")))]
                 /\ EthKept(s, n, x.lives)
    BY <2>1, OtherTables
  <2>3. \A e, alerts : EthKept(e, n, x.lives) /\ IsSeq(alerts) => Work(Then(x, e, alerts), n)
    BY ThenKept
  <2>4. \A raised, kind : IsSeq(When(raised, "arp", kind, p.src)) /\ IsSeq(When(raised, "arp", kind, p.mac))
    BY WhenIsSeq
  <2>5. QED BY <1>0, <2>1, <2>2, <2>3, <2>4 DEF FeedArp
<1>5. Work(FlagAlert(x, p), n)
  BY AlertKept DEF FlagAlert
<1>6. ASSUME NEW headerOnly PROVE Work(MatchPacket(x, p, headerOnly), n)
  BY <1>0, ThenKept, HitsAreSeq, ThoseIsSeq, RuleAlertsSeq DEF MatchPacket
<1>7. QED BY <1>1, <1>2, <1>3, <1>4, <1>5, <1>6

\* What is kept of a sequence is a sequence.
LEMMA LastOfSeq ==
    ASSUME NEW S, NEW s \in Seq(S), NEW k \in Nat
    PROVE  LastOf(s, k) \in Seq(S)
<1>1. Len(s) - k + 1 \in Int
  OBVIOUS
<1>2. Max({1, Len(s) - k + 1}) \in Nat \ {0}
  BY <1>1, AtLeastOne
<1>3. QED BY <1>2, PartOfSeq DEF LastOf

\* The accumulated bytes of a direction.
LEMMA AccKept ==
    ASSUME NEW n, NEW x, Work(x, n), NEW acc \in Seq(Nat)
    PROVE  /\ Work([x EXCEPT !.ds.acc = acc], n)
           /\ [x EXCEPT !.ds.acc = acc].ds.acc = acc
<1>1. PICK y : y = [x EXCEPT !.ds.acc = acc]
  OBVIOUS
<1>2. /\ DOMAIN y = DOMAIN x /\ y.e = x.e /\ y.alerts = x.alerts /\ y.datagrams = x.datagrams
      /\ y.lives = x.lives /\ y.ds = [x.ds EXCEPT !.acc = acc]
  BY <1>1 DEF Work
<1>3. DirStateKept(y.ds) /\ y.ds.acc = acc
  BY <1>2 DEF Work, DirStateKept
<1>4. QED BY <1>1, <1>2, <1>3 DEF Work

\* One round of the DoIP messages.
LEMMA DoipMessageKept ==
    ASSUME NEW n, NEW x, Work(x, n), NEW life
    PROVE  Work(DoipMessage(x, life), n)
<1>1. PICK acc \in Seq(Nat) : acc = x.ds.acc
  BY DEF Work, DirStateKept
<1>2. PICK empty : empty = [x EXCEPT !.ds.acc = <<>>] /\ Work(empty, n)
  <2>1. <<>> \in Seq(Nat)
    OBVIOUS
  <2>2. QED BY <2>1, AccKept
<1>3. CASE Len(acc) < 2
  BY <1>1, <1>3 DEF DoipMessage
<1>4. CASE Len(acc) >= 2
  <2>1. 3 + acc[2] \in Nat \ {0}
    <3>1. 2 \in 1..Len(acc)
      BY <1>4
    <3>2. acc[2] \in Nat
      BY <3>1
    <3>3. QED BY <3>2
  <2>2. SubSeq(acc, 3 + acc[2], Len(acc)) \in Seq(Nat)
    BY <2>1, PartOfSeq
  <2>3. PICK rest : rest = [x EXCEPT !.ds.acc = SubSeq(acc, 3 + acc[2], Len(acc))]
    OBVIOUS
  <2>4. Work(rest, n)
    BY <2>2, <2>3, AccKept
  <2>5. Work(Alert(empty, "doip", "length", life), n)
    BY <1>2, AlertKept
  <2>6. \A m : Work(InspectDoip(rest, m, life), n)
    BY <2>4, AlertKept DEF InspectDoip
  <2>7. DoipMessage(x, life) \in {x, Alert(empty, "doip", "length", life),
                                  InspectDoip(rest, SubSeq(acc, 1, 2 + acc[2]), life)}
    BY <1>1, <1>2, <2>3 DEF DoipMessage
  <2>8. QED BY <2>5, <2>6, <2>7
<1>5. Len(acc) \in Nat
  OBVIOUS
<1>6. QED BY <1>3, <1>4, <1>5

\* One round of the HTTP messages.
LEMMA HttpMessageKept ==
    ASSUME NEW n, NEW x, Work(x, n), IsSeq(scenario.rules), NEW life
    PROVE  Work(HttpMessage(x, life), n)
<1>1. PICK acc \in Seq(Nat) : acc = x.ds.acc
  BY DEF Work, DirStateKept
<1>2. PICK empty : empty = [x EXCEPT !.ds.acc = <<>>] /\ Work(empty, n)
  <2>1. <<>> \in Seq(Nat)
    OBVIOUS
  <2>2. QED BY <2>1, AccKept
<1>3. PICK msg : msg = ParseHttp(acc)
  OBVIOUS
<1>4. msg.rest \in Seq(Nat)
  <2>1. PICK ends : ends = {i \in DOMAIN acc : acc[i] = 6}
    OBVIOUS
  <2>2. ASSUME ends # {} PROVE SubSeq(acc, Min(ends) + 1, Len(acc)) \in Seq(Nat)
    <3>1. Min(ends) \in Nat
      <4>1. ends \subseteq Nat
        BY <2>1
      <4>2. QED BY <2>2, <4>1, FirstOfFinite
    <3>2. Min(ends) + 1 \in Nat \ {0}
      BY <3>1
    <3>3. QED BY <3>2, PartOfSeq
  <2>3. msg.rest = <<>> \/ msg.rest = acc
        \/ (ends # {} /\ msg.rest = SubSeq(acc, Min(ends) + 1, Len(acc)))
    BY <1>3, <2>1 DEF ParseHttp
  <2>4. <<>> \in Seq(Nat)
    OBVIOUS
  <2>5. QED BY <2>2, <2>3, <2>4
<1>5. PICK rest : rest = [x EXCEPT !.ds.acc = msg.rest]
  OBVIOUS
<1>6. Work(rest, n) /\ EthKept(x.e, n, rest.lives)
  BY <1>4, <1>5, AccKept DEF Work
<1>7. PICK alerts : alerts = RuleAlerts(Hits("tcp", Buffers(<<>>, msg.uri, <<>>)), life)
  OBVIOUS
<1>8. IsSeq(alerts)
  BY <1>7, HitsAreSeq, RuleAlertsSeq
<1>9. Work(Alert(empty, "http", "malformed", life), n) /\ Work(Then(rest, x.e, alerts), n)
  BY <1>2, <1>6, <1>8, AlertKept, ThenKept
<1>10. HttpMessage(x, life) \in {x, Alert(empty, "http", "malformed", life), Then(rest, x.e, alerts)}
  BY <1>1, <1>2, <1>3, <1>5, <1>7 DEF HttpMessage
<1>11. QED BY <1>9, <1>10

\* The rounds of both, one after the other.
LEMMA MessageLoopKept ==
    ASSUME NEW loop \in {"doip", "http"}, NEW m \in Nat, NEW n, NEW x, Work(x, n),
           IsSeq(scenario.rules), NEW life
    PROVE  Work(LoopEnd(loop, m, x, life), n)
<1> DEFINE f == CHOOSE g : IsLoop(g, loop, m, x, life)
           P == {k \in Nat : k <= m => Work(f[k], n)}
<1>1. IsLoop(f, loop, m, x, life)
  BY LoopExists
<1> HIDE DEF f
<1>2. \A k \in 0..m : f[k] = IF k = 0 THEN x ELSE Step(loop, f[k - 1], life)
  BY <1>1 DEF IsLoop
<1>3. 0 \in P
  <2>1. f[0] = x
    BY <1>2
  <2>2. QED BY <2>1
<1>4. ASSUME NEW k \in Nat, k \in P PROVE k + 1 \in P
  <2>1. SUFFICES ASSUME k + 1 <= m PROVE Work(f[k + 1], n)
    OBVIOUS
  <2>2. Work(f[k], n)
    BY <1>4, <2>1
  <2>3. f[k + 1] = Step(loop, f[k], life)
    <3>1. k + 1 \in 0..m /\ k + 1 # 0 /\ (k + 1) - 1 = k
      BY <2>1
    <3>2. QED BY <1>2, <3>1
  <2>4. f[k + 1] \in {DoipMessage(f[k], life), HttpMessage(f[k], life)}
    BY <2>3 DEF Step
  <2>5. QED BY <2>2, <2>4, DoipMessageKept, HttpMessageKept
<1> HIDE DEF P
<1>5. m \in P
  BY <1>3, <1>4, NumberInduction DEF P
<1>6. Work(f[m], n)
  BY <1>5 DEF P
<1>7. QED BY <1>6 DEF f, LoopEnd

\* The messages are taken by such a loop.
LEMMA MessagesKept ==
    ASSUME NEW n, NEW x, Work(x, n), IsSeq(scenario.rules), NEW life
    PROVE  Work(DoipMessages(x, life), n) /\ Work(HttpMessages(x, life), n)
<1>1. PICK m \in Nat : m = Len(x.ds.acc)
  BY DEF Work, DirStateKept
<1>2. DoipMessages(x, life) = LoopEnd("doip", m, x, life)
  BY <1>1 DEF DoipMessages, Repeated, LoopEnd, IsLoop, Step
<1>3. HttpMessages(x, life) = LoopEnd("http", m, x, life)
  BY <1>1 DEF HttpMessages, Repeated, LoopEnd, IsLoop, Step
<1>4. QED BY <1>2, <1>3, MessageLoopKept

\* Fields of the direction's state that are not looked at here.
LEMMA FlagsKept ==
    ASSUME NEW n, NEW x, Work(x, n), NEW v
    PROVE  /\ Work([x EXCEPT !.ds.tail = v], n) /\ Work([x EXCEPT !.ds.checked = v], n)
           /\ Work([x EXCEPT !.ds.bad = v], n) /\ Work([x EXCEPT !.ds.done = v], n)
           /\ [x EXCEPT !.ds.tail = v].ds.acc = x.ds.acc
BY DEF Work, DirStateKept

\* The rules are matched with the stream.
LEMMA MatchStreamKept ==
    ASSUME NEW n, NEW x, Work(x, n), IsSeq(scenario.rules), NEW data, NEW life
    PROVE  Work(MatchStream(x, data, life), n)
<1>1. PICK tail : tail = LastOf(x.ds.tail \o data, Keep)
  OBVIOUS
<1>2. PICK y : y = [x EXCEPT !.ds.tail = tail] /\ Work(y, n)
  BY FlagsKept
<1>3. PICK alerts : alerts = RuleAlerts(Hits("tcp", Buffers(x.ds.tail \o data, <<>>, <<>>)), life)
  OBVIOUS
<1>4. IsSeq(alerts) /\ EthKept(x.e, n, y.lives)
  BY <1>2, <1>3, HitsAreSeq, RuleAlertsSeq DEF Work
<1>5. MatchStream(x, data, life) = Then(y, x.e, alerts)
  BY <1>1, <1>2, <1>3 DEF MatchStream
<1>6. QED BY <1>2, <1>4, <1>5, ThenKept

\* A ClientHello is waited for.
LEMMA FeedTlsKept ==
    ASSUME NEW n, NEW x, Work(x, n), NEW p, NEW data \in Seq(Nat), NEW life
    PROVE  Work(FeedTls(x, p, data, life), n)
<1>1. PICK acc \in Seq(Nat) : acc = x.ds.acc \o data
  <2>1. x.ds.acc \in Seq(Nat)
    BY DEF Work, DirStateKept
  <2>2. x.ds.acc \o data \in Seq(Nat)
    BY <2>1
  <2>3. QED BY <2>2
<1>2. PICK some : some = [x EXCEPT !.ds.acc = acc] /\ Work(some, n)
  BY AccKept
<1>3. PICK done : done = [x EXCEPT !.ds.acc = acc, !.ds.done = TRUE]
  OBVIOUS
<1>4. Work(done, n)
  <2>1. done = [some EXCEPT !.ds.done = TRUE]
    BY <1>2, <1>3 DEF Work, DirStateKept
  <2>2. QED BY <1>2, <2>1, FlagsKept
<1>5. PICK alerts :
        alerts = When(\A a \in {p.src, p.dst} : Verdict(a) = "home", "tls", "internal", life)
                 \o When(acc[3] < 3, "tls", "version", life)
  OBVIOUS
<1>6. IsSeq(alerts) /\ EthKept(x.e, n, done.lives)
  BY <1>3, <1>5, WhenIsSeq, SeqsJoined DEF Work
<1>7. Work(Alert(done, "tls", "malformed", life), n) /\ Work(Then(done, x.e, alerts), n)
  BY <1>4, <1>6, AlertKept, ThenKept
<1>8. FeedTls(x, p, data, life) \in
        {x, done, some, Alert(done, "tls", "malformed", life), Then(done, x.e, alerts)}
  BY <1>1, <1>2, <1>3, <1>5 DEF FeedTls
<1>9. QED BY <1>2, <1>4, <1>7, <1>8

\* A stream is taken for HTTP, or is not.
LEMMA FeedHttpKept ==
    ASSUME NEW n, NEW x, Work(x, n), IsSeq(scenario.rules), NEW data \in Seq(Nat), NEW life
    PROVE  Work(FeedHttp(x, data, life), n)
<1>1. PICK acc \in Seq(Nat) : acc = x.ds.acc \o data
  <2>1. x.ds.acc \in Seq(Nat)
    BY DEF Work, DirStateKept
  <2>2. x.ds.acc \o data \in Seq(Nat)
    BY <2>1
  <2>3. QED BY <2>2
<1>2. PICK some : some = [x EXCEPT !.ds.acc = acc] /\ Work(some, n)
  BY AccKept
<1>3. PICK seen : seen = [x EXCEPT !.ds.acc = acc, !.ds.checked = TRUE]
  OBVIOUS
<1>4. Work(seen, n)
  <2>1. seen = [some EXCEPT !.ds.checked = TRUE]
    BY <1>2, <1>3 DEF Work, DirStateKept
  <2>2. QED BY <1>2, <2>1, FlagsKept
<1>5. PICK bad : bad = [seen EXCEPT !.ds.bad = TRUE] /\ Work(bad, n)
  BY <1>4, FlagsKept
<1>6. Work(Alert(bad, "http", "malformed", life), n) /\ Work(HttpMessages(seen, life), n)
  BY <1>4, <1>5, AlertKept, MessagesKept
<1>7. FeedHttp(x, data, life) \in
        {x, Alert(bad, "http", "malformed", life), HttpMessages(seen, life)}
  BY <1>1, <1>3, <1>5 DEF FeedHttp
<1>8. QED BY <1>6, <1>7

\* The bytes that were delivered go to the application layer.
LEMMA FeedStreamKept ==
    ASSUME NEW n, NEW x, Work(x, n), IsSeq(scenario.rules), NEW p, NEW data \in Seq(Nat), NEW life
    PROVE  Work(FeedStream(x, p, data, life), n)
<1>1. PICK y : y = MatchStream(x, data, life) /\ Work(y, n)
  BY MatchStreamKept
<1>2. PICK some : some = [y EXCEPT !.ds.acc = y.ds.acc \o data]
  OBVIOUS
<1>3. Work(some, n)
  <2>1. y.ds.acc \o data \in Seq(Nat)
    BY <1>1 DEF Work, DirStateKept
  <2>2. QED BY <1>1, <1>2, <2>1, AccKept
<1>4. PICK z : z = CASE p.dport = DoipPort -> DoipMessages(some, life)
                     [] p.dport = TlsPort -> FeedTls(y, p, data, life)
                     [] p.dport \in HttpPorts -> FeedHttp(y, data, life)
                     [] OTHER -> y
  OBVIOUS
<1>5. Work(z, n)
  <2>1. /\ Work(DoipMessages(some, life), n) /\ Work(FeedTls(y, p, data, life), n)
        /\ Work(FeedHttp(y, data, life), n)
    BY <1>1, <1>3, MessagesKept, FeedTlsKept, FeedHttpKept
  <2>2. z \in {DoipMessages(some, life), FeedTls(y, p, data, life), FeedHttp(y, data, life), y}
    BY <1>4
  <2>3. QED BY <1>1, <2>1, <2>2
<1>6. PICK ds : ds = [z.ds EXCEPT !.acc = LastOf(z.ds.acc, AccCap)]
  OBVIOUS
<1>7. DirStateKept(ds)
  <2>1. AccCap \in Nat /\ z.ds.acc \in Seq(Nat)
    BY <1>5, EthAssumption DEF Work, DirStateKept
  <2>2. LastOf(z.ds.acc, AccCap) \in Seq(Nat)
    BY <2>1, LastOfSeq
  <2>3. QED BY <1>5, <1>6, <2>2 DEF Work, DirStateKept
<1>8. PICK w : w = [x EXCEPT !.ds = ds, !.alerts = z.alerts]
  OBVIOUS
<1>9. FeedStream(x, p, data, life) = w
  BY <1>1, <1>2, <1>4, <1>6, <1>8 DEF FeedStream
<1>10. /\ DOMAIN w = DOMAIN x /\ w.e = x.e /\ w.alerts = z.alerts /\ w.ds = ds
       /\ w.datagrams = x.datagrams /\ w.lives = x.lives
  BY <1>8 DEF Work
<1>11. QED BY <1>5, <1>7, <1>9, <1>10 DEF Work

-----------------------------------------------------------------------------
\* The handlers of a frame.

\* What add_segment returns is taken over.
LEMMA TakeSegmentKept ==
    ASSUME NEW n, NEW x, Work(x, n), NEW r, SegmentResult(r), StreamsKept(r.tcp, Delivered(x, r))
    PROVE  Work(TakeSegment(x, r), n)
<1>1. PICK lives1 : lives1 = Delivered(x, r)
  OBVIOUS
<1>2. PICK y : y = [x EXCEPT !.lives = lives1]
  OBVIOUS
<1>3. PICK e : e = [x.e EXCEPT !.tcp = r.tcp]
  OBVIOUS
<1>4. EthKept(e, n, lives1)
  BY <1>1, <1>3 DEF Work, EthKept, SegmentResult
<1>5. PICK alerts : alerts = When(r.evicted, "reassembly", "stream", 0) /\ IsSeq(alerts)
  BY WhenIsSeq
<1>6. PICK z : z = Then(y, e, alerts)
  OBVIOUS
<1>7. /\ DOMAIN z = DOMAIN x /\ z.e = e /\ z.alerts = x.alerts \o alerts
      /\ z.ds = x.ds /\ z.datagrams = x.datagrams /\ z.lives = lives1
  BY <1>2, <1>6 DEF Then, Work
<1>8. IsSeq(x.alerts \o alerts)
  BY <1>5, SeqsJoined DEF Work
<1>9. Work(z, n)
  BY <1>4, <1>7, <1>8 DEF Work
<1>10. TakeSegment(x, r) = z
  BY <1>1, <1>2, <1>3, <1>5, <1>6 DEF TakeSegment
<1>11. QED BY <1>9, <1>10

\* What was delivered keeps the order of the streams: the detectors and the rules that
\* see the packet before it is taken leave the flows alone.
LEMMA SegmentDelivered ==
    ASSUME NEW n, NEW x, Work(x, n), NEW p, IsPacket(p), NEW at,
           NEW r, r = AddSegment(x.e.tcp, p, at, Len(x.lives) + 1), NEW y, y.lives = x.lives
    PROVE  StreamsKept(r.tcp, Delivered(y, r))
<1>1. PICK t, ls : t = x.e.tcp /\ ls = x.lives /\ FlowsKept(t) /\ StreamsKept(t, ls)
  BY DEF Work, EthKept, TcpKept
<1>2. PICK fresh : fresh = [flow |-> r.flow, fresh |-> r.flow \notin DOMAIN y.e.apps,
                            got |-> [i \in 0..1 |-> <<>>]]
  OBVIOUS
<1>3. "got" \in DOMAIN fresh /\ fresh.got = [i \in 0..1 |-> <<>>]
  BY <1>2
<1>4. PICK all : all = AllLives(ls, r.life, fresh)
  OBVIOUS
<1>5. PICK ls1 : ls1 = WithMore(all, r.life, r.dir, r.data)
  OBVIOUS
<1>6. StreamsKept(r.tcp, ls1)
  BY <1>1, <1>3, <1>4, <1>5, AddSegmentOrdered
<1>7. Delivered(y, r) = ls1
  BY <1>1, <1>2, <1>4, <1>5 DEF Delivered, AllLives, WithMore
<1>8. QED BY <1>6, <1>7

\* What sees a packet first leaves the flows alone.
LEMMA LivesLeft ==
    ASSUME NEW n, NEW x, Work(x, n), NEW p
    PROVE  /\ FlagAlert(x, p).lives = x.lives /\ \A at : FeedScan(x, p, at).lives = x.lives
           /\ \A headerOnly : MatchPacket(x, p, headerOnly).lives = x.lives
<1>1. ASSUME NEW e, NEW alerts PROVE Then(x, e, alerts).lives = x.lives
  BY DEF Then, Work
<1>2. FlagAlert(x, p).lives = x.lives
  BY DEF FlagAlert, Alert, Work
<1>3. ASSUME NEW at PROVE FeedScan(x, p, at).lives = x.lives
  BY <1>1 DEF FeedScan
<1>4. ASSUME NEW headerOnly PROVE MatchPacket(x, p, headerOnly).lives = x.lives
  BY <1>1 DEF MatchPacket
<1>5. QED BY <1>2, <1>3, <1>4

\* The application layer of a flow, new or known.
LEMMA AppIsKept ==
    ASSUME NEW n, NEW x, Work(x, n), NEW r
    PROVE  AppKept(App(x, r))
<1>1. <<>> \in Seq(Nat)
  OBVIOUS
<1>2. DirStateKept(NewDirState)
  <2>1. PICK s : s = NewDirState
    OBVIOUS
  <2>2. DOMAIN s = {"tail", "acc", "checked", "bad", "done"} /\ s.acc = <<>>
    BY <2>1 DEF NewDirState
  <2>3. QED BY <1>1, <2>1, <2>2 DEF DirStateKept
<1>3. AppKept(NewApp)
  BY <1>2 DEF AppKept, NewApp
<1>4. \A k \in DOMAIN x.e.apps : AppKept(x.e.apps[k])
  BY DEF Work, EthKept
<1>5. QED BY <1>3, <1>4 DEF App, At

\* The application layers of the flows are replaced.
LEMMA WithApps ==
    ASSUME NEW n, NEW x, Work(x, n), NEW apps, \A k \in DOMAIN apps : AppKept(apps[k])
    PROVE  Work([x EXCEPT !.e.apps = apps], n)
<1>1. PICK e : e = [x.e EXCEPT !.apps = apps]
  OBVIOUS
<1>2. EthKept(e, n, x.lives)
  BY <1>1 DEF Work, EthKept
<1>3. PICK y : y = [x EXCEPT !.e.apps = apps]
  OBVIOUS
<1>4. /\ DOMAIN y = DOMAIN x /\ y.e = e /\ y.alerts = x.alerts
      /\ y.ds = x.ds /\ y.datagrams = x.datagrams /\ y.lives = x.lives
  BY <1>1, <1>3 DEF Work
<1>5. QED BY <1>2, <1>3, <1>4 DEF Work

\* The state of a direction is written back.
LEMMA SaveAppKept ==
    ASSUME NEW n, NEW x, Work(x, n), NEW r, r.dir \in 0..1
    PROVE  Work(SaveApp(x, r), n)
<1>1. PICK app : app = App(x, r) /\ AppKept(app)
  BY AppIsKept
<1>2. PICK saved : saved = [app EXCEPT ![r.dir] = x.ds]
  OBVIOUS
<1>3. AppKept(saved)
  BY <1>1, <1>2 DEF AppKept, Work
<1>4. PICK apps : apps = Put(x.e.apps, r.flow, saved)
  OBVIOUS
<1>5. \A k \in DOMAIN apps : AppKept(apps[k])
  BY <1>3, <1>4 DEF Put, Work, EthKept
<1>6. SaveApp(x, r) = [x EXCEPT !.e.apps = apps]
  BY <1>1, <1>2, <1>4 DEF SaveApp
<1>7. QED BY <1>5, <1>6, WithApps

\* The application layer of a closed flow is forgotten.
LEMMA CloseAppKept ==
    ASSUME NEW n, NEW x, Work(x, n), NEW r
    PROVE  Work(CloseApp(x, r), n)
<1>1. PICK apps : apps = Dropped(x.e.apps, {r.flow})
  OBVIOUS
<1>2. \A k \in DOMAIN apps : AppKept(apps[k])
  BY <1>1 DEF Dropped, Restrict, Work, EthKept
<1>3. CloseApp(x, r) \in {x, [x EXCEPT !.e.apps = apps]}
  BY <1>1 DEF CloseApp
<1>4. QED BY <1>2, <1>3, WithApps

\* The data that was delivered is inspected.
LEMMA TakeDataKept ==
    ASSUME NEW n, NEW x, Work(x, n), IsSeq(scenario.rules), NEW p, NEW r, SegmentResult(r)
    PROVE  Work(TakeData(x, p, r), n)
<1>1. PICK ds : ds = App(x, r)[r.dir] /\ DirStateKept(ds)
  BY AppIsKept DEF AppKept, SegmentResult
<1>2. PICK y : y = [x EXCEPT !.ds = ds]
  OBVIOUS
<1>3. Work(y, n)
  BY <1>1, <1>2 DEF Work
<1>4. PICK data : data = [i \in DOMAIN r.data |-> r.data[i].byte]
  OBVIOUS
<1>5. data \in Seq(Nat)
  <2>1. r.data \in Seq(StreamByte)
    BY DEF SegmentResult
  <2>2. PICK m \in Nat : DOMAIN r.data = 1..m
    BY <2>1
  <2>3. \A i \in 1..m : r.data[i].byte \in Nat
    <3>1. \A i \in 1..m : r.data[i] \in StreamByte
      BY <2>1, <2>2
    <3>2. QED BY <3>1 DEF StreamByte
  <2>4. data \in [1..m -> Nat]
    BY <1>4, <2>2, <2>3
  <2>5. QED BY <2>4
<1>6. PICK z : z = FeedStream(y, p, data, r.life) /\ Work(z, n)
  BY <1>3, <1>5, FeedStreamKept
<1>7. Work(SaveApp(z, r), n)
  BY <1>6, SaveAppKept DEF SegmentResult
<1>8. TakeData(x, p, r) \in {x, SaveApp(z, r)}
  BY <1>1, <1>2, <1>4, <1>6 DEF TakeData
<1>9. QED BY <1>7, <1>8

\* handle_tcp, with all that it calls.
LEMMA HandleTcpKept ==
    ASSUME NEW n, NEW x, Work(x, n), IsSeq(scenario.rules), NEW p, IsPacket(p), NEW at
    PROVE  Work(HandleTcp(x, p, at), n)
<1>1. PICK y : y = MatchPacket(FeedScan(FlagAlert(x, p), p, at), p, TRUE) /\ Work(y, n)
               /\ y.lives = x.lives
  <2>1. PICK f : f = FlagAlert(x, p) /\ Work(f, n) /\ f.lives = x.lives
    BY DetectorsKept, LivesLeft
  <2>2. PICK s : s = FeedScan(f, p, at) /\ Work(s, n) /\ s.lives = x.lives
    BY <2>1, DetectorsKept, LivesLeft
  <2>3. PICK headerOnly : headerOnly = TRUE
    OBVIOUS
  <2>4. PICK y : y = MatchPacket(s, p, headerOnly)
    OBVIOUS
  <2>5. Work(y, n) /\ y.lives = x.lives
    <3>1. Work(MatchPacket(s, p, headerOnly), n)
      BY <2>2, DetectorsKept
    <3>2. Work(s, n)
      BY <2>2
    <3>3. \A h : MatchPacket(s, p, h).lives = s.lives
      BY ONLY <3>2, LivesLeft
    <3>4. MatchPacket(s, p, headerOnly).lives = s.lives
      BY ONLY <3>3
    <3>5. QED BY <2>2, <2>4, <3>1, <3>4
  <2>6. QED BY <2>1, <2>2, <2>3, <2>4, <2>5
<1>2. PICK r : r = AddSegment(x.e.tcp, p, at, Len(x.lives) + 1) /\ SegmentResult(r)
  BY AddSegmentKept DEF Work, EthKept
<1>3. PICK z : z = TakeSegment(y, r) /\ Work(z, n)
  BY <1>1, <1>2, SegmentDelivered, TakeSegmentKept
<1>4. Work(TakeData(z, p, r), n)
  BY <1>2, <1>3, TakeDataKept
<1>5. HandleTcp(x, p, at) = CloseApp(TakeData(z, p, r), r)
  BY <1>1, <1>2, <1>3 DEF HandleTcp, TakeResult
<1>6. QED BY <1>4, <1>5, CloseAppKept

\* handle_udp, with all that it calls.
LEMMA HandleUdpKept ==
    ASSUME NEW n, NEW x, Work(x, n), IsSeq(scenario.rules), NEW p
    PROVE  Work(HandleUdp(x, p), n)
<1>1. PICK y : y = (IF DoipPort \in {p.sport, p.dport} THEN InspectDoip(x, p.data, 0) ELSE x)
               /\ Work(y, n)
  BY AlertKept DEF InspectDoip
<1>2. Work(HandleSomeip(y, p), n)
  <2>1. Work(Alert(y, "someip", "malformed", p.src), n)
    BY <1>1, AlertKept
  <2>2. PICK e : e = [y.e EXCEPT !.sessions = Put(y.e.sessions, p.src, p.session)]
                 /\ EthKept(e, n, y.lives)
    BY <1>1, OtherTables DEF Work
  <2>3. \A back : IsSeq(When(back, "someip", "session", p.src) \o When(p.offers, "someip", "offer", p.src))
    BY WhenIsSeq, SeqsJoined
  <2>4. Work(InspectSd(y, p), n)
    BY <1>1, <2>2, <2>3, ThenKept DEF InspectSd
  <2>5. QED BY <2>1, <2>4 DEF HandleSomeip
<1>3. PICK z : z = (IF SomeipPort \in {p.sport, p.dport} THEN HandleSomeip(y, p) ELSE y)
               /\ Work(z, n)
  BY <1>1, <1>2
<1>4. Work(HandleDns(z, p), n)
  <2>1. PICK w : w = (IF DnsAlerted(p) THEN Alert(z, "dns", p.dns, p.src) ELSE z) /\ Work(w, n)
    BY <1>3, AlertKept
  <2>2. PICK alerts : alerts = RuleAlerts(Hits("udp", Buffers(p.data, <<>>, p.data)), 0)
                      /\ IsSeq(alerts)
    BY HitsAreSeq, RuleAlertsSeq
  <2>3. Work(Then(w, w.e, alerts), n)
    BY <2>1, <2>2, ThenKept DEF Work
  <2>4. HandleDns(z, p) \in {w, Then(w, w.e, alerts)}
    BY <2>1, <2>2 DEF HandleDns
  <2>5. QED BY <2>1, <2>3, <2>4
<1>5. Work(MatchPacket(z, p, FALSE), n)
  BY <1>3, DetectorsKept
<1>6. HandleUdp(x, p) \in {HandleDns(z, p), MatchPacket(z, p, FALSE)}
  BY <1>1, <1>3 DEF HandleUdp
<1>7. QED BY <1>4, <1>5, <1>6

\* handle_l4, of a packet or of a datagram that was put together.
LEMMA HandleL4Kept ==
    ASSUME NEW n, NEW x, Work(x, n), IsSeq(scenario.rules), NEW p, IsPacket(p), NEW at
    PROVE  Work(HandleL4(x, p, at), n)
<1>1. /\ Work(HandleTcp(x, p, at), n) /\ Work(HandleUdp(x, p), n)
      /\ Work(MatchPacket(x, p, FALSE), n)
  BY HandleTcpKept, HandleUdpKept, DetectorsKept
<1>2. HandleL4(x, p, at) \in {HandleTcp(x, p, at), HandleUdp(x, p), MatchPacket(x, p, FALSE), x}
  BY DEF HandleL4
<1>3. QED BY <1>1, <1>2

\* The datagram that was put together is a packet: each of its bytes came with one.
LEMMA ReassembledIsPacket ==
    ASSUME NEW n \in Nat, NEW entry, EntryKept(entry, n), IsComplete(entry),
           \A i \in 1..n : IsPacket(traffic'[i].input)
    PROVE  IsPacket(Reassembled(entry))
<1>1. PICK total \in Nat : total = entry.total /\ total >= 1
  BY CompleteIsWhole
<1>2. \A p \in 1..total : entry.buf[p] \in Byte(n)
  BY <1>1, CompleteIsWhole
<1>3. \A p \in 1..total : entry.buf[p].from \in 1..n /\ entry.buf[p].byte \in Nat
  BY <1>2 DEF Byte
<1>4. PICK first : first = traffic'[entry.buf[1].from].input /\ IsPacket(first)
  <2>1. 1 \in 1..total
    BY <1>1
  <2>2. QED BY <1>3, <2>1
<1>5. PICK data : data = [i \in 1..total |-> entry.buf[i].byte]
  OBVIOUS
<1>6. data \in Seq(Nat)
  <2>1. data \in [1..total -> Nat]
    BY <1>3, <1>5
  <2>2. QED BY <1>1, <2>1
<1>7. PICK frag : frag = NoFragment
  OBVIOUS
<1>8. frag \in [id : Nat, off : Nat, more : BOOLEAN]
  BY <1>7 DEF NoFragment
<1>9. PICK p : p = [first EXCEPT !.frag = frag, !.data = data]
  OBVIOUS
<1>10. DOMAIN p = DOMAIN first /\ p.frag = frag /\ p.data = data /\ p.seq = first.seq
  BY <1>4, <1>9 DEF IsPacket
<1>11. IsPacket(p)
  BY <1>4, <1>6, <1>8, <1>10 DEF IsPacket
<1>12. Reassembled(entry) = p
  BY <1>1, <1>4, <1>5, <1>7, <1>9 DEF Reassembled
<1>13. QED BY <1>11, <1>12

\* What add_fragment returns is taken over: a datagram that is whole is recorded.
LEMMA TakeFragmentKept ==
    ASSUME NEW n \in Nat, NEW x, Work(x, n), NEW r, DefragResult(r, n)
    PROVE  Work(TakeFragment(x, r), n)
<1>1. PICK e : e = [x.e EXCEPT !.defrag = r.defrag]
  OBVIOUS
<1>2. EthKept(e, n, x.lives)
  BY <1>1 DEF Work, EthKept, DefragResult
<1>3. PICK ds : ds = x.datagrams \o r.complete
  OBVIOUS
<1>4. DatagramsKept(ds)
  <2>1. CASE r.complete = <<>>
    <3>1. x.datagrams \in Seq(ToSet(x.datagrams))
      BY DEF Work, DatagramsKept, IsSeq
    <3>2. ds = x.datagrams
      BY <1>3, <2>1, <3>1
    <3>3. QED BY <3>2 DEF Work
  <2>2. CASE r.complete # <<>>
    <3>1. PICK entry : r.complete = <<entry>> /\ Whole(entry)
      BY <2>2, CompleteIsWhole DEF DefragResult
    <3>2. IsSeq(x.datagrams) /\ \A i \in DOMAIN x.datagrams : Whole(x.datagrams[i])
      BY DEF Work, DatagramsKept
    <3>3. ds = x.datagrams \o <<entry>>
      BY <1>3, <3>1
    <3>4. QED BY <3>1, <3>2, <3>3, SeqsJoined, SingleSeq, OneMore DEF DatagramsKept
  <2>3. QED BY <2>1, <2>2
<1>5. PICK y : y = [x EXCEPT !.datagrams = ds]
  OBVIOUS
<1>6. Work(y, n) /\ y.lives = x.lives
  BY <1>4, <1>5 DEF Work
<1>7. PICK z : z = Then(y, e, When(r.evicted, "reassembly", "defrag", 0)) /\ Work(z, n)
  BY <1>2, <1>6, ThenKept, WhenIsSeq
<1>8. TakeFragment(x, r) = z
  BY <1>1, <1>3, <1>5, <1>7 DEF TakeFragment
<1>9. QED BY <1>7, <1>8

\* handle_fragment passes on such a datagram.
LEMMA HandleFragmentKept ==
    ASSUME NEW n \in Nat, NEW x, Work(x, n), IsSeq(scenario.rules), NEW at,
           NEW r, DefragResult(r, n), \A i \in 1..n : IsPacket(traffic'[i].input)
    PROVE  Work(HandleFragment(x, at, r), n)
<1>1. PICK z : z = TakeFragment(x, r) /\ Work(z, n)
  BY TakeFragmentKept
<1>2. CASE r.complete = <<>>
  BY <1>1, <1>2 DEF HandleFragment, TakeDatagram
<1>3. CASE r.complete # <<>>
  <2>1. PICK p : p = Reassembled(r.complete[1]) /\ IsPacket(p)
    BY <1>3, ReassembledIsPacket DEF DefragResult
  <2>2. Work(HandleL4(z, p, at), n)
    BY <1>1, <2>1, HandleL4Kept
  <2>3. HandleFragment(x, at, r) = HandleL4(z, p, at)
    BY <1>1, <1>3, <2>1 DEF HandleFragment, TakeDatagram
  <2>4. QED BY <2>2, <2>3
<1>4. QED BY <1>2, <1>3

-----------------------------------------------------------------------------
\* The invariant of the Ethernet probe: what is being put together is not complete,
\* what was is whole, and the streams are in order.
EthInv ==
    /\ scenario \in Scenarios
    /\ IsSeq(traffic)
    /\ scenario.probe = "eth" => \A i \in DOMAIN traffic : IsPacket(traffic[i].input)
    /\ EthKept(eth, Len(traffic), lives) /\ DatagramsKept(datagrams)

\* A step reports these alerts.
Reports == \E alerts, at : IsSeq(alerts) /\ Report(alerts, at)

\* A frame that is captured is a packet, and is recorded.
LEMMA TrafficGrows ==
    ASSUME EthInv, scenario.probe = "eth", NEW p \in scenario.inputs, NEW at, Capture(p, at)
    PROVE  /\ IsPacket(p) /\ scenario' = scenario
           /\ IsSeq(traffic') /\ Len(traffic') \in Nat \ {0}
           /\ \A i \in 1..Len(traffic') : IsPacket(traffic'[i].input)
           /\ DOMAIN traffic' = 1..Len(traffic')
           /\ EthKept(eth, Len(traffic'), lives)
<1>1. IsPacket(p)
  BY ScenarioAssumption DEF EthInv
<1>2. PICK e : e = [input |-> p, at |-> at] /\ traffic' = Append(traffic, e) /\ e.input = p
  BY DEF Capture, Fed
<1>3. PICK T : traffic \in Seq(T) /\ e \in T /\ traffic' \in Seq(T)
  <2>1. PICK T : T = ToSet(traffic) \cup {e}
    OBVIOUS
  <2>2. \A U : U \subseteq T => Seq(U) \subseteq Seq(T)
    OBVIOUS
  <2>3. traffic \in Seq(T) /\ e \in T
    BY <2>1, <2>2 DEF EthInv, IsSeq
  <2>4. QED BY <1>2, <2>3
<1>4. PICK n \in Nat : n = Len(traffic) /\ DOMAIN traffic = 1..n /\ Len(traffic') = n + 1
                       /\ DOMAIN traffic' = 1..(n + 1)
                       /\ \A i \in 1..n : traffic'[i] = traffic[i]
                       /\ traffic'[n + 1] = e
  BY <1>2, <1>3
<1>5. \A i \in 1..(n + 1) : IsPacket(traffic'[i].input)
  <2>1. \A i \in 1..n : IsPacket(traffic[i].input)
    BY <1>4 DEF EthInv
  <2>2. \A i \in 1..(n + 1) : i \in 1..n \/ i = n + 1
    BY <1>4
  <2>3. QED BY <1>1, <1>2, <1>4, <2>1, <2>2
<1>6. EthKept(eth, n + 1, lives)
  BY <1>4, DefragGrows DEF EthInv, EthKept
<1>7. IsSeq(traffic')
  BY <1>3, AnySeq
<1>8. scenario' = scenario
  BY DEF Capture
<1>9. QED BY <1>1, <1>4, <1>5, <1>6, <1>7, <1>8

\* What a frame starts with.
LEMMA BeforeIsWork ==
    ASSUME NEW n, EthKept(eth, n, lives), DatagramsKept(datagrams)
    PROVE  Work(Before, n)
<1>1. PICK x : x = Before
  OBVIOUS
<1>2. DirStateKept(NewDirState)
  <2>1. <<>> \in Seq(Nat)
    OBVIOUS
  <2>2. PICK s : s = NewDirState
    OBVIOUS
  <2>3. DOMAIN s = {"tail", "acc", "checked", "bad", "done"} /\ s.acc = <<>>
    BY <2>2 DEF NewDirState
  <2>4. QED BY <2>1, <2>2, <2>3 DEF DirStateKept
<1>3. /\ DOMAIN x = {"e", "alerts", "ds", "lives", "datagrams"} /\ x.e = eth /\ x.alerts = <<>>
      /\ x.ds = NewDirState /\ x.datagrams = datagrams /\ x.lives = lives
  BY <1>1 DEF Before
<1>4. QED BY <1>1, <1>2, <1>3, SingleSeq DEF Work

\* The fragment of a frame is added.
LEMMA FragmentResultKept ==
    ASSUME NEW n \in Nat \ {0}, n = Len(traffic'), NEW p, IsPacket(p), NEW at, EthKept(eth, n, lives)
    PROVE  DefragResult(FragmentResult(p, at), n)
<1>1. PICK bytes : bytes = [i \in DOMAIN p.data |-> [from |-> n, byte |-> p.data[i]]]
  OBVIOUS
<1>2. bytes \in Seq(Byte(n))
  <2>1. p.data \in Seq(Nat)
    BY DEF IsPacket
  <2>2. PICK m \in Nat : DOMAIN p.data = 1..m /\ \A i \in 1..m : p.data[i] \in Nat
    BY <2>1
  <2>3. n \in 1..n
    OBVIOUS
  <2>4. bytes \in [1..m -> Byte(n)]
    BY <1>1, <2>2, <2>3 DEF Byte
  <2>5. QED BY <2>4
<1>3. p.frag.off \in Nat /\ p.frag.more \in BOOLEAN
  BY DEF IsPacket
<1>4. PICK frag : frag = [off |-> p.frag.off, more |-> p.frag.more, bytes |-> bytes]
  OBVIOUS
<1>5. frag \in FragmentOf(n)
  BY <1>2, <1>3, <1>4 DEF FragmentOf
<1>6. PICK key : key = <<p.src, p.dst, p.frag.id, p.kind>>
  OBVIOUS
<1>7. FragmentResult(p, at) = AddFragment(eth.defrag, key, frag, at)
  BY <1>1, <1>4, <1>6 DEF FragmentResult
<1>8. QED BY <1>5, <1>7, AddFragmentKept DEF EthKept

\* The state at the end of a frame, when live after tick().
LEMMA FoldKept ==
    ASSUME NEW n \in Nat, NEW x, Work(x, n), NEW at, Fold(x, at)
    PROVE  EthKept(eth', n, lives') /\ DatagramsKept(datagrams') /\ Reports
<1>1. Reports /\ datagrams' = x.datagrams /\ lives' = x.lives /\ eth' = Ticked(x.e, at)
  BY DEF Fold, Work, Reports
<1>2. PICK defrag, tcp : defrag = ExpireDefrag(x.e.defrag, at) /\ DefragKept(defrag, n)
                         /\ tcp = ExpireFlows(x.e.tcp, at) /\ TcpKept(tcp)
                         /\ StreamsKept(tcp, x.lives)
  BY ExpireDefragKept, ExpireFlowsKept, StreamsOthers DEF Work, EthKept
<1>3. PICK e : e = [x.e EXCEPT !.defrag = defrag, !.tcp = tcp]
  OBVIOUS
<1>4. EthKept(e, n, x.lives)
  BY <1>2, <1>3 DEF Work, EthKept
<1>5. Ticked(x.e, at) \in {x.e, e}
  BY <1>2, <1>3 DEF Ticked
<1>6. QED BY <1>1, <1>4, <1>5 DEF Work

\* A frame keeps the invariant, and reports a sequence of alerts.
LEMMA FrameKept ==
    ASSUME EthInv, scenario.probe = "eth", FeedEthernet
    PROVE  EthInv' /\ Reports
<1>1. PICK p \in scenario.inputs, at \in TimeStamps :
        /\ Capture(p, at)
        /\ FeedTrusted(p, at) \/ FeedArpFrame(p, at) \/ FeedFragment(p, at) \/ FeedPacket(p, at)
  BY DEF FeedEthernet
<1>2. PICK n \in Nat \ {0} :
        /\ n = Len(traffic') /\ DOMAIN traffic' = 1..n /\ IsSeq(traffic')
        /\ \A i \in 1..n : IsPacket(traffic'[i].input)
        /\ EthKept(eth, n, lives) /\ IsPacket(p) /\ scenario' = scenario
  BY <1>1, TrafficGrows
<1>3. IsSeq(scenario.rules)
  BY ScenarioAssumption DEF EthInv, IsSeq
<1>4. Work(Before, n) /\ n \in Nat
  BY <1>2, BeforeIsWork DEF EthInv
<1>5. Work(FeedArp(Before, p, at), n) /\ Work(FromIp(p, at), n)
  <2>1. Work(FeedRate(Before, p, at), n) /\ Work(FeedArp(Before, p, at), n)
    BY <1>3, <1>4, DetectorsKept
  <2>2. QED BY <1>3, <2>1, DetectorsKept DEF FromIp
<1>6. Work(HandleL4(FromIp(p, at), p, at), n)
  BY <1>2, <1>3, <1>5, HandleL4Kept
<1>7. Work(HandleFragment(FromIp(p, at), at, FragmentResult(p, at)), n)
  <2>1. DefragResult(FragmentResult(p, at), n)
    BY <1>2, FragmentResultKept
  <2>2. QED BY <1>2, <1>3, <1>4, <1>5, <2>1, HandleFragmentKept
<1>8. PICK x : Work(x, n) /\ Fold(x, at)
  BY <1>1, <1>4, <1>5, <1>6, <1>7 DEF FeedTrusted, FeedArpFrame, FeedFragment, FeedPacket
<1>9. EthKept(eth', n, lives') /\ DatagramsKept(datagrams') /\ Reports
  BY <1>4, <1>8, FoldKept
<1>10. EthInv'
  BY <1>2, <1>9 DEF EthInv
<1>11. QED BY <1>9, <1>10

\* What no step of another probe or of the main program does to this one.
LEMMA OthersLeave ==
    ASSUME [Next]_vars, ~EthNext
    PROVE  /\ UNCHANGED ethVars /\ scenario' = scenario
           /\ traffic' = traffic \/ (scenario.probe # "eth" /\ \E e : traffic' = Append(traffic, e))
<1> DEFINE Goal == /\ UNCHANGED ethVars /\ scenario' = scenario
                   /\ \/ traffic' = traffic
                      \/ scenario.probe # "eth" /\ \E e : traffic' = Append(traffic, e)
<1>1. CASE (MainNext \/ OpensOrEnds) /\ UNCHANGED ethVars
  <2> USE <1>1 DEF historyVars, engineVars
  <2>1. CASE OpenFails \/ OpensOrEnds
    BY <2>1 DEF OpenFails, OpensOrEnds, Opens, CaptureEnds
  <2>2. CASE OnSignal
    BY <2>2 DEF OnSignal
  <2>3. CASE Engine
    BY <2>3 DEF Engine, Stage, Release, mainVars
  <2>4. CASE Tick
    BY <2>4 DEF Tick
  <2>5. CASE Shutdown
    BY <2>5 DEF Shutdown, Flush, Sleep, RmDeInit, MDeInit
  <2>6. QED BY <2>1, <2>2, <2>3, <2>4, <2>5 DEF MainNext
<1>2. CASE CanNext
  <2>1. UNCHANGED ethVars /\ \E f \in scenario.inputs, at \in TimeStamps : Capture(f, at)
    BY <1>2 DEF CanNext, FeedFrame
  <2>2. QED BY <1>2, <2>1 DEF Capture, Fed, CanNext
<1>3. CASE HostOnly
  <2>1. UNCHANGED ethVars /\ scenario.probe = "host" /\ HostNext
    BY <1>3 DEF HostOnly
  <2> SUFFICES scenario' = scenario /\ (traffic' = traffic \/ \E e : traffic' = Append(traffic, e))
    BY <2>1
  <2> USE DEF historyVars, mainVars, probeVars
  <2>2. CASE HostOpens \/ ReplayEnds \/ HostCaptureEnds
    BY <2>2 DEF HostOpens, Opens, ReplayEnds, CaptureEnds, HostCaptureEnds
  <2>3. CASE \E pid \in Pids : Death(pid) \/ \E program \in scenario.inputs : Birth(pid, program)
    BY <2>3 DEF Death, Birth
  <2>4. CASE SystemChange \/ NetlinkEnds \/ PassBegins \/ PassSleeps \/ Visit \/ VisitFails
    BY <2>4 DEF SystemChange, NetlinkEnds, PassBegins, PassSleeps, Visit, VisitFails
  <2>5. CASE Receive
    BY <2>5 DEF Receive, FeedExec, Fed
  <2>6. CASE VisitNew
    BY <2>6 DEF VisitNew, FeedExec, Fed
  <2>7. CASE PassEnds
    BY <2>7 DEF PassEnds
  <2>8. CASE ReplayExec
    BY <2>8 DEF ReplayExec, FeedExec, Fed
  <2>9. CASE ReplayFile
    BY <2>9 DEF ReplayFile
  <2>10. QED BY <2>1, <2>2, <2>3, <2>4, <2>5, <2>6, <2>7, <2>8, <2>9 DEF HostNext
<1>4. CASE UNCHANGED vars
  BY <1>4 DEF vars, probeVars, mainVars, historyVars
<1>5. QED BY <1>1, <1>2, <1>3, <1>4 DEF Next

\* Every step keeps the invariant.
LEMMA EthStep ==
    ASSUME EthInv, [Next]_vars
    PROVE  EthInv'
<1>1. CASE EthNext
  BY <1>1, FrameKept DEF EthNext
<1>2. CASE ~EthNext
  <2>1. /\ UNCHANGED ethVars /\ scenario' = scenario
        /\ traffic' = traffic \/ (scenario.probe # "eth" /\ \E e : traffic' = Append(traffic, e))
    BY <1>2, OthersLeave
  <2>2. CASE traffic' = traffic
    BY <2>1, <2>2 DEF EthInv, ethVars
  <2>3. ASSUME scenario.probe # "eth", NEW e, traffic' = Append(traffic, e) PROVE EthInv'
    <3>1. IsSeq(traffic') /\ traffic \in Seq(ToSet(traffic))
      BY <2>3, SeqExtended DEF EthInv, IsSeq
    <3>2. PICK n \in Nat : n = Len(traffic) /\ Len(traffic') = n + 1
      <4>1. PICK T : traffic \in Seq(T) /\ e \in T
        <5>1. PICK T : T = ToSet(traffic) \cup {e}
          OBVIOUS
        <5>2. \A U : U \subseteq T => Seq(U) \subseteq Seq(T)
          OBVIOUS
        <5>3. QED BY <3>1, <5>1, <5>2
      <4>2. QED BY <2>3, <4>1
    <3>3. EthKept(eth, n + 1, lives)
      BY <3>2, DefragGrows DEF EthInv, EthKept
    <3>4. QED BY <2>1, <2>3, <3>1, <3>2, <3>3 DEF EthInv, ethVars
  <2>4. QED BY <2>1, <2>2, <2>3
<1>3. QED BY <1>1, <1>2

\* The invariant holds at the start.
LEMMA EthStarts ==
    ASSUME Init
    PROVE  EthInv
<1>1. scenario \in Scenarios /\ traffic = <<>> /\ datagrams = <<>> /\ lives = <<>>
  BY DEF Init, InitMain, InitEth
<1>2. PICK e : e = eth
  OBVIOUS
<1>3. /\ DOMAIN e = {"rates", "scans", "bindings", "storms", "crossings", "sessions",
                     "defrag", "tcp", "apps"}
      /\ e.defrag = EmptyDefrag /\ e.tcp = EmptyTcp /\ e.apps = <<>>
  BY <1>2 DEF Init, InitEth
<1>4. DefragKept(EmptyDefrag, 0)
  BY EmptyDefragKept
<1>5. TcpKept(EmptyTcp)
  BY EmptyTcpKept
<1>6. EthKept(eth, Len(traffic), lives)
  <2>1. Len(traffic) = 0
    BY <1>1
  <2>2. StreamsKept(e.tcp, lives)
    BY <1>1, <1>3, NoStreams
  <2>3. QED BY <1>2, <1>3, <1>4, <1>5, <2>1, <2>2 DEF EthKept
<1>7. DatagramsKept(datagrams) /\ IsSeq(traffic)
  <2>1. IsSeq(<<>>)
    BY SingleSeq
  <2>2. DOMAIN datagrams = {}
    BY <1>1
  <2>3. QED BY <1>1, <2>1, <2>2 DEF DatagramsKept
<1>8. QED BY <1>1, <1>6, <1>7 DEF EthInv

\* Whatever fragments come, in whatever order, doubled, overlapping, cut and evicted,
\* a datagram that is passed on is made of the first bytes that came and has no hole,
\* and one that has all its bytes is not kept: for any traffic, rules, limits and caps.
THEOREM DatagramsStayWhole == Spec => []DatagramsWhole
<1>1. Init => EthInv
  BY EthStarts
<1>2. EthInv /\ [Next]_vars => EthInv'
  BY EthStep
<1>3. EthInv => DatagramsWhole
  <2> SUFFICES ASSUME EthInv PROVE DatagramsWhole
    OBVIOUS
  <2>1. \A i \in DOMAIN datagrams : Whole(datagrams[i])
    BY DEF EthInv, DatagramsKept
  <2>2. PICK n \in Nat : DefragKept(eth.defrag, n)
    <3>1. Len(traffic) \in Nat
      BY DEF EthInv, IsSeq
    <3>2. QED BY <3>1 DEF EthInv, EthKept
  <2>3. \A k \in DOMAIN eth.defrag.table :
            eth.defrag.table[k].total > 0 =>
                \E p \in DOMAIN eth.defrag.table[k].buf : FirstSeen(eth.defrag.table[k].frags, p) = Hole
    BY <2>2, NotYetWhole DEF DefragKept, EntriesKept
  <2>4. QED BY <2>1, <2>3 DEF DatagramsWhole, Whole
<1>4. QED BY <1>1, <1>2, <1>3, PTL DEF Spec

\* In whatever order fragments and segments come, overlap, wait, are delivered, evicted
\* and expire, the pools count what is buffered, neither grows over its caps, and the
\* lru lists name each entry once: for any traffic, rules, limits and caps.
THEOREM PoolsStayBounded == Spec => []PoolsBounded
<1>1. Init => EthInv
  BY EthStarts
<1>2. EthInv /\ [Next]_vars => EthInv'
  BY EthStep
<1>3. EthInv => PoolsBounded
  <2> SUFFICES ASSUME EthInv PROVE PoolsBounded
    OBVIOUS
  <2>1. PICK n \in Nat : DefragKept(eth.defrag, n)
    <3>1. Len(traffic) \in Nat
      BY DEF EthInv, IsSeq
    <3>2. QED BY <3>1 DEF EthInv, EthKept
  <2>2. PICK d : d = eth.defrag /\ DefragKept(d, n)
    BY <2>1
  <2>3. DefragBounded(d)
    <3>1. DefragExact(d) /\ d.mem <= MaxDefragMem /\ Cardinality(DOMAIN d.table) <= MaxDatagrams
      BY <2>2 DEF DefragKept, DefragPooled
    <3>2. d.mem = MapThenSumSet(LAMBDA k : Len(d.table[k].buf), DOMAIN d.table)
      BY <3>1, BufSum DEF DefragExact
    <3>3. ToSet(d.lru) = DOMAIN d.table /\ Len(d.lru) = Cardinality(DOMAIN d.table)
      BY <3>1, ListsLength DEF DefragExact
    <3>4. QED BY <3>1, <3>2, <3>3 DEF DefragBounded
  <2>4. PICK t : t = eth.tcp /\ TcpKept(t)
    BY DEF EthInv, EthKept
  <2>5. TcpBounded(t)
    <3>1. /\ TcpExact(t) /\ StreamsCapped(t)
          /\ t.mem <= MaxTcpMem /\ Cardinality(DOMAIN t.flows) <= MaxFlows
      BY <2>4 DEF TcpKept, TcpPooled
    <3>2. t.mem = MapThenSumSet(LAMBDA k : HeldBy(t.flows[k]), DOMAIN t.flows)
      BY <3>1, FlowSum DEF TcpExact
    <3>3. ToSet(t.lru) = DOMAIN t.flows /\ Len(t.lru) = Cardinality(DOMAIN t.flows)
      BY <3>1, ListsLength DEF TcpExact
    <3>4. \A k \in DOMAIN t.flows, i \in 0..1 : Held(t.flows[k].dir[i]) <= MaxStreamBytes
      BY <3>1 DEF StreamsCapped
    <3>5. QED BY <3>1, <3>2, <3>3, <3>4 DEF TcpBounded
  <2>6. QED BY <2>2, <2>3, <2>4, <2>5 DEF PoolsBounded
<1>4. QED BY <1>1, <1>2, <1>3, PTL DEF Spec

\* The invariant says that the streams are in order.
LEMMA EthOrdered ==
    ASSUME EthInv
    PROVE  StreamsInOrder
<1>1. StreamsKept(eth.tcp, lives)
  BY DEF EthInv, EthKept
<1>2. ASSUME NEW n \in DOMAIN lives, NEW i \in 0..1, NEW j \in 1..(Len(lives[n].got[i]) - 1)
      PROVE  (lives[n].got[i][j + 1].at - lives[n].got[i][j].at) % SeqSpace
                 \in 1..((SeqSpace \div 2) + 2)
  <2>1. Rising(lives[n].got[i])
    BY <1>1 DEF StreamsKept, LivesKept, Risen
  <2>2. QED BY <2>1 DEF Rising, Ahead, Half
<1>3. ASSUME NEW f \in DOMAIN eth.tcp.flows, NEW i \in 0..1
      PROVE  NothingNext(eth.tcp.flows[f].dir[i])
  <2>1. FlowInOrder(eth.tcp.flows[f], lives)
    BY <1>1 DEF StreamsKept
  <2>2. QED BY <2>1 DEF FlowInOrder, InOrder
<1>4. QED BY <1>2, <1>3 DEF StreamsInOrder, NothingNext

\* In whatever order segments come, overlap, are doubled, lost, wait and are skipped,
\* with or without SYN, FIN and RST, and however often the numbers wrap: a byte that is
\* delivered is ahead of the one that was delivered before it in its stream, by half the
\* sequence space and two at most, and what is held back does wait behind a gap.
THEOREM StreamsStayInOrder == Spec => []StreamsInOrder
<1>1. Init => EthInv
  BY EthStarts
<1>2. EthInv /\ [Next]_vars => EthInv'
  BY EthStep
<1>3. EthInv => StreamsInOrder
  BY EthOrdered
<1>4. QED BY <1>1, <1>2, <1>3, PTL DEF Spec

-----------------------------------------------------------------------------
\* The shutdown.

Active == {"ready", "capture", "flush", "sleep"}

EngineTyped ==
    /\ clock \in Nat /\ wake \in Nat /\ IsSeq(ingress)
    /\ staged \in [Sevs -> [count : Nat, due : Nat]] /\ owed \in [Sevs -> Nat]

\* What is owed is in the queue or in a window, as long as the sink is there.
Owing == phase \in Active => \A s \in Sevs : owed[s] = Times(ingress, s) + staged[s].count

\* No window goes beyond its width.
Windows == \A s \in Sevs : staged[s].count > 0 => staged[s].due <= clock + AggregationWindow

\* When the sleep has begun, all is in a window at the end of the first unit of time,
\* and none of these ends after the sleep.
Drained ==
    phase = "sleep" =>
        /\ wake <= clock + DrainTime
        /\ wake < clock + DrainTime =>
            /\ ingress = <<>>
            /\ \A s \in Sevs : staged[s].count > 0 => clock < wake /\ staged[s].due < wake

EngineInv == EngineTyped /\ Owing /\ Windows /\ Drained /\ TailForwarded

\* The captures of the host probe run only while main() waits for them.
Reporting ==
    /\ "pc" \in DOMAIN scan
    /\ netlink # "off" \/ scan.pc # "top" => scenario.probe = "host" /\ scenario.live
    /\ netlink = "run" \/ scan.pc = "walk" => phase = "capture"

Still == UNCHANGED <<scenario, clock, ingress, staged, owed>>

\* Main goes from one phase to another before the sink is gone.
LEMMA PhaseMoves ==
    ASSUME EngineInv, Still, wake' = wake,
           phase' = phase \/ (phase \in {"ready", "capture"} /\ phase' \in {"capture", "flush"})
    PROVE  EngineInv'
<1> USE DEF Still, Sevs
<1>1. EngineTyped' /\ Windows'
  BY DEF EngineInv, EngineTyped, Windows, IsSeq
<1>2. Owing'
  BY DEF EngineInv, Owing, Active, Times, PlacesOf
<1>3. Drained' /\ TailForwarded'
  BY DEF EngineInv, Drained, TailForwarded
<1>4. QED BY <1>1, <1>2, <1>3 DEF EngineInv

\* Alerts are queued, and owed.
LEMMA ReportKept ==
    ASSUME EngineInv, NEW alerts, IsSeq(alerts), NEW at, Report(alerts, at),
           UNCHANGED <<scenario, clock, wake>>, phase = "capture", phase' \in {"capture", "flush"}
    PROVE  EngineInv'
<1>1. PICK sevs : sevs = [i \in DOMAIN alerts |-> alerts[i].sev]
  OBVIOUS
<1>2. IsSeq(sevs)
  <2>1. alerts \in Seq(ToSet(alerts))
    BY DEF IsSeq
  <2>2. PICK n \in Nat : DOMAIN alerts = 1..n
    BY <2>1
  <2>3. PICK T : T = {alerts[i].sev : i \in 1..n}
    OBVIOUS
  <2>4. sevs \in [1..n -> T]
    BY <1>1, <2>2, <2>3
  <2>5. sevs \in Seq(T)
    BY <2>4
  <2>6. QED BY <2>5, AnySeq
<1>3. /\ ingress' = ingress \o sevs
      /\ owed' = [s \in Sevs |-> owed[s] + Times(sevs, s)]
      /\ staged' = staged
  BY <1>1 DEF Report, Times, PlacesOf
<1>4. Sevs' = Sevs
  BY DEF Sevs
<1>5. \A s \in Sevs : /\ Times(ingress', s) = Times(ingress, s) + Times(sevs, s)
                      /\ Times(ingress, s) \in Nat /\ Times(sevs, s) \in Nat
  <2>1. PICK T : ingress \in Seq(T) /\ sevs \in Seq(T)
    <3>1. PICK T : T = ToSet(ingress) \cup ToSet(sevs)
      OBVIOUS
    <3>2. \A U : U \subseteq T => Seq(U) \subseteq Seq(T)
      OBVIOUS
    <3>3. QED BY <1>2, <3>1, <3>2 DEF IsSeq, EngineInv, EngineTyped
  <2>2. QED BY <1>3, <2>1, TimesJoined, TimesCount
<1>6. EngineTyped'
  <2>1. IsSeq(ingress')
    BY <1>2, <1>3, SeqsJoined DEF EngineInv, EngineTyped
  <2>2. owed' \in [Sevs -> Nat]
    BY <1>3, <1>5 DEF EngineInv, EngineTyped
  <2>3. QED BY <1>3, <1>4, <2>1, <2>2 DEF EngineInv, EngineTyped
<1>7. Owing'
  <2>1. ASSUME NEW s \in Sevs PROVE owed'[s] = Times(ingress', s) + staged'[s].count
    <3>1. owed[s] = Times(ingress, s) + staged[s].count
      BY DEF EngineInv, Owing, Active
    <3>2. owed'[s] = owed[s] + Times(sevs, s)
      BY <1>3
    <3>3. staged[s].count \in Nat
      BY DEF EngineInv, EngineTyped
    <3>4. QED BY <1>3, <1>5, <3>1, <3>2, <3>3
  <2>2. QED BY <1>4, <2>1 DEF Owing
<1>8. Windows'
  BY <1>3, <1>4 DEF EngineInv, Windows
<1>9. Drained' /\ TailForwarded'
  BY DEF Drained, TailForwarded
<1>10. QED BY <1>6, <1>7, <1>8, <1>9 DEF EngineInv

\* A window is emptied into the sink, or into nothing when there is none.
LEMMA HandedOut ==
    ASSUME EngineInv, NEW s, Hand(s, staged[s].count),
           staged' = [staged EXCEPT ![s] = [count |-> 0, due |-> 0]],
           UNCHANGED <<scenario, clock, phase, wake, ingress>>
    PROVE  EngineInv'
<1>1. Sevs' = Sevs /\ \A t \in Sevs : Times(ingress', t) = Times(ingress, t)
  BY DEF Sevs, Times, PlacesOf
<1>2. \A t \in Sevs : /\ staged[t] \in [count : Nat, due : Nat]
                      /\ staged'[t] = IF t = s THEN [count |-> 0, due |-> 0] ELSE staged[t]
  BY DEF EngineInv, EngineTyped
<1>3. staged' \in [Sevs -> [count : Nat, due : Nat]]
  BY <1>2 DEF EngineInv, EngineTyped
<1>4. \A t \in Sevs : Times(ingress, t) \in Nat
  BY TimesCount DEF EngineInv, EngineTyped, IsSeq
<1>5. ASSUME phase \in Active PROVE owed' \in [Sevs -> Nat] /\ Owing' /\ TailForwarded'
  <2>1. owed' = [owed EXCEPT ![s] = owed[s] - staged[s].count]
    BY <1>5 DEF Hand, Active
  <2>2. \A t \in Sevs : owed[t] = Times(ingress, t) + staged[t].count
    BY <1>5 DEF EngineInv, Owing
  <2>3. \A t \in Sevs : owed'[t] = IF t = s THEN owed[t] - staged[t].count ELSE owed[t]
    BY <2>1 DEF EngineInv, EngineTyped
  <2>4. \A t \in Sevs : owed'[t] = Times(ingress, t) + staged'[t].count
    BY <1>2, <1>4, <2>2, <2>3
  <2>5. \A t \in Sevs : owed'[t] \in Nat
    BY <1>2, <1>3, <1>4, <2>4
  <2>6. owed' \in [Sevs -> Nat]
    BY <2>1, <2>5 DEF EngineInv, EngineTyped
  <2>7. Owing'
    BY <1>1, <2>4 DEF Owing
  <2>8. TailForwarded'
    BY <1>5 DEF TailForwarded, Active
  <2>9. QED BY <2>6, <2>7, <2>8
<1>6. ASSUME phase \notin Active PROVE owed' \in [Sevs -> Nat] /\ Owing' /\ TailForwarded'
  <2>1. owed' = owed
    BY <1>6 DEF Hand, Active
  <2>2. Owing' /\ TailForwarded'
    BY <1>1, <1>6, <2>1 DEF EngineInv, Owing, TailForwarded
  <2>3. QED BY <2>1, <2>2 DEF EngineInv, EngineTyped
<1>7. owed' \in [Sevs -> Nat] /\ Owing' /\ TailForwarded'
  BY <1>5, <1>6
<1>8. EngineTyped'
  BY <1>1, <1>3, <1>7 DEF EngineInv, EngineTyped, IsSeq
<1>9. Windows' /\ Drained'
  BY <1>1, <1>2 DEF EngineInv, Windows, Drained
<1>10. QED BY <1>7, <1>8, <1>9 DEF EngineInv

\* An event moves from the queue to its window.
LEMMA StageKept ==
    ASSUME EngineInv, Stage
    PROVE  EngineInv'
<1> USE DEF mainVars
<1>1. PICK s : s = Head(ingress)
  OBVIOUS
<1>2. PICK due : due = IF staged[s].count = 0 THEN clock + AggregationWindow ELSE staged[s].due
  OBVIOUS
<1>3. /\ ingress # <<>> /\ ingress' = Tail(ingress)
      /\ staged' = [staged EXCEPT ![s].count = @ + 1, ![s].due = due]
      /\ UNCHANGED <<scenario, clock, phase, wake, owed>>
  BY <1>1, <1>2 DEF Stage
<1>4. Sevs' = Sevs
  BY <1>3 DEF Sevs
<1>5. \A t \in Sevs : staged[t] \in [count : Nat, due : Nat]
  BY DEF EngineInv, EngineTyped
<1>6. \A t \in Sevs :
        /\ DOMAIN staged'[t] = {"count", "due"}
        /\ staged'[t].count = IF t = s THEN staged[t].count + 1 ELSE staged[t].count
        /\ staged'[t].due = IF t = s THEN due ELSE staged[t].due
  <2>1. ASSUME NEW t \in Sevs
        PROVE  staged'[t] = IF t = s THEN [staged[t] EXCEPT !.count = staged[t].count + 1, !.due = due]
                            ELSE staged[t]
    BY <1>3 DEF EngineInv, EngineTyped
  <2>2. QED BY <1>5, <2>1
<1>7. s \in Sevs => due \in Nat /\ due <= clock + AggregationWindow
  <2>1. clock \in Nat /\ clock + AggregationWindow \in Nat
    BY DEF EngineInv, EngineTyped, AggregationWindow
  <2>2. ASSUME s \in Sevs, staged[s].count # 0 PROVE staged[s].due <= clock + AggregationWindow
    <3>1. staged[s].count > 0
      BY <1>5, <2>2
    <3>2. QED BY <2>2, <3>1 DEF EngineInv, Windows
  <2>3. QED BY <1>2, <1>5, <2>1, <2>2
<1>8. \A t \in Sevs :
        /\ Times(ingress', t) = IF t = s THEN Times(ingress, t) - 1 ELSE Times(ingress, t)
        /\ Times(ingress, t) \in Nat
  BY <1>1, <1>3, TimesOfTail, TimesCount DEF EngineInv, EngineTyped, IsSeq
<1>9. EngineTyped'
  <2>1. IsSeq(ingress')
    <3>1. ingress' \in Seq(ToSet(ingress))
      BY <1>3, HeadAndTail DEF EngineInv, EngineTyped, IsSeq
    <3>2. QED BY <3>1, AnySeq
  <2>2. ASSUME NEW t \in Sevs PROVE staged'[t] \in [count : Nat, due : Nat]
    <3>1. PICK e : e = staged'[t]
      OBVIOUS
    <3>2. e.count \in Nat /\ e.due \in Nat
      BY <1>5, <1>6, <1>7, <3>1
    <3>3. e = [count |-> e.count, due |-> e.due]
      <4>1. staged'[t] = IF t = s THEN [staged[t] EXCEPT !.count = staged[t].count + 1, !.due = due]
                         ELSE staged[t]
        BY <1>3 DEF EngineInv, EngineTyped
      <4>2. staged[t] \in [count : Nat, due : Nat]
        BY <1>5
      <4>3. QED BY <3>1, <4>1, <4>2
    <3>4. QED BY <3>1, <3>2, <3>3
  <2>3. staged' \in [Sevs -> [count : Nat, due : Nat]]
    BY <1>3, <2>2 DEF EngineInv, EngineTyped
  <2>4. QED BY <1>3, <1>4, <2>1, <2>3 DEF EngineInv, EngineTyped
<1>10. Owing'
  <2>1. ASSUME phase \in Active, NEW t \in Sevs
        PROVE  owed'[t] = Times(ingress', t) + staged'[t].count
    <3>1. owed[t] = Times(ingress, t) + staged[t].count
      BY <2>1 DEF EngineInv, Owing
    <3>2. staged'[t].count = IF t = s THEN staged[t].count + 1 ELSE staged[t].count
      BY <1>6
    <3>3. staged[t].count \in Nat
      BY <1>5
    <3>4. owed'[t] = owed[t]
      BY <1>3
    <3>5. CASE t = s
      BY <1>8, <3>1, <3>2, <3>3, <3>4, <3>5
    <3>6. CASE t # s
      BY <1>8, <3>1, <3>2, <3>3, <3>4, <3>6
    <3>7. QED BY <3>5, <3>6
  <2>2. QED BY <1>3, <1>4, <2>1 DEF Owing
<1>11. Windows'
  <2>1. ASSUME NEW t \in Sevs, staged'[t].count > 0 PROVE staged'[t].due <= clock + AggregationWindow
    <3>1. CASE t = s
      BY <1>6, <1>7, <3>1
    <3>2. CASE t # s
      BY <1>6, <2>1, <3>2 DEF EngineInv, Windows
    <3>3. QED BY <3>1, <3>2
  <2>2. QED BY <1>3, <1>4, <2>1 DEF Windows
<1>12. Drained'
  BY <1>3 DEF EngineInv, Drained
<1>13. TailForwarded'
  BY <1>3, <1>4 DEF EngineInv, TailForwarded
<1>14. QED BY <1>9, <1>10, <1>11, <1>12, <1>13 DEF EngineInv

\* Time passes only when nothing is left to do: what is in a window then has
\* begun to wait at this very time.
LEMMA TickKept ==
    ASSUME EngineInv, Tick
    PROVE  EngineInv'
<1>1. /\ clock' = clock + 1 /\ ingress = <<>> /\ \A s \in Sevs : ~Due(s)
      /\ UNCHANGED <<scenario, phase, wake, ingress, staged, owed>>
  BY DEF Tick, engineVars
<1>2. Sevs' = Sevs
  BY <1>1 DEF Sevs
<1>3. clock \in Nat /\ wake \in Nat /\ \A s \in Sevs : staged[s] \in [count : Nat, due : Nat]
  BY DEF EngineInv, EngineTyped
<1>4. EngineTyped'
  BY <1>1, <1>2, <1>3 DEF EngineInv, EngineTyped, IsSeq
<1>5. Owing' /\ TailForwarded'
  BY <1>1, <1>2 DEF EngineInv, Owing, TailForwarded, Times, PlacesOf
<1>6. \A s \in Sevs : staged[s].count > 0 =>
        staged[s].due > clock /\ staged[s].due <= clock + 1
  <2>1. \A s \in Sevs : staged[s].count > 0 => ~(staged[s].due <= clock)
    BY <1>1 DEF Due
  <2>2. \A s \in Sevs : staged[s].count > 0 => staged[s].due <= clock + 1
    BY DEF EngineInv, Windows, AggregationWindow
  <2>3. QED BY <1>3, <2>1, <2>2
<1>7. Windows'
  BY <1>1, <1>2, <1>3, <1>6 DEF Windows, AggregationWindow
<1>8. ASSUME phase = "sleep" PROVE Drained'
  <2>1. wake <= clock + 2
    BY <1>8 DEF EngineInv, Drained, DrainTime
  <2>2. wake <= (clock + 1) + 2
    BY <1>3, <2>1
  <2>3. ASSUME NEW s \in Sevs, staged[s].count > 0 PROVE clock + 1 < wake /\ staged[s].due < wake
    <3>1. staged[s].due \in Nat /\ staged[s].due > clock /\ staged[s].due <= clock + 1
      BY <1>3, <1>6, <2>3
    <3>2. wake = clock + 2 \/ wake < clock + 2
      BY <1>3, <2>1
    <3>3. wake < clock + 2 => staged[s].due < wake
      BY <1>8, <2>3 DEF EngineInv, Drained, DrainTime
    <3>4. QED BY <1>3, <3>1, <3>2, <3>3
  <2>4. QED BY <1>1, <1>2, <2>2, <2>3 DEF Drained, DrainTime
<1>9. phase # "sleep" => Drained'
  BY <1>1 DEF Drained
<1>10. QED BY <1>4, <1>5, <1>7, <1>8, <1>9 DEF EngineInv

\* The flush, the sleep, and the end of IdsRm and IdsM.
LEMMA ShutdownKept ==
    ASSUME EngineInv, Shutdown
    PROVE  EngineInv'
<1> USE DEF engineVars
<1>1. CASE Flush
  BY <1>1, HandedOut DEF Flush
<1>2. CASE Sleep
  <2>1. /\ phase = "flush" /\ phase' = "sleep" /\ wake' = clock + DrainTime
        /\ UNCHANGED <<scenario, clock, ingress, staged, owed>>
    BY <1>2 DEF Sleep
  <2>2. Sevs' = Sevs /\ clock \in Nat
    BY <2>1 DEF Sevs, EngineInv, EngineTyped
  <2>3. EngineTyped' /\ Windows'
    BY <2>1, <2>2 DEF EngineInv, EngineTyped, Windows, IsSeq, DrainTime
  <2>4. Owing'
    BY <2>1, <2>2 DEF EngineInv, Owing, Active, Times, PlacesOf
  <2>5. Drained'
    BY <2>1, <2>2 DEF Drained, DrainTime
  <2>6. TailForwarded'
    BY <2>1 DEF TailForwarded
  <2>7. QED BY <2>3, <2>4, <2>5, <2>6 DEF EngineInv
<1>3. CASE RmDeInit
  <2>1. /\ phase = "sleep" /\ phase' = "unregistered" /\ clock >= wake
        /\ UNCHANGED <<scenario, clock, wake, ingress, staged, owed>>
    BY <1>3 DEF RmDeInit
  <2>2. Sevs' = Sevs /\ clock \in Nat /\ wake \in Nat
        /\ \A s \in Sevs : staged[s] \in [count : Nat, due : Nat]
    BY <2>1 DEF Sevs, EngineInv, EngineTyped
  <2>3. ingress = <<>> /\ \A s \in Sevs : ~(staged[s].count > 0)
    <3>1. wake < clock + DrainTime /\ ~(clock < wake)
      BY <2>1, <2>2 DEF DrainTime
    <3>2. QED BY <2>1, <3>1 DEF EngineInv, Drained
  <2>4. \A s \in Sevs : owed[s] = 0
    <3>1. ASSUME NEW s \in Sevs PROVE owed[s] = 0
      <4>1. owed[s] = Times(ingress, s) + staged[s].count
        BY <2>1 DEF EngineInv, Owing, Active
      <4>2. staged[s].count = 0
        BY <2>2, <2>3
      <4>3. Times(ingress, s) = 0
        <5>1. PlacesOf(ingress, s) = {}
          BY <2>3 DEF PlacesOf
        <5>2. QED BY <5>1, FS_EmptySet DEF Times
      <4>4. QED BY <4>1, <4>2, <4>3
    <3>2. QED BY <3>1
  <2>5. EngineTyped' /\ Windows'
    BY <2>1, <2>2 DEF EngineInv, EngineTyped, Windows, IsSeq
  <2>6. Owing' /\ Drained' /\ TailForwarded'
    BY <2>1, <2>2, <2>4 DEF Owing, Active, Drained, TailForwarded
  <2>7. QED BY <2>5, <2>6 DEF EngineInv
<1>4. CASE MDeInit
  <2>1. /\ phase = "unregistered" /\ phase' = "down" /\ ingress' = <<>>
        /\ staged' = [s \in Sevs |-> [count |-> 0, due |-> 0]]
        /\ UNCHANGED <<scenario, clock, wake, owed>>
    BY <1>4 DEF MDeInit
  <2>2. Sevs' = Sevs
    BY <2>1 DEF Sevs
  <2>3. EngineTyped' /\ Windows'
    <3>1. staged' \in [Sevs -> [count : Nat, due : Nat]] /\ \A s \in Sevs : ~(staged'[s].count > 0)
      BY <2>1
    <3>2. IsSeq(ingress')
      BY <2>1, SingleSeq
    <3>3. QED BY <2>1, <2>2, <3>1, <3>2 DEF EngineInv, EngineTyped, Windows
  <2>4. Owing' /\ Drained' /\ TailForwarded'
    BY <2>1, <2>2 DEF EngineInv, Owing, Active, Drained, TailForwarded
  <2>5. QED BY <2>3, <2>4 DEF EngineInv
<1>5. QED BY <1>1, <1>2, <1>3, <1>4 DEF Shutdown

\* The worker of IdsM.
LEMMA EngineKept ==
    ASSUME EngineInv, Engine
    PROVE  EngineInv'
<1>1. CASE Stage
  BY <1>1, StageKept
<1>2. CASE \E s \in Sevs : Release(s)
  BY <1>2, HandedOut DEF Release, mainVars
<1>3. QED BY <1>1, <1>2 DEF Engine

\* The main program and its worker.
LEMMA MainKept ==
    ASSUME EngineInv, Reporting, MainNext \/ OpensOrEnds, UNCHANGED hostVars
    PROVE  EngineInv' /\ Reporting'
<1> USE DEF hostVars, captureVars, engineVars
<1>1. CASE OpenFails \/ OpensOrEnds
  <2>1. /\ Still /\ wake' = wake /\ UNCHANGED <<netlink, scan>>
        /\ \/ scenario.probe # "host"
           \/ phase = "ready"
        /\ phase \in {"ready", "capture"} /\ phase' \in {"capture", "flush"}
    BY <1>1 DEF OpenFails, OpensOrEnds, Opens, CaptureEnds, Still
  <2>2. EngineInv'
    BY <2>1, PhaseMoves
  <2>3. Reporting'
    BY <2>1 DEF Reporting, Still
  <2>4. QED BY <2>2, <2>3
<1>2. CASE OnSignal
  <2>1. Still /\ UNCHANGED <<phase, wake, netlink, scan>>
    BY <1>2 DEF OnSignal, Still
  <2>2. QED BY <2>1, PhaseMoves DEF Reporting, Still
<1>3. CASE Engine
  <2>1. UNCHANGED <<scenario, phase, netlink, scan>>
    BY <1>3 DEF Engine, Stage, Release, mainVars
  <2>2. QED BY <1>3, <2>1, EngineKept DEF Reporting
<1>4. CASE Tick
  <2>1. UNCHANGED <<scenario, phase, netlink, scan>>
    BY <1>4 DEF Tick
  <2>2. QED BY <1>4, <2>1, TickKept DEF Reporting
<1>5. CASE Shutdown
  <2>1. /\ UNCHANGED <<scenario, netlink, scan>> /\ phase # "capture"
    BY <1>5 DEF Shutdown, Flush, Sleep, RmDeInit, MDeInit
  <2>2. QED BY <1>5, <2>1, ShutdownKept DEF Reporting
<1>6. QED BY <1>1, <1>2, <1>3, <1>4, <1>5 DEF MainNext

\* The frame of a probe whose capture is the main thread's.
LEMMA CaptureKept ==
    ASSUME EngineInv, Reporting, scenario.probe # "host", Reports,
           NEW input, NEW at, Capture(input, at), UNCHANGED hostVars
    PROVE  EngineInv' /\ Reporting'
<1>1. /\ UNCHANGED <<scenario, clock, wake, netlink, scan>>
      /\ phase = "capture" /\ phase' \in {"capture", "flush"}
  BY DEF Capture, hostVars, captureVars
<1>2. EngineInv'
  BY <1>1, ReportKept DEF Reports
<1>3. QED BY <1>1, <1>2 DEF Reporting

\* The CAN probe reports sequences of alerts.
LEMMA CanReports ==
    ASSUME NEW f, NEW at, FeedError(f, at) \/ FeedRemote(f, at) \/ FeedData(f, at)
    PROVE  Reports
<1>0. IsSeq(<<>>)
  BY SingleSeq
<1>1. CASE FeedError(f, at) \/ FeedRemote(f, at)
  BY <1>1, WhenIsSeq DEF FeedError, FeedRemote, Reports
<1>2. CASE FeedData(f, at)
  <2>1. PICK others : others = (IF f.id \notin DiagRequests THEN <<>> ELSE
                  When(RaisedBy(can.diag[f.id], at, "diagFlood"), "diagFlood", "diagFlood", f.id)
               \o When(SeedsRaised(f, at), "secAccess", "seedFlood", f.id)
               \o When(KeysRaised(f, at), "secAccess", "keyGuess", f.id)
               \o When(ScanRaised(f, at), "svcScan", "svcScan", f.id))
    OBVIOUS
  <2>2. IsSeq(others)
    BY <1>0, <2>1, WhenIsSeq, SeqsJoined
  <2>3. PICK alerts : alerts =
               When(~f.legal, "dlc", "dlc", f.id)
            \o When(Unknown(f), "unknownId", "unknownId", f.id)
            \o When(TooSoon(f, at), "cycle", "cycle", f.id)
            \o When(RaisedBy(can.ids[f.id], at, "idFlood"), "idFlood", "idFlood", f.id)
            \o When(RaisedBy(can.bus, at, "busFlood"), "busFlood", "busFlood", "bus")
            \o others
    OBVIOUS
  <2>4. IsSeq(alerts)
    BY <2>2, <2>3, WhenIsSeq, SeqsJoined
  <2>5. Report(alerts, at)
    BY <1>2, <2>1, <2>3 DEF FeedData
  <2>6. QED BY <2>4, <2>5 DEF Reports
<1>3. QED BY <1>1, <1>2

\* So do the execs of the host probe.
LEMMA ExecReports ==
    ASSUME NEW e, NEW at, FeedExec(e, at)
    PROVE  Reports
<1>1. PICK execs, shells : /\ execs = UnknownExec(e, at) \o PrivEsc(e, at)
                           /\ shells = RevShell(e, at) \o RootShell(e, at)
  OBVIOUS
<1>2. /\ IsSeq(UnknownExec(e, at)) /\ IsSeq(PrivEsc(e, at)) /\ IsSeq(RevShell(e, at))
      /\ IsSeq(RootShell(e, at)) /\ IsSeq(ForkFlood(at))
  BY WhenIsSeq DEF UnknownExec, PrivEsc, RevShell, RootShell, ForkFlood, MutedAlert
<1>3. IsSeq(execs) /\ IsSeq(shells)
  BY <1>1, <1>2, SeqsJoined
<1>4. IsSeq(execs \o ForkFlood(at) \o shells)
  BY <1>2, <1>3, SeqsJoined
<1>5. Report(execs \o ForkFlood(at) \o shells, at)
  BY <1>1 DEF FeedExec
<1>6. QED BY <1>4, <1>5 DEF Reports

\* A step of the host probe's captures that reports.
LEMMA HostReports ==
    ASSUME EngineInv, Reports, UNCHANGED mainVars, phase = "capture"
    PROVE  EngineInv'
<1>1. UNCHANGED <<scenario, clock, wake, phase>>
  BY DEF mainVars
<1>2. QED BY <1>1, ReportKept DEF Reports

\* The alerts about files are a sequence.
LEMMA FilesAreSeq ==
    ASSUME NEW path, NEW state, NEW at
    PROVE  IsSeq(FileAlerts(path, state, at))
<1>1. IsSeq(FileMod(path, state, at)) /\ IsSeq(NewSetuid(path, state, at))
  BY WhenIsSeq DEF FileMod, NewSetuid, MutedAlert
<1>2. QED BY <1>1, SeqsJoined DEF FileAlerts

\* So are those at the end of a pass.
LEMMA PassReports ==
    ASSUME PassEnds
    PROVE  Reports
<1>1. PICK hog \in scenario.hogs, modules \in ModulesRead, file \in FileRead : TRUE
             /\ LET at == scan.stamp
                    mods == modules \ scan.mods
                    snapshot == IF scan.primed THEN SnapshotAlerts(scan.zombies, hog, at) ELSE <<>>
                    others == (IF scan.primed THEN ModuleAlerts(mods, at) ELSE <<>>)
                              \o FileAlerts("monitored", file, at)
                IN  Report(snapshot \o others, at)
  BY DEF PassEnds
<1>2. PICK at, mods : at = scan.stamp /\ mods = modules \ scan.mods
  OBVIOUS
<1>3. IsSeq(<<>>)
  BY SingleSeq
<1>4. IsSeq(SnapshotAlerts(scan.zombies, hog, at))
  <2>1. IsSeq(ZombieStorm(scan.zombies, at)) /\ IsSeq(ResExhaust(hog, at))
    BY WhenIsSeq DEF ZombieStorm, ResExhaust, MutedAlert
  <2>2. QED BY <2>1, SeqsJoined DEF SnapshotAlerts
<1>5. IsSeq(ModuleAlerts(mods, at))
  BY <1>3, WhenIsSeq DEF ModuleAlerts, MutedAlert
<1>6. PICK snapshot, loaded :
        /\ snapshot = (IF scan.primed THEN SnapshotAlerts(scan.zombies, hog, at) ELSE <<>>)
        /\ loaded = (IF scan.primed THEN ModuleAlerts(mods, at) ELSE <<>>)
        /\ IsSeq(snapshot) /\ IsSeq(loaded)
  BY <1>3, <1>4, <1>5
<1>7. IsSeq(loaded \o FileAlerts("monitored", file, at))
  BY <1>6, FilesAreSeq, SeqsJoined
<1>8. IsSeq(snapshot \o (loaded \o FileAlerts("monitored", file, at)))
  BY <1>6, <1>7, SeqsJoined
<1>9. Report(snapshot \o (loaded \o FileAlerts("monitored", file, at)), at)
  BY <1>1, <1>2, <1>6
<1>10. QED BY <1>8, <1>9 DEF Reports

\* The host probe reports only while main() waits for its captures.
LEMMA HostProbeKept ==
    ASSUME EngineInv, Reporting, scenario.probe = "host", HostNext
    PROVE  EngineInv' /\ Reporting'
<1> USE DEF historyVars, engineVars, mainVars, probeVars, hostVars, captureVars, systemVars
<1>1. CASE HostOpens
  <2>1. /\ Still /\ wake' = wake /\ scan' = scan /\ phase = "ready" /\ phase' = "capture"
        /\ netlink' \in NetlinkOpens
    BY <1>1 DEF HostOpens, Opens, Still
  <2>2. EngineInv'
    BY <2>1, PhaseMoves
  <2>3. Reporting'
    <3>1. netlink' # "off" => scenario.live
      BY <2>1 DEF NetlinkOpens
    <3>2. QED BY <2>1, <3>1 DEF Reporting, Still
  <2>4. QED BY <2>2, <2>3
<1>2. CASE \/ \E pid \in Pids : Death(pid) \/ \E program \in scenario.inputs : Birth(pid, program)
           \/ SystemChange
  <2>1. Still /\ UNCHANGED <<phase, wake, netlink, scan>>
    BY <1>2 DEF Death, Birth, SystemChange, Still
  <2>2. QED BY <2>1, PhaseMoves DEF Reporting, Still
<1>3. CASE Receive
  <2>1. /\ netlink = "run" /\ UNCHANGED mainVars /\ scan' = scan /\ netlink' \in {"run", "ended"}
        /\ \E e : FeedExec(e, clock)
    BY <1>3 DEF Receive
  <2>2. phase = "capture" /\ Reports
    BY <2>1, ExecReports DEF Reporting
  <2>3. QED BY <2>1, <2>2, HostReports DEF Reporting
<1>4. CASE NetlinkEnds \/ PassBegins \/ Visit \/ VisitFails \/ PassSleeps
  <2>1. Still /\ UNCHANGED <<phase, wake>>
    <3>1. CASE PassBegins
      BY Zenon, <3>1 DEF PassBegins, Still
    <3>2. CASE NetlinkEnds \/ Visit \/ VisitFails \/ PassSleeps
      BY <3>2 DEF NetlinkEnds, Visit, VisitFails, PassSleeps, Still
    <3>3. QED BY ONLY <1>4, <3>1, <3>2
  <2>2. Reporting'
    <3>1. CASE NetlinkEnds
      BY <3>1 DEF NetlinkEnds, Reporting
    <3>2. CASE PassBegins
      <4>1. PICK missed :
              /\ phase = "capture" /\ scenario.live
              /\ UNCHANGED <<netlink, phase, scenario>>
              /\ \/ scan' = [scan EXCEPT !.pc = "done"]
                 \/ scan' = [scan EXCEPT !.pc = "walk", !.pass = @ + 1, !.pos = 0, !.stamp = clock,
                                         !.cur = {}, !.missed = missed, !.zombies = 0]
        BY Zenon, <3>2 DEF PassBegins
      <4>2. QED BY <4>1 DEF Reporting
    <3>3. CASE Visit \/ VisitFails
      BY <3>3 DEF Visit, VisitFails, Meets, Reporting
    <3>4. CASE PassSleeps
      BY <3>4 DEF PassSleeps, Reporting
    <3>5. QED BY <1>4, <3>1, <3>2, <3>3, <3>4
  <2>3. QED BY <2>1, <2>2, PhaseMoves
<1>5. CASE VisitNew
  <2>1. /\ scan.pc = "walk" /\ UNCHANGED mainVars /\ netlink' = netlink
        /\ \E e : FeedExec(e, scan.stamp)
    BY <1>5 DEF VisitNew
  <2>2. phase = "capture" /\ Reports
    BY <2>1, ExecReports DEF Reporting
  <2>3. EngineInv'
    BY <2>1, <2>2, HostReports
  <2>4. Reporting'
    BY <1>5, <2>1 DEF VisitNew, Meets, Reporting
  <2>5. QED BY <2>3, <2>4
<1>6. CASE PassEnds
  <2>1. /\ scan.pc = "walk" /\ UNCHANGED mainVars /\ netlink' = netlink
        /\ \E modules : scan' = [scan EXCEPT !.pc = "sleep", !.known = Known, !.primed = TRUE,
                                             !.mods = @ \cup modules]
    BY Zenon, <1>6 DEF PassEnds
  <2>2. phase = "capture" /\ Reports
    BY <1>6, <2>1, PassReports DEF Reporting
  <2>3. EngineInv'
    BY <2>1, <2>2, HostReports
  <2>4. Reporting'
    BY <2>1 DEF Reporting
  <2>5. QED BY <2>3, <2>4
<1>7. CASE HostCaptureEnds
  <2>1. /\ Still /\ wake' = wake /\ UNCHANGED <<netlink, scan>>
        /\ phase = "capture" /\ phase' = "flush" /\ scan.pc = "done" /\ netlink # "run"
    BY <1>7 DEF HostCaptureEnds, Still
  <2>2. QED BY <2>1, PhaseMoves DEF Reporting, Still
<1>8. CASE ReplayEnds
  <2>1. /\ Still /\ wake' = wake /\ UNCHANGED <<netlink, scan>>
        /\ phase = "capture" /\ phase' = "flush" /\ ~scenario.live
    BY <1>8 DEF ReplayEnds, CaptureEnds, Still
  <2>2. QED BY <2>1, PhaseMoves DEF Reporting, Still
<1>9. CASE ReplayExec \/ ReplayFile
  <2>1. UNCHANGED mainVars /\ phase = "capture" /\ UNCHANGED <<netlink, scan>>
    BY <1>9 DEF ReplayExec, ReplayFile
  <2>2. Reports
    BY <1>9, ExecReports, FilesAreSeq DEF ReplayExec, ReplayFile, Reports
  <2>3. QED BY <2>1, <2>2, HostReports DEF Reporting
<1>10. QED BY <1>1, <1>2, <1>3, <1>4, <1>5, <1>6, <1>7, <1>8, <1>9 DEF HostNext

\* Every step keeps the invariant of the shutdown.
LEMMA TailStep ==
    ASSUME EthInv, EngineInv, Reporting, [Next]_vars
    PROVE  EngineInv' /\ Reporting'
<1>1. CASE (MainNext \/ OpensOrEnds) /\ UNCHANGED hostVars
  BY <1>1, MainKept
<1>2. CASE CanNext
  <2>1. PICK f, at : /\ Capture(f, at)
                     /\ FeedError(f, at) \/ FeedRemote(f, at) \/ FeedData(f, at)
    BY <1>2 DEF CanNext, FeedFrame
  <2>2. scenario.probe # "host" /\ UNCHANGED hostVars
    BY <1>2 DEF CanNext
  <2>3. QED BY <2>1, <2>2, CanReports, CaptureKept
<1>3. CASE EthNext
  <2>1. scenario.probe = "eth" /\ FeedEthernet /\ UNCHANGED hostVars
    BY <1>3 DEF EthNext
  <2>2. Reports /\ \E p, at : Capture(p, at)
    BY <2>1, FrameKept DEF FeedEthernet
  <2>3. QED BY <2>1, <2>2, CaptureKept
<1>4. CASE HostOnly
  BY <1>4, HostProbeKept DEF HostOnly
<1>5. CASE UNCHANGED vars
  <2>1. Still /\ UNCHANGED <<phase, wake, netlink, scan>>
    BY <1>5 DEF vars, probeVars, mainVars, engineVars, hostVars, captureVars, Still
  <2>2. QED BY <2>1, PhaseMoves DEF Reporting, Still
<1>6. QED BY <1>1, <1>2, <1>3, <1>4, <1>5 DEF Next

\* It holds at the start.
LEMMA TailStarts ==
    ASSUME Init
    PROVE  EngineInv /\ Reporting
<1>1. /\ clock = 1 /\ wake = 0 /\ phase = "ready" /\ ingress = <<>>
      /\ staged = [s \in Sevs |-> [count |-> 0, due |-> 0]] /\ owed = [s \in Sevs |-> 0]
  BY DEF Init, InitMain
<1>2. EngineTyped
  BY <1>1, SingleSeq DEF EngineTyped
<1>3. Owing
  <2>1. ASSUME NEW s \in Sevs PROVE Times(ingress, s) = 0
    <3>1. PlacesOf(ingress, s) = {}
      BY <1>1 DEF PlacesOf
    <3>2. QED BY <3>1, FS_EmptySet DEF Times
  <2>2. QED BY <1>1, <2>1 DEF Owing
<1>4. Windows /\ Drained /\ TailForwarded
  BY <1>1 DEF Windows, Drained, TailForwarded
<1>5. netlink = "off" /\ "pc" \in DOMAIN scan /\ scan.pc = "top"
  BY DEF Init, InitHost
<1>6. QED BY <1>2, <1>3, <1>4, <1>5 DEF EngineInv, Reporting

\* Every alert that a probe has reported was handed to IdsRm before its sink is
\* gone, wherever the capture and the worker were when it ended: for any traffic and
\* for every scenario of the three probes.
THEOREM TailReaches == Spec => []TailForwarded
<1>1. Init => EthInv /\ EngineInv /\ Reporting
  BY EthStarts, TailStarts
<1>2. EthInv /\ EngineInv /\ Reporting /\ [Next]_vars => (EthInv /\ EngineInv /\ Reporting)'
  BY EthStep, TailStep
<1>3. EngineInv => TailForwarded
  BY DEF EngineInv
<1>4. QED BY <1>1, <1>2, <1>3, PTL DEF Spec
=============================================================================
