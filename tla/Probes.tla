------------------------------- MODULE Probes -------------------------------
(***************************************************************************)
(* The three probe programs, one at a time: the scenario says which of     *)
(* them runs, with which options and on which traffic.                     *)
(***************************************************************************)
EXTENDS CanProbe, HostProbe, EthProbe

CONSTANT Scenarios

ASSUME ScenarioAssumption == \A s \in Scenarios :
    /\ s.probe \in {"can", "host", "eth"} /\ {s.live, s.ends} \subseteq BOOLEAN
    /\ s.most \in Nat
    /\ s.probe = "can" => s.sevs = CanSevs /\ s.limits \in [CanKinds -> Nat]
    /\ s.probe = "can" => \A f \in s.inputs : f.id \in CanIds /\ {f.err, f.rtr} \subseteq BOOLEAN
    /\ s.probe = "host" => s.sevs = HostSevs /\ s.limits \in [HostKinds -> Nat]
    /\ s.probe = "host" => s.fails \subseteq {"proc", "files"}
    /\ s.probe = "host" => s.passes \in 0..MaxPasses /\ s.netlink \subseteq {"off", "run"}
                           /\ s.hogs \subseteq {"none", "cpu", "mem"}
    /\ s.probe = "eth" => s.sevs = EthSevs /\ s.limits \in [EthKinds -> Nat]
    /\ s.probe = "eth" => \A p \in s.inputs : IsPacket(p)
    /\ s.probe = "eth" => /\ s.rules \in Seq(ToSet(s.rules))
                          /\ \A r \in ToSet(s.rules) : r.sid \notin EthKinds

vars == <<probeVars, can, hostVars, ethVars>>

Init == InitMain(Scenarios) /\ InitCan /\ InitHost /\ InitEth

\* A probe that has nothing to do at the start and the end of its capture.
OpensOrEnds == scenario.probe # "host" /\ (Opens \/ CaptureEnds)

CanNext ==
    /\ scenario.probe = "can" /\ FeedFrame
    /\ UNCHANGED <<hostVars, ethVars>>

HostOnly ==
    /\ scenario.probe = "host" /\ HostNext
    /\ UNCHANGED <<can, ethVars>>

EthNext ==
    /\ scenario.probe = "eth" /\ FeedEthernet
    /\ UNCHANGED <<can, hostVars>>

Next ==
    \/ (MainNext \/ OpensOrEnds) /\ UNCHANGED <<can, hostVars, ethVars>>
    \/ CanNext
    \/ HostOnly
    \/ EthNext

Spec == Init /\ [][Next]_vars

-----------------------------------------------------------------------------
\* The windowed alerts, against counts over the traffic.

Width(kind) ==
    CASE scenario.probe = "can"  -> CanWindow
      [] scenario.probe = "host" -> HostWindow
      [] OTHER                   -> EthWindow

\* The ARP frames that do not change what is known of an address.
Rebinds(i) ==
    LET before == {j \in 1..(i - 1) : traffic[j].input.kind = "arp"
                                      /\ traffic[j].input.src = traffic[i].input.src}
    IN  before # {} /\ traffic[Max(before)].input.mac # traffic[i].input.mac

EthCounts(kind, i) ==
    LET p == traffic[i].input
        counts(cond, key) == IF cond THEN {key} ELSE {}
    IN  CASE kind = "rateFlood" -> counts(p.kind # "arp" /\ p.src \notin Trusted, p.src)
          [] kind = "portScan" -> counts(/\ p.kind = "tcp" /\ p.src \notin Trusted
                                         /\ "SYN" \in p.flags /\ "RST" \notin p.flags, p.src)
          [] kind = "arpStorm" -> counts(p.kind = "arp" /\ p.gratuitous /\ ~Rebinds(i), p.mac)

\* The keys under which an input of the traffic counts.
Counts(kind, i) ==
    CASE scenario.probe = "can"  -> CanCounts(kind, traffic[i].input)
      [] scenario.probe = "host" -> {"host"}
      [] OTHER                   -> EthCounts(kind, i)

\* What counts once in the limit of a kind however often it comes.
Thing(kind, i) ==
    CASE kind = "svcScan"  -> Service(traffic[i].input)
      [] kind = "portScan" -> traffic[i].input.dport
      [] OTHER             -> i

\* The zombie storm has no traffic to be counted in.
Limited == {k \in DOMAIN scenario.limits : scenario.limits[k] # Never} \ {"zombieStorm"}

\* In a replay the first time is 0, which can_probe takes for a window that is not
\* open: what came then, and whether it was alerted, is kept in the next window.
Masked(kind, key) ==
    scenario.probe = "can" /\ \E i \in DOMAIN traffic : traffic[i].at = 0 /\ key \in Counts(kind, i)

\* A datagram that was put together is scanned for its port when it is complete.
Unfragmented == \A i \in DOMAIN traffic : traffic[i].input.frag = NoFragment

\* How much of a kind and key came in the window that ends at time t.
Amount(kind, key, t) ==
    Cardinality({Thing(kind, i) : i \in {j \in DOMAIN traffic :
        /\ traffic[j].at <= t /\ t - traffic[j].at < Width(kind)
        /\ key \in Counts(kind, j)}})

\* detectors.cpp of the three probes: as much traffic within one width as must
\* fill one of the two windows that it may fall in, wherever they begin, is
\* alerted in one of them.  (The port scan keeps quiet while it lasts.)
FloodNoticed ==
    \A kind \in Limited \ {"portScan"} : \A i \in DOMAIN traffic :
        LET t == traffic[i].at IN
        \A key \in Counts(kind, i) :
            ~Masked(kind, key) /\ Amount(kind, key, t) >= 2 * scenario.limits[kind] - 1 =>
                \E n \in DOMAIN alarms :
                    /\ alarms[n].kind = kind /\ alarms[n].key = key
                    /\ alarms[n].at <= t /\ t - alarms[n].at < 2 * Width(kind)

\* An alert is raised only when its limit was reached by what came within one
\* width, nothing of an earlier window, and nothing twice.
FloodIsReal ==
    \A n \in DOMAIN alarms :
        LET kind == alarms[n].kind IN
        kind \in Limited /\ ~Masked(kind, alarms[n].key) /\ (kind = "portScan" => Unfragmented)
        => Amount(kind, alarms[n].key, alarms[n].at) >= scenario.limits[kind]

\* Whether the times of a file are in order.
TimesInOrder == \A i, j \in DOMAIN traffic : i <= j => traffic[i].at <= traffic[j].at

\* Every flood is alerted, and every alert of one is of a flood, live and in a replay
\* whose times do not go back: a window ends at a time before its start.
FloodsAlerted == scenario.live \/ TimesInOrder => FloodNoticed /\ FloodIsReal

-----------------------------------------------------------------------------
\* The reassembly.

\* ip_defrag.h, "overlapping bytes: first-seen wins": in whatever order fragments
\* come, overlap and are evicted, a datagram that is passed on has no hole, ends
\* where its last fragment does, and each of its bytes is that of the first
\* fragment that had it; and no datagram of which all has come is still kept.
DatagramsWhole ==
    /\ \A n \in DOMAIN datagrams :
        LET d == datagrams[n]
            lasts == {i \in DOMAIN d.frags : ~d.frags[i].more}
        IN  /\ d.total = d.frags[Max(lasts)].off + Len(d.frags[Max(lasts)].bytes)
            /\ \A p \in 1..d.total : d.buf[p] = FirstSeen(d.frags, p) /\ d.buf[p] # Hole
    /\ \A k \in DOMAIN eth.defrag.table :
        LET d == eth.defrag.table[k]
        IN  d.total > 0 => \E p \in DOMAIN d.buf : FirstSeen(d.frags, p) = Hole

\* Whether std::map's order of the plain numbers is not that of the stream.
Wraps(d) == \E a, b \in DOMAIN d.ooo \cup {d.next} : a < b /\ ~SeqLt(a, b)

\* stream_tcp.h: however segments are lost, doubled, reordered and cut, and
\* whenever gaps are skipped and flows evicted, no byte of a stream is delivered
\* twice or before an earlier one: each is ahead of the one before, by half of the
\* numbers at most after its own and that of a FIN.  And, but for the wrap of the
\* numbers, nothing is held back that is next, unless it became so by a FIN.
StreamsInOrder ==
    /\ \A n \in DOMAIN lives, i \in 0..1 :
        LET got == lives[n].got[i]
        IN  \A j \in 1..(Len(got) - 1) :
                (got[j + 1].at - got[j].at) % SeqSpace \in 1..((SeqSpace \div 2) + 2)
    /\ \A f \in DOMAIN eth.tcp.flows, i \in 0..1 :
        LET d == eth.tcp.flows[f].dir[i]
        IN  ~Wraps(d) => \A s \in DOMAIN d.ooo : SeqLt(d.next, s) \/ (d.fin /\ s = d.next)

Bytes(got) == [j \in DOMAIN got |-> got[j].byte]

\* Where the DoIP messages of a stream begin, each behind the one before.
MessageStarts(s) ==
    LET starts[i \in 1..(Len(s) + 1)] ==
            i = 1 \/ \E j \in 1..(i - 2) : starts[j] /\ i = j + 2 + s[j + 1]
    IN  starts

\* Those that are complete.
MessagesIn(s) ==
    LET starts == MessageStarts(s)
    IN  {i \in 1..(Len(s) - 1) : starts[i] /\ i + 1 + s[i + 1] <= Len(s)}

\* Whether every message of a stream, the last with the length it claims, fits into
\* what is kept of it.
Fits(s) == LET starts == MessageStarts(s)
           IN  \A i \in 1..(Len(s) - 1) : starts[i] => 2 + s[i + 1] <= AccCap

\* pipeline.cpp, "cross-chunk hits" and "frame messages from the accumulated
\* stream": a pattern in what was delivered is found however segments cut it, and so
\* is every DoIP message, which is inspected once by its own length, in a stream
\* whose messages fit and of a flow that the application layer did not know.
StreamsInspected ==
    \A n \in DOMAIN lives, i \in 0..1 :
        LET s == Bytes(lives[n].got[i]) IN
        /\ \A r \in ToSet(scenario.rules) :
            /\ r.proto = "tcp" /\ Len(r.contents) = 1 /\ r.contents[1].buffer = "raw"
            /\ Finds(s, r.contents[1].pattern, 1) # {}
            => \E m \in DOMAIN alarms : alarms[m].kind = r.sid /\ alarms[m].key = n
        /\ i = 0 /\ lives[n].fresh /\ lives[n].flow[4] = DoipPort /\ Fits(s)
            => Cardinality({m \in DOMAIN alarms : alarms[m].kind = "doip" /\ alarms[m].key = n})
               = Cardinality({j \in MessagesIn(s) : s[j] # 2})

\* ip_defrag.h and stream_tcp.h, "hard resource caps": what the pools count is
\* what is buffered, in whatever order it was added, delivered, evicted and
\* expired, and neither goes over its caps.
PoolsBounded == DefragBounded(eth.defrag) /\ TcpBounded(eth.tcp)

\* The types of the variables, and the caps of the pools of main.cpp's pipeline.
ProbesTypeOK == MainTypeOK /\ HostTypeOK /\ PoolsBounded
=============================================================================
