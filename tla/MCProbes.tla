------------------------------ MODULE MCProbes ------------------------------
(***************************************************************************)
(* Scenarios of the probes: one limit, or one part of a probe, at a time.  *)
(***************************************************************************)
EXTENDS Probes

Frame(id, err, rtr, uds) == [id |-> id, err |-> err, rtr |-> rtr, legal |-> TRUE, uds |-> uds]
Data(id) == Frame(id, FALSE, FALSE, "other")
Request(uds) == Frame("tester", FALSE, FALSE, uds)
Error == Frame("speed", TRUE, FALSE, "")

Ids       == {"speed", "stray", "tester", "ecu"}
Testers   == {"tester"}
WhiteIds  == {"speed"}
Intervals == [i \in {"speed"} |-> 2]

CanScenario(inputs, kinds) ==
    [probe |-> "can", live |-> TRUE, ends |-> FALSE, inputs |-> inputs, most |-> 4, sevs |-> CanSevs,
     limits |-> [k \in CanKinds |-> IF k \in kinds THEN 2 ELSE Never]]

Replayed(scen) == [scen EXCEPT !.live = FALSE]
Ending(scen) == [scen EXCEPT !.ends = TRUE]

FrameKinds == {Data("speed"), Data("stray"), Frame("speed", FALSE, TRUE, ""),
               [Data("ecu") EXCEPT !.legal = FALSE]}

CanScenarios ==
    { CanScenario({Data("ecu"), Data("tester")}, {"idFlood"}),
      CanScenario({Data("ecu"), Error}, {"busFlood", "errBurst"}),
      CanScenario({Request("seed"), Request("key")}, {"seedFlood", "keyGuess"}),
      CanScenario({Request("seed"), Request("other"), Request("")}, {"svcScan"}),
      Ending(CanScenario({Request("")}, {"diagFlood"})),
      [CanScenario(FrameKinds, {}) EXCEPT !.most = 3],
      Replayed(CanScenario({Data("tester"), Error}, {"idFlood"})) }

-----------------------------------------------------------------------------
Program(name) == [name |-> name, allowed |-> TRUE, setuid |-> FALSE, shell |-> FALSE,
                  root |-> FALSE, net |-> "", kthread |-> FALSE]
Stray == [Program("stray") EXCEPT !.allowed = FALSE]
Kernel == [Program("kworker") EXCEPT !.kthread = TRUE]
Shell == [Program("sh") EXCEPT !.shell = TRUE, !.root = TRUE, !.net = "outside"]
Setuid == [Program("su") EXCEPT !.setuid = TRUE]

HostScenario(inputs, most, passes) ==
    [probe |-> "host", live |-> TRUE, ends |-> FALSE, inputs |-> inputs, most |-> most,
     sevs |-> HostSevs, passes |-> passes,
     netlink |-> {"off"}, hogs |-> {"none"}, changes |-> FALSE, fails |-> {},
     limits |-> [k \in HostKinds |-> Never]]

HostScenarios ==
    { HostScenario({Program("app")}, 2, 3),
      HostScenario({Kernel, Program("app")}, 2, 2),
      [HostScenario({Program("app")}, 3, 0)
            EXCEPT !.netlink = {"run"}, !.limits["forkFlood"] = 2],
      [HostScenario({Program("app")}, 1, 2)
            EXCEPT !.changes = TRUE, !.limits["zombieStorm"] = 1],
      [HostScenario({}, 0, 3) EXCEPT !.hogs = {"none", "cpu", "mem"}],
      [HostScenario({Stray}, 1, 4) EXCEPT !.fails = {"proc"}, !.limits["forkFlood"] = 2],
      [HostScenario({}, 0, 3) EXCEPT !.fails = {"files"}, !.changes = TRUE],
      Ending([HostScenario({Program("app")}, 1, 2) EXCEPT !.netlink = {"off", "run"}]),
      Replayed(HostScenario({Shell}, 1, 0)),
      Replayed([HostScenario({Setuid}, 2, 0) EXCEPT !.limits["forkFlood"] = 2]) }

-----------------------------------------------------------------------------
\* Address 1 and 2 are inside the vehicle, 9 is outside, 3 is trusted.
HomeHosts == {1, 2}
Outside == {9}
TrustedHosts == {3}

Packet(kind, src, dst) ==
    [kind |-> kind, src |-> src, dst |-> dst, sport |-> 5000, dport |-> 80,
     flags |-> {"ACK"}, seq |-> 0, data |-> <<>>, frag |-> NoFragment,
     mac |-> src, gratuitous |-> FALSE, session |-> 0, offers |-> FALSE, dns |-> "fine"]
Udp(port, data) == [Packet("udp", 1, 2) EXCEPT !.dport = port, !.data = data]
Fragment(id, off, data, more) ==
    [Udp(9000, data) EXCEPT !.frag = [id |-> id, off |-> off, more |-> more]]
Syn(port) == [Packet("tcp", 1, 2) EXCEPT !.flags = {"SYN"}, !.dport = port]
Arp(mac) == [Packet("arp", 1, 1) EXCEPT !.mac = mac, !.gratuitous = TRUE]

\* The piece of a stream that begins at its byte i.
Piece(stream, isn, port, i, n) ==
    [Packet("tcp", 1, 2) EXCEPT !.dport = port, !.seq = (isn + i - 1) % SeqSpace,
                                !.data = SubSeq(stream, i, i + n - 1)]

Rule(sid, proto, buffer, pattern) ==
    [sid |-> sid, proto |-> proto,
     contents |-> IF pattern = <<>> THEN <<>> ELSE <<[buffer |-> buffer, pattern |-> pattern]>>]

EthScenario(inputs) ==
    [probe |-> "eth", live |-> TRUE, ends |-> FALSE, inputs |-> inputs, most |-> 4, sevs |-> EthSevs,
     rules |-> <<>>, limits |-> [k \in EthKinds |-> Never]]

Signature == <<7, 8, 9>>
SignatureRules == <<Rule("signature", "tcp", "raw", Signature), Rule("short", "tcp", "raw", <<8>>)>>

RateScenario == [EthScenario({Packet("icmp", 1, 2), Packet("icmp", 3, 2), Packet("other", 1, 9)})
                 EXCEPT !.limits["rateFlood"] = 2]
ScanScenario == [EthScenario({Syn(1), Syn(2)}) EXCEPT !.limits["portScan"] = 2]
ArpScenario == [EthScenario({Arp(1), Arp(2)}) EXCEPT !.limits["arpStorm"] = 2]
DefragScenario == EthScenario(
    {Fragment(1, 0, <<1, 1>>, TRUE), Fragment(1, 1, <<2, 2>>, TRUE), Fragment(1, 2, <<3>>, FALSE),
     Fragment(2, 0, <<4>>, TRUE), Fragment(2, 3, <<5, 5>>, FALSE), Fragment(3, 0, <<6, 6, 6, 6>>, TRUE)})
SignatureScenario(isn) == [EthScenario(
    {Piece(Signature, isn, 5001, 1, 1), Piece(Signature, isn, 5001, 2, 1), Piece(Signature, isn, 5001, 3, 1),
     Piece(Signature, isn, 5001, 1, 2), Piece(Signature, isn, 5001, 2, 2)})
    EXCEPT !.rules = SignatureRules]

Pieces(stream, port, cuts) == {Piece(stream, 1, port, c[1], c[2]) : c \in cuts}

DoipScenario == EthScenario(
    Pieces(<<1, 1, 5, 2, 0, 1, 0>>, DoipPort, {<<1, 1>>, <<1, 2>>, <<2, 3>>, <<3, 2>>, <<5, 3>>}))
\* A message that is longer than what is kept of a stream, whole or in pieces.
LongDoipScenario == [EthScenario(
    Pieces(<<1, 4, 0, 0, 0, 0, 1, 0>>, DoipPort, {<<1, 3>>, <<1, 6>>, <<4, 3>>, <<7, 2>>})) EXCEPT !.most = 3]
HttpScenario == [EthScenario(
    Pieces(<<4, 5, 7, 6, 4, 5, 6>>, 80, {<<1, 1>>, <<1, 2>>, <<2, 2>>, <<3, 2>>, <<5, 3>>}))
    EXCEPT !.most = 3, !.rules = <<Rule("uri", "tcp", "uri", <<7>>), Rule("header", "tcp", "raw", <<>>)>>]
TlsScenario == [EthScenario(
    Pieces(<<22, 3, 2>>, 443, {<<1, 1>>, <<1, 2>>, <<2, 2>>, <<3, 1>>})) EXCEPT !.most = 3]
UdpScenario == [EthScenario(
    {Udp(SomeipPort, <<>>), [Udp(DnsPort, <<>>) EXCEPT !.dns = "cut"],
     [Udp(SomeipPort, <<>>) EXCEPT !.session = 2], [Udp(SomeipPort, <<>>) EXCEPT !.session = 1, !.offers = TRUE],
     Udp(DnsPort, <<7>>), [Udp(DnsPort, <<7>>) EXCEPT !.dns = "broken"], [Udp(DnsPort, <<7>>) EXCEPT !.dns = "suspicious"],
     Udp(DoipPort, <<1, 1>>), Udp(9000, <<7>>)})
    EXCEPT !.most = 2, !.rules = <<Rule("query", "udp", "query", <<7>>), Rule("raw", "udp", "raw", <<7>>)>>]

\* Flows that are closed, by either end and in the middle, and more than there is
\* room for.
Closing(flags) == [Piece(Signature, 1, 5001, 3, 1) EXCEPT !.flags = flags]
Answer == [Packet("tcp", 2, 1) EXCEPT !.sport = 5001, !.dport = 5000, !.flags = {"FIN"}, !.seq = 9]
CloseScenario == [EthScenario(
    {Piece(Signature, 1, 5001, 1, 2), Closing({"FIN"}), Closing({"RST"}), Answer,
     [Piece(Signature, 1, 5001, 1, 1) EXCEPT !.dport = 5002],
     [Piece(Signature, 1, 5001, 1, 1) EXCEPT !.dport = 5003]})
    EXCEPT !.rules = SignatureRules]

\* A FIN that comes before the byte in front of it, and numbers that wrap while two
\* segments wait.
EarlyFinScenario == EthScenario(
    {Piece(Signature, 1, 5001, 1, 1), Piece(Signature, 1, 5001, 3, 1),
     [Piece(Signature, 1, 5001, 4, 0) EXCEPT !.flags = {"FIN"}]})
Long == <<1, 2, 3, 4, 5, 6>>
WrapScenario == EthScenario(
    {Piece(Long, SeqSpace - 3, 5001, 1, 1), Piece(Long, SeqSpace - 3, 5001, 3, 1),
     Piece(Long, SeqSpace - 3, 5001, 6, 1), Piece(Long, SeqSpace - 3, 5001, 2, 3)})

\* A datagram whose parts make up the segments of a stream.
MixedScenario == [Ending(EthScenario(
    {[Piece(Signature, 1, 5001, 1, 2) EXCEPT !.frag = [id |-> 1, off |-> 0, more |-> TRUE]],
     [Piece(Signature, 1, 5001, 3, 1) EXCEPT !.frag = [id |-> 1, off |-> 2, more |-> FALSE]],
     Piece(Signature, 1, 5001, 3, 1), [Packet("tcp", 1, 9) EXCEPT !.flags = {}]}))
    EXCEPT !.most = 3, !.rules = SignatureRules]

EthScenarios ==
    {RateScenario, ScanScenario, ArpScenario, DefragScenario, SignatureScenario(1), SignatureScenario(SeqSpace - 2),
     DoipScenario, HttpScenario, TlsScenario, UdpScenario, CloseScenario, MixedScenario,
     EarlyFinScenario, WrapScenario, LongDoipScenario,
     Replayed([ScanScenario EXCEPT !.limits["rateFlood"] = 2]),
     [Replayed(EarlyFinScenario) EXCEPT !.most = 3]}

AllScenarios == CanScenarios \cup HostScenarios \cup EthScenarios
=============================================================================
