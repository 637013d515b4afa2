------------------------------ MODULE EthProbe ------------------------------
(***************************************************************************)
(* The Ethernet probe (apps/eth_probe): live capture or the replay of a    *)
(* pcap file, and the pipeline that each frame is fed to (pipeline.cpp,    *)
(* detectors.cpp), with the fragment table of IpDefrag and the streams of  *)
(* TcpReassembly.                                                          *)
(*                                                                         *)
(* A frame is what parse_packet makes of it: kind ("arp", "tcp", "udp",    *)
(* "icmp" or "other"), addresses and ports as numbers, flags, seq, data    *)
(* and, for a fragment, id, off and more; for ARP mac and gratuitous; what *)
(* the parsers of SOME/IP-SD and DNS find is told by session, offers and   *)
(* dns.                                                                    *)
(*                                                                         *)
(* A byte is a number.  Only the first bytes of a message mean something:  *)
(* DoIP: a type and the length of what follows; TLS: two bytes of a record *)
(* and the version of its hello; HTTP: two bytes of a method, and one that *)
(* ends the header.                                                        *)
(***************************************************************************)
EXTENDS ProbeMain, DetectorWindows, IpDefrag, TcpReassembly

CONSTANTS
    Home, Foreign,  \* the addresses that GeoIp classifies so, without those that are
                    \* local by definition (multicast, broadcast, link-local)
    Trusted,        \* trusted_sources
    EthWindow,      \* the width of the windows
    CrossCooldown,  \* cross_border_cooldown_ms
    AccCap          \* stream_acc_cap, HTTP_MAX_HEADER

ASSUME EthAssumption ==
    EthWindow \in Nat \ {0} /\ CrossCooldown \in Nat /\ AccCap \in Nat

\* The security events of the detectors, in the order of their numbers.
EthSevs == <<"portScan", "rateFlood", "flagAnomaly", "rule", "doip", "someip", "reassembly",
             "crossBorder", "tls", "http", "dns", "arp">>

\* The kinds of alerts that have a limit.
EthKinds == {"rateFlood", "portScan", "arpStorm"}

NoFragment == [id |-> 0, off |-> 0, more |-> FALSE]

\* What the frames of a scenario have, whatever else they tell.
IsPacket(p) ==
    /\ {"data", "seq", "frag"} \subseteq DOMAIN p
    /\ p.data \in Seq(Nat) /\ p.seq \in 0..(SeqSpace - 1)
    /\ p.frag \in [id : Nat, off : Nat, more : BOOLEAN]

VARIABLES
    eth,        \* the state of the detectors, the tables and the application layer
    lives,      \* history: every flow that was opened: flow, whether the application
                \* layer had nothing of it then, and the bytes delivered by direction
    datagrams   \* history: the datagrams that became complete

ethVars == <<eth, lives, datagrams>>

DoipPort == 13400
TlsPort == 443
HttpPorts == {80, 8080}
SomeipPort == 30490
DnsPort == 53
MaxDoip == 8    \* a DoIP length above it is not believed

NewDirState == [tail |-> <<>>, acc |-> <<>>, checked |-> FALSE, bad |-> FALSE, done |-> FALSE]
NewApp == [i \in 0..1 |-> NewDirState]

InitEth ==
    /\ eth = [rates |-> <<>>, scans |-> <<>>, bindings |-> <<>>, storms |-> <<>>,
              crossings |-> <<>>, sessions |-> <<>>,
              defrag |-> EmptyDefrag, tcp |-> EmptyTcp, apps |-> <<>>]
    /\ lives = <<>>
    /\ datagrams = <<>>

\* The effect of a handler: the state and the alerts so far.
Then(x, e, alerts) == [x EXCEPT !.e = e, !.alerts = @ \o alerts]
Alert(x, sev, kind, key) == [x EXCEPT !.alerts = Append(@, [sev |-> sev, kind |-> kind, key |-> key])]

-----------------------------------------------------------------------------
\* The detectors.

EthLimit(kind) == scenario.limits[kind]

NewStorm == Counter(NotOpen)
OpenStorm(storms, key, at) == Opened(At(storms, key, NewStorm), NewStorm, at, EthWindow)

\* RateFloodDetector, for every IP packet.
FeedRate(x, p, at) ==
    LET open == OpenStorm(x.e.rates, p.src, at)
        w == Counted(open, EthLimit("rateFlood"))
    IN  Then(x, [x.e EXCEPT !.rates = Put(@, p.src, w)],
             When(Raised(open, w), "rateFlood", "rateFlood", p.src))

\* GeoIp::classify; an address of the domestic list is neither.
Verdict(addr) ==
    IF addr \in Home THEN "home" ELSE IF addr \in Foreign THEN "foreign" ELSE "other"

\* CidrSet::contains of trusted_sources.
IsTrusted(p) == p.src \in Trusted

\* check_cross_border: from inside to outside, muted for each pair.
FeedCrossing(x, p, at) ==
    LET pair == <<p.src, p.dst>> IN
    IF \/ Verdict(p.src) # "home" \/ Verdict(p.dst) # "foreign"
       \/ pair \in DOMAIN x.e.crossings /\ ~Elapsed(x.e.crossings[pair], at, CrossCooldown)
    THEN x
    ELSE Then(x, [x.e EXCEPT !.crossings = Put(@, pair, at)],
              When(TRUE, "crossBorder", "crossBorder", pair))

\* check_flag_anomaly.
Anomalous(flags) ==
    flags = {} \/ {"FIN", "PSH", "URG"} \subseteq flags \/ {"SYN", "FIN"} \subseteq flags

\* The SYNs that are left of a window that slides, from the first that is not out of it.
Recent(syns, at) ==
    LET recent == {i \in DOMAIN syns : ~Elapsed(syns[i].at, at, EthWindow)}
    IN  IF recent = {} THEN <<>> ELSE SubSeq(syns, Min(recent), Len(syns))

\* PortScanDetector, for every SYN: the window is armed again when fewer ports than
\* the limit are left in it.
FeedScan(x, p, at) ==
    LET old == At(x.e.scans, p.src, [events |-> <<>>, alerted |-> FALSE])
        ports(events) == {events[i].port : i \in DOMAIN events}
        limit == EthLimit("portScan")
        left == Recent(old.events, at)
        events == Append(left, [at |-> at, port |-> p.dport])
        armed == ~old.alerted \/ Cardinality(ports(left)) < limit
        raised == armed /\ Cardinality(ports(events)) >= limit
        scan == [events |-> events, alerted |-> ~armed \/ raised]
    IN  IF "SYN" \notin p.flags \/ "RST" \in p.flags THEN x
        ELSE Then(x, [x.e EXCEPT !.scans = Put(@, p.src, scan)],
                  When(raised, "portScan", "portScan", p.src))

\* ArpSpoofDetector, for requests and replies of a sender that has an address.
FeedArp(x, p, at) ==
    LET changed == p.src \in DOMAIN x.e.bindings /\ x.e.bindings[p.src] # p.mac
        open == OpenStorm(x.e.storms, p.mac, at)
        w == Counted(open, EthLimit("arpStorm"))
        bound == [x.e EXCEPT !.bindings = Put(@, p.src, p.mac)]
    IN  IF changed THEN Then(x, bound, When(TRUE, "arp", "binding", p.src))
        ELSE IF ~p.gratuitous THEN Then(x, bound, <<>>)
        ELSE Then(x, [bound EXCEPT !.storms = Put(@, p.mac, w)],
                  When(Raised(open, w), "arp", "arpStorm", p.mac))

-----------------------------------------------------------------------------
\* RuleEngine::match.  A rule is its protocol, and contents: patterns to be found,
\* each in a buffer and behind the one before it there.  Addresses, ports and what
\* else confines a content are left out.

Finds(s, pattern, from) ==
    {i \in from..(Len(s) - Len(pattern) + 1) : SubSeq(s, i, i + Len(pattern) - 1) = pattern}

\* next says where the content n may begin in each buffer.
ContentsMatch(contents, bufs) ==
    LET found(n, next) ==
            LET c == contents[n] IN Finds(bufs[c.buffer], c.pattern, next[c.buffer])
        behind(n, next) ==
            [next EXCEPT ![contents[n].buffer] = Min(found(n, next)) + Len(contents[n].pattern)]
        next[n \in DOMAIN contents] ==
            IF n = 1 THEN [b \in DOMAIN bufs |-> 1] ELSE behind(n - 1, next[n - 1])
    IN  \A n \in DOMAIN contents : found(n, next[n]) # {}

Buffers(raw, uri, query) == [raw |-> raw, uri |-> uri, query |-> query]

Hits(kind, bufs) ==
    LET rules == scenario.rules IN
    Those(rules, {i \in DOMAIN rules :
        rules[i].proto \in {"ip", kind} /\ ContentsMatch(rules[i].contents, bufs)})

RuleAlerts(hits, key) ==
    [i \in DOMAIN hits |-> [sev |-> "rule", kind |-> hits[i].sid, key |-> key]]

\* match_rules_packet.
MatchPacket(x, p, headerOnly) ==
    LET hits == Hits(p.kind, Buffers(p.data, <<>>, <<>>))
        matched == {i \in DOMAIN hits : headerOnly => hits[i].contents = <<>>}
    IN  Then(x, x.e, RuleAlerts(Those(hits, matched), 0))

MaxPatternLen ==
    Max({0} \cup UNION {{Len(r.contents[i].pattern) : i \in DOMAIN r.contents} : r \in ToSet(scenario.rules)})

-----------------------------------------------------------------------------
\* The application layer of a stream.  x.ds is the state of its direction.

LastOf(s, n) == SubSeq(s, Max({1, Len(s) - n + 1}), Len(s))

\* Mutant of Keep: one byte too few.
KeepLess == Max({MaxPatternLen, 2}) - 2

\* How much of what was matched is matched again with what comes next.
Keep == Max({MaxPatternLen, 1}) - 1

\* The rules are matched on the tail that was kept and the new bytes.
MatchStream(x, data, life) ==
    LET window == x.ds.tail \o data
    IN  Then([x EXCEPT !.ds.tail = LastOf(window, Keep)], x.e,
             RuleAlerts(Hits("tcp", Buffers(window, <<>>, <<>>)), life))

\* parse_doip and inspect_doip: an alert about a length that goes beyond the message,
\* about a type that is not known, and about a request to activate routing; none
\* about a message whose header is cut off.
DoipBad(m) == Len(m) >= 2 /\ (m[2] > Len(m) - 2 \/ m[1] # 2)

InspectDoip(x, m, key) ==
    IF DoipBad(m) THEN Alert(x, "doip", "doip", key) ELSE x

\* A message is taken from the accumulated bytes when it is complete.
DoipMessage(x, life) ==
    LET acc == x.ds.acc
        rest == [x EXCEPT !.ds.acc = SubSeq(acc, 3 + acc[2], Len(acc))]
    IN  IF Len(acc) < 2 THEN x
        ELSE IF acc[2] > MaxDoip THEN Alert([x EXCEPT !.ds.acc = <<>>], "doip", "length", life)
        ELSE IF Len(acc) < 2 + acc[2] THEN x
        ELSE InspectDoip(rest, SubSeq(acc, 1, 2 + acc[2]), life)

DoipMessages(x, life) == Repeated(LAMBDA y : DoipMessage(y, life), Len(x.ds.acc), x)

\* parse_tls_client_hello, which tells a version of 0 for what is not well-formed.
Hello(acc) ==
    IF Len(acc) < 2 \/ SubSeq(acc, 1, 2) # <<22, 3>> THEN "other"
    ELSE IF Len(acc) = 2 THEN "truncated"
    ELSE IF acc[3] = 0 THEN "malformed" ELSE "hello"

\* A ClientHello is waited for, and looked at once; what does not begin like a
\* record is never looked at again.
FeedTls(x, p, data, life) ==
    LET acc == x.ds.acc \o data
        done == [x EXCEPT !.ds.acc = acc, !.ds.done = TRUE]
    IN  IF x.ds.done THEN x
        ELSE CASE Hello(acc) = "other"     -> done
               [] Hello(acc) = "truncated" -> [x EXCEPT !.ds.acc = acc]
               [] Hello(acc) = "malformed" -> Alert(done, "tls", "malformed", life)
               [] OTHER -> Then(done, x.e,
                      When(\A a \in {p.src, p.dst} : Verdict(a) = "home", "tls", "internal", life)
                      \o When(acc[3] < 3, "tls", "version", life))

LooksLikeHttp(s) == Len(s) >= 2 /\ SubSeq(s, 1, 2) = <<4, 5>>

\* parse_http of the bytes that have come: whether they are a message, and its
\* URI; a message without one is malformed.
ParseHttp(acc) ==
    LET ends == {i \in DOMAIN acc : acc[i] = 6}
        uri == SubSeq(acc, 3, Min(ends) - 1)
    IN  CASE ~LooksLikeHttp(acc) -> [is |-> "not", uri |-> <<>>, rest |-> <<>>]
          [] LooksLikeHttp(acc) /\ ends = {} -> [is |-> "incomplete", uri |-> <<>>, rest |-> acc]
          [] OTHER -> [is |-> IF uri = <<>> THEN "malformed" ELSE "message",
                       uri |-> uri, rest |-> SubSeq(acc, Min(ends) + 1, Len(acc))]

\* A message, which ends with its header: what follows must be the next.
HttpMessage(x, life) ==
    LET acc == x.ds.acc
        msg == ParseHttp(acc)
    IN  IF acc = <<>> THEN x
        ELSE CASE Len(acc) > AccCap \/ msg.is \in {"not", "malformed"} ->
                    Alert([x EXCEPT !.ds.acc = <<>>], "http", "malformed", life)
               [] Len(acc) <= AccCap /\ msg.is = "incomplete" -> x
               [] OTHER ->
                    Then([x EXCEPT !.ds.acc = msg.rest], x.e,
                         RuleAlerts(Hits("tcp", Buffers(<<>>, msg.uri, <<>>)), life))

HttpMessages(x, life) == Repeated(LAMBDA y : HttpMessage(y, life), Len(x.ds.acc), x)

\* The first bytes decide for good whether it is HTTP.
FeedHttp(x, data, life) ==
    LET acc == x.ds.acc \o data
        seen == [x EXCEPT !.ds.acc = acc, !.ds.checked = TRUE]
    IN  IF x.ds.bad THEN x
        ELSE IF ~x.ds.checked /\ ~LooksLikeHttp(acc)
        THEN Alert([seen EXCEPT !.ds.bad = TRUE], "http", "malformed", life)
        ELSE HttpMessages(seen, life)

\* handle_stream_data, which changes nothing but the direction's state.  The port is the
\* one that the bytes are sent to.
FeedStream(x, p, data, life) ==
    LET y == MatchStream(x, data, life)
        z == CASE p.dport = DoipPort -> DoipMessages([y EXCEPT !.ds.acc = @ \o data], life)
               [] p.dport = TlsPort -> FeedTls(y, p, data, life)
               [] p.dport \in HttpPorts -> FeedHttp(y, data, life)
               [] OTHER -> y
    IN  [x EXCEPT !.ds = [z.ds EXCEPT !.acc = LastOf(@, AccCap)], !.alerts = z.alerts]

-----------------------------------------------------------------------------
\* The protocols.  x is [e, alerts, ds, lives, datagrams].

\* What becomes of lives when a segment was added.
Delivered(x, r) ==
    LET fresh == [flow |-> r.flow, fresh |-> r.flow \notin DOMAIN x.e.apps,
                  got |-> [i \in 0..1 |-> <<>>]]
        all == IF r.life > Len(x.lives) THEN Append(x.lives, fresh) ELSE x.lives
    IN  [all EXCEPT ![r.life].got[r.dir] = @ \o r.data]

TakeSegment(x, r) ==
    Then([x EXCEPT !.lives = Delivered(x, r)], [x.e EXCEPT !.tcp = r.tcp],
         When(r.evicted, "reassembly", "stream", 0))

App(x, r) == At(x.e.apps, r.flow, NewApp)
SaveApp(x, r) == [x EXCEPT !.e.apps = Put(@, r.flow, [App(x, r) EXCEPT ![r.dir] = x.ds])]

TakeData(x, p, r) ==
    IF r.data = <<>> THEN x
    ELSE SaveApp(FeedStream([x EXCEPT !.ds = App(x, r)[r.dir]], p,
                            [i \in DOMAIN r.data |-> r.data[i].byte], r.life), r)

CloseApp(x, r) ==
    IF r.closed THEN [x EXCEPT !.e.apps = Dropped(@, {r.flow})] ELSE x

TakeResult(x, p, r) == CloseApp(TakeData(TakeSegment(x, r), p, r), r)

FlagAlert(x, p) ==
    IF Anomalous(p.flags) THEN Alert(x, "flagAnomaly", "flagAnomaly", p.src) ELSE x

\* handle_tcp.  Only rules without contents are matched with the packet.
HandleTcp(x, p, at) ==
    TakeResult(MatchPacket(FeedScan(FlagAlert(x, p), p, at), p, TRUE), p,
               AddSegment(x.e.tcp, p, at, Len(x.lives) + 1))

\* parse_someip: session 0 stands for a message that is not valid.
SomeipValid(p) == p.session # 0

\* SomeipSdTracker::inspect: the session of a sender may only go back when it wraps,
\* which does not happen here; then the offers of services that are not expected.
InspectSd(x, p) ==
    LET back == p.src \in DOMAIN x.e.sessions /\ p.session < x.e.sessions[p.src]
    IN  Then(x, [x.e EXCEPT !.sessions = Put(@, p.src, p.session)],
             When(back, "someip", "session", p.src) \o When(p.offers, "someip", "offer", p.src))

HandleSomeip(x, p) ==
    IF SomeipValid(p) THEN InspectSd(x, p) ELSE Alert(x, "someip", "malformed", p.src)

\* parse_dns: a query that is cut off is none, but is not alerted.
DnsValid(p) == p.dns \in {"fine", "suspicious"}
DnsAlerted(p) == p.dns \in {"broken", "suspicious"}

\* handle_dns: only a valid query is matched with the rules.
HandleDns(x, p) ==
    LET y == IF DnsAlerted(p) THEN Alert(x, "dns", p.dns, p.src) ELSE x
    IN  IF DnsValid(p)
        THEN Then(y, y.e, RuleAlerts(Hits("udp", Buffers(p.data, <<>>, p.data)), 0)) ELSE y

\* handle_udp.
HandleUdp(x, p) ==
    LET ports == {p.sport, p.dport}
        y == IF DoipPort \in ports THEN InspectDoip(x, p.data, 0) ELSE x
        z == IF SomeipPort \in ports THEN HandleSomeip(y, p) ELSE y
    IN  IF DnsPort \in ports THEN HandleDns(z, p) ELSE MatchPacket(z, p, FALSE)

\* handle_l4.
HandleL4(x, p, at) ==
    CASE p.kind = "tcp" -> HandleTcp(x, p, at)
      [] p.kind = "udp" -> HandleUdp(x, p)
      [] p.kind = "icmp" -> MatchPacket(x, p, FALSE)
      [] OTHER -> x

\* reassembled_packet: the header of layer 4 is that of the fragment which the
\* first byte is of.
Reassembled(entry) ==
    [traffic'[entry.buf[1].from].input EXCEPT
        !.frag = NoFragment,
        !.data = [i \in 1..entry.total |-> entry.buf[i].byte]]

TakeFragment(x, r) ==
    Then([x EXCEPT !.datagrams = @ \o r.complete], [x.e EXCEPT !.defrag = r.defrag],
         When(r.evicted, "reassembly", "defrag", 0))

TakeDatagram(x, at, r) ==
    IF r.complete = <<>> THEN x ELSE HandleL4(x, Reassembled(r.complete[1]), at)

\* handle_fragment.
HandleFragment(x, at, r) == TakeDatagram(TakeFragment(x, r), at, r)

FragmentResult(p, at) ==
    AddFragment(eth.defrag, <<p.src, p.dst, p.frag.id, p.kind>>,
                [off |-> p.frag.off, more |-> p.frag.more,
                 bytes |-> [i \in DOMAIN p.data |-> [from |-> Len(traffic'), byte |-> p.data[i]]]],
                at)

-----------------------------------------------------------------------------
\* The pipeline, one frame.

Before == [e |-> eth, alerts |-> <<>>, ds |-> NewDirState, lives |-> lives, datagrams |-> datagrams]

\* tick(), after each frame of the live capture.
Ticked(e, at) ==
    IF scenario.live
    THEN [e EXCEPT !.defrag = ExpireDefrag(@, at), !.tcp = ExpireFlows(@, at)]
    ELSE e

Fold(x, at) ==
    /\ eth' = Ticked(x.e, at)
    /\ lives' = x.lives
    /\ datagrams' = x.datagrams
    /\ Report(x.alerts, at)

FromIp(p, at) == FeedCrossing(FeedRate(Before, p, at), p, at)

FeedTrusted(p, at) == p.kind # "arp" /\ IsTrusted(p) /\ Fold(Before, at)

FeedArpFrame(p, at) == p.kind = "arp" /\ Fold(FeedArp(Before, p, at), at)

FeedFragment(p, at) ==
    /\ p.kind # "arp" /\ ~IsTrusted(p) /\ p.frag # NoFragment
    /\ Fold(HandleFragment(FromIp(p, at), at, FragmentResult(p, at)), at)

FeedPacket(p, at) ==
    /\ p.kind # "arp" /\ ~IsTrusted(p) /\ p.frag = NoFragment
    /\ Fold(HandleL4(FromIp(p, at), p, at), at)

\* A frame that parse_packet does not know is not fed.
FeedEthernet ==
    \E p \in scenario.inputs, at \in TimeStamps :
        /\ Capture(p, at)
        /\ FeedTrusted(p, at) \/ FeedArpFrame(p, at) \/ FeedFragment(p, at) \/ FeedPacket(p, at)
=============================================================================
