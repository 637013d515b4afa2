--------------------------- MODULE TcpReassembly ---------------------------
(***************************************************************************)
(* The TCP streams of the Ethernet probe (stream_tcp.cpp), as operators on *)
(* a record: what add_segment and expire make of it.                       *)
(*                                                                         *)
(* A byte is a record that also says which sequence number its sender gave *)
(* it.  Sequence numbers wrap at SeqSpace; std::map keeps those of the     *)
(* buffered segments in the order of the plain numbers.                    *)
(***************************************************************************)
EXTENDS Integers, SequencesExt, Tables

CONSTANTS
    SeqSpace,       \* 2^32
    MaxFlows,       \* max_flows
    MaxStreamBytes, \* max_stream_bytes
    MaxTcpMem,      \* max_mem_bytes
    GapTimeout,     \* gap_timeout_ms
    IdleTimeout     \* idle_timeout_ms

ASSUME TcpAssumption ==
    /\ SeqSpace \in Nat /\ SeqSpace > 4 /\ SeqSpace % 2 = 0
    /\ MaxFlows \in Nat \ {0} /\ MaxStreamBytes \in Nat /\ MaxTcpMem \in Nat
    /\ GapTimeout \in Nat /\ IdleTimeout \in Nat

\* next_seq, ooo (the segments that came too early, by their first number), the
\* gap that is waited for, since when, and whether FIN was seen.
NewDirection == [initialized |-> FALSE, next |-> 0, ooo |-> <<>>,
                 gap |-> FALSE, since |-> 0, fin |-> FALSE]
NewFlow(life) == [dir |-> [i \in 0..1 |-> NewDirection], seen |-> 0, life |-> life]

\* flows by their key; lru: the least recently used key first; mem: the pool of
\* the bytes that came too early.
EmptyTcp == [flows |-> <<>>, lru |-> <<>>, mem |-> 0]

\* A loop of n rounds, of which those that have nothing to do change nothing.
Repeated(Round(_), n, x) ==
    LET after[i \in 0..n] == IF i = 0 THEN x ELSE Round(after[i - 1]) IN after[n]

\* The signed comparison of two numbers.
SeqLt(a, b) == (a - b) % SeqSpace >= SeqSpace \div 2
SeqLeq(a, b) == a = b \/ SeqLt(a, b)

End(start, data) == (start + Len(data)) % SeqSpace
Held(d) == MapThenSumSet(LAMBDA s : Len(d.ooo[s]), DOMAIN d.ooo)
HeldBy(flow) == Held(flow.dir[0]) + Held(flow.dir[1])

\* The two ends of a packet in their order, and which of them sent it.
Forward(p) ==
    p.src < p.dst \/ (p.src = p.dst /\ p.sport <= p.dport)
FlowKey(p) ==
    IF Forward(p) THEN <<p.src, p.sport, p.dst, p.dport>> ELSE <<p.dst, p.dport, p.src, p.sport>>
FlowDir(p) == IF Forward(p) THEN 0 ELSE 1

EraseFlow(t, key) ==
    [flows |-> Dropped(t.flows, {key}),
     lru |-> Others(t.lru, {key}),
     mem |-> t.mem - (IF key \in DOMAIN t.flows THEN HeldBy(t.flows[key]) ELSE 0)]

\* There are never more than MaxFlows, so that the loop ends after one.
FlowRoom(t, key) ==
    IF key \in DOMAIN t.flows \/ Cardinality(DOMAIN t.flows) < MaxFlows THEN t
    ELSE EraseFlow(t, Head(t.lru))

TouchFlow(t, key, now, life) ==
    LET flow == At(t.flows, key, NewFlow(life))
    IN  [t EXCEPT !.flows = Put(@, key, [flow EXCEPT !.seen = now]),
                  !.lru = Append(Others(@, {key}), key)]

-----------------------------------------------------------------------------
\* One direction, with the pool and what is delivered: x is [d, mem, out, evicted].

\* Mutant of Unseen: a segment that begins before next_seq is delivered whole.
UnseenOrNot(d, start, data) ==
    IF SeqLeq(End(start, data), d.next) THEN <<>> ELSE data

\* The bytes of a segment from next_seq on, which it does not begin after.
Unseen(d, start, data) ==
    SubSeq(data, ((d.next - start) % SeqSpace) + 1, Len(data))

\* They are delivered.
Deliver(x, start, data) ==
    LET new == Unseen(x.d, start, data)
    IN  [x EXCEPT !.d.next = (@ + Len(new)) % SeqSpace, !.out = @ \o new]

\* The same bytes have come already, in a segment that is buffered: the one that
\* begins there, or the one before it.
Dominated(ooo, start, end) ==
    LET before == {s \in DOMAIN ooo : s < start}
    IN  \/ start \in DOMAIN ooo /\ SeqLeq(end, End(start, ooo[start]))
        \/ before # {} /\ SeqLeq(end, End(Max(before), ooo[Max(before)]))

\* The buffered segments after it that it covers, up to the first that it does not.
Swallowed(ooo, start, end) ==
    {s \in DOMAIN ooo : s >= start
        /\ \A q \in DOMAIN ooo : start <= q /\ q <= s => SeqLeq(End(q, ooo[q]), end)}

\* A segment that comes too early is kept for later.
Buffer(x, start, data, now) ==
    LET end == End(start, data)
        gone == Swallowed(x.d.ooo, start, end)
        freed == MapThenSumSet(LAMBDA s : Len(x.d.ooo[s]), gone)
    IN  IF Held(x.d) + Len(data) > MaxStreamBytes \/ x.mem + Len(data) > MaxTcpMem
        THEN [x EXCEPT !.evicted = TRUE]
        ELSE IF Dominated(x.d.ooo, start, end) THEN x
        ELSE [x EXCEPT !.mem = @ - freed + Len(data),
                       !.d.ooo = Put(Dropped(@, gone), start, data),
                       !.d.since = IF x.d.gap THEN @ ELSE now,
                       !.d.gap = TRUE]

\* A gap that has lasted, or began at a later time, is skipped.
SkipGap(x, now) ==
    LET d == x.d
    IN  IF /\ d.ooo # <<>> /\ d.gap /\ (now < d.since \/ now - d.since >= GapTimeout)
           /\ SeqLt(d.next, Min(DOMAIN d.ooo))
        THEN [x EXCEPT !.d.next = Min(DOMAIN d.ooo), !.d.gap = FALSE]
        ELSE x

\* The first of the buffered segments is delivered, if it is next.
DrainFirst(x) ==
    LET first == Min(DOMAIN x.d.ooo)
        seg == x.d.ooo[first]
    IN  IF x.d.ooo = <<>> \/ ~SeqLeq(first, x.d.next) THEN x
        ELSE [Deliver(x, first, seg) EXCEPT
                    !.d.ooo = Dropped(@, {first}),
                    !.mem = @ - Len(seg)]

\* They are delivered as far as they are next.
Drain(x) ==
    LET y == Repeated(DrainFirst, Cardinality(DOMAIN x.d.ooo), x)
    IN  IF y.d.ooo = <<>> THEN [y EXCEPT !.d.gap = FALSE] ELSE y

AddData(x, start, data, now) ==
    IF data = <<>> THEN x
    ELSE Drain(SkipGap(
            IF SeqLeq(start, x.d.next) \/ SeqLeq(End(start, data), x.d.next)
            THEN Deliver(x, start, data)
            ELSE Buffer(x, start, data, now), now))

\* A SYN takes up a number before the data of the stream.
Initialized(d, p) ==
    IF d.initialized THEN d
    ELSE [d EXCEPT !.initialized = TRUE,
                   !.next = (p.seq + (IF "SYN" \in p.flags THEN 1 ELSE 0)) % SeqSpace]

\* A FIN takes one up after it; next_seq counts it whatever is still missing.
Finished(d, p) ==
    IF "FIN" \in p.flags /\ ~d.fin
    THEN [d EXCEPT !.fin = TRUE, !.next = (@ + 1) % SeqSpace] ELSE d

-----------------------------------------------------------------------------
\* add_segment.  The result: the new state, what is delivered, whether the flow
\* was closed, whether something was evicted.  life is the number that a flow
\* gets when it is new here.
AddSegment(t, p, now, life) ==
    LET key == FlowKey(p)
        dir == FlowDir(p)
        roomy == FlowRoom(t, key)
        fed == TouchFlow(roomy, key, now, life)
        bytes == [i \in DOMAIN p.data |->
                    [at |-> (p.seq + i - 1) % SeqSpace, byte |-> p.data[i]]]
        x == AddData([d |-> Initialized(fed.flows[key].dir[dir], p), mem |-> fed.mem,
                      out |-> <<>>, evicted |-> roomy # t], p.seq, bytes, now)
        flow == [fed.flows[key] EXCEPT !.dir[dir] = Finished(x.d, p)]
        after == [fed EXCEPT !.flows[key] = flow, !.mem = x.mem]
        result(tcp, data, closed, evicted) ==
            [flow |-> key, dir |-> dir, life |-> flow.life,
             tcp |-> tcp, data |-> data, closed |-> closed, evicted |-> evicted]
        closed == flow.dir[0].fin /\ flow.dir[1].fin
    IN  IF "RST" \in p.flags THEN result(EraseFlow(fed, key), <<>>, TRUE, roomy # t)
        ELSE result(IF closed THEN EraseFlow(after, key) ELSE after, x.out, closed, x.evicted)

\* expire().
ExpireFlows(t, now) ==
    LET idle == {k \in DOMAIN t.flows : now - t.flows[k].seen >= IdleTimeout}
    IN  [flows |-> Dropped(t.flows, idle),
         lru |-> Others(t.lru, idle),
         mem |-> t.mem - MapThenSumSet(LAMBDA k : HeldBy(t.flows[k]), idle)]

-----------------------------------------------------------------------------
TcpBounded(t) ==
    /\ t.mem = MapThenSumSet(LAMBDA k : HeldBy(t.flows[k]), DOMAIN t.flows)
    /\ t.mem <= MaxTcpMem
    /\ \A k \in DOMAIN t.flows, i \in 0..1 : Held(t.flows[k].dir[i]) <= MaxStreamBytes
    /\ Cardinality(DOMAIN t.flows) <= MaxFlows
    /\ ToSet(t.lru) = DOMAIN t.flows /\ Len(t.lru) = Cardinality(DOMAIN t.flows)
=============================================================================
