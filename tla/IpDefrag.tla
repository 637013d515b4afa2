------------------------------ MODULE IpDefrag ------------------------------
(***************************************************************************)
(* The fragment table of the Ethernet probe (ip_defrag.cpp), as operators  *)
(* on a record: what add_fragment and expire make of it.                   *)
(*                                                                         *)
(* A byte is a record that also says which packet brought it.  An entry    *)
(* remembers the fragments it was made of, for the properties only.        *)
(***************************************************************************)
EXTENDS Integers, SequencesExt, Tables

CONSTANTS
    MaxDatagramLen, \* MAX_DATAGRAM_LEN
    MaxDatagrams,   \* max_datagrams
    MaxDefragMem,   \* max_mem_bytes
    DefragTimeout   \* timeout_ms

ASSUME DefragAssumption ==
    /\ MaxDatagramLen \in Nat /\ MaxDefragMem \in Nat
    /\ MaxDatagrams \in Nat \ {0} /\ DefragTimeout \in Nat

Hole == [from |-> 0, byte |-> 0]    \* a byte of a buffer that no fragment brought

\* table: the datagrams that are being put together: buf, covered (the intervals
\* <<begin, end>> that have come), total (0 until the last fragment has come), and
\* when they were last seen; lru: the least recently touched key first.
EmptyDefrag == [table |-> <<>>, lru |-> <<>>, mem |-> 0]
NewEntry == [buf |-> <<>>, covered |-> {}, total |-> 0, seen |-> 0, frags |-> <<>>]

\* Mutant of Without: the pool is not given back.
WithoutRefund(d, keys) ==
    [table |-> Dropped(d.table, keys),
     lru |-> Others(d.lru, keys),
     mem |-> d.mem]

\* d without the entries of these keys.
Without(d, keys) ==
    [table |-> Dropped(d.table, keys),
     lru |-> Others(d.lru, keys),
     mem |-> d.mem - MapThenSumSet(LAMBDA k : Len(d.table[k].buf), keys)]

\* Room for one more entry: there are never more than MaxDatagrams, so that the
\* loop ends after one.
WithRoom(d, key) ==
    IF key \in DOMAIN d.table \/ Cardinality(DOMAIN d.table) < MaxDatagrams THEN d
    ELSE Without(d, {Head(d.lru)})

Touched(d, key, now) ==
    LET entry == At(d.table, key, NewEntry)
    IN  [d EXCEPT !.table = Put(@, key, [entry EXCEPT !.seen = now]),
                  !.lru = Append(Others(@, {key}), key)]

\* The entries that make room for so many bytes more: from the front of lru, and
\* never the last, which was just touched.
Victims(d, more) ==
    LET front(n) == {d.lru[i] : i \in 1..n}
        most == Len(d.lru) - 1
    IN  front(Min({n \in 0..most :
            n = most \/ Without(d, front(n)).mem + more <= MaxDefragMem}))

\* Mutant of Copied: the last fragment wins.
CopiedOver(entry, f) ==
    [p \in 1..Max({Len(entry.buf), f.off + Len(f.bytes)}) |->
        IF p - f.off \in DOMAIN f.bytes THEN f.bytes[p - f.off]
        ELSE IF p \in DOMAIN entry.buf THEN entry.buf[p] ELSE Hole]

\* The buffer with the bytes of f that had not come before.
Copied(entry, f) ==
    [p \in 1..Max({Len(entry.buf), f.off + Len(f.bytes)}) |->
        IF /\ p - f.off \in DOMAIN f.bytes
           /\ \A c \in entry.covered : ~(c[1] < p /\ p <= c[2])
        THEN f.bytes[p - f.off]
        ELSE IF p \in DOMAIN entry.buf THEN entry.buf[p] ELSE Hole]

\* The intervals, with those that [begin, end) meets or touches made one.
Merged(covered, begin, end) ==
    LET met == {c \in covered : c[1] <= end /\ c[2] >= begin}
    IN  (covered \ met)
        \cup {<<Min({begin} \cup {c[1] : c \in met}), Max({end} \cup {c[2] : c \in met})>>}

WithFragment(entry, f) ==
    LET end == f.off + Len(f.bytes)
    IN  [entry EXCEPT !.buf = Copied(entry, f), !.covered = Merged(@, f.off, end),
                      !.total = IF f.more THEN @ ELSE end, !.frags = Append(@, f)]

IsComplete(entry) ==
    entry.total > 0 /\ \E end \in entry.total..Len(entry.buf) : entry.covered = {<<0, end>>}

Clipped(f) == [f EXCEPT !.bytes = SubSeq(@, 1, Min({Len(@), MaxDatagramLen - f.off}))]

\* The result: the new state, whether an entry was evicted, and the entry of the
\* datagram that is complete, or none.
AddFragment(d, key, frag, now) ==
    IF frag.bytes = <<>> \/ frag.off >= MaxDatagramLen
    THEN [defrag |-> d, evicted |-> FALSE, complete |-> <<>>]
    ELSE
    LET f == Clipped(frag)
        roomy == WithRoom(d, key)
        fed == Touched(roomy, key, now)
        entry == fed.table[key]
        grow == Max({0, f.off + Len(f.bytes) - Len(entry.buf)})
        rest == Without(fed, Victims(fed, grow))
        evicted == roomy # d \/ rest # fed
        full == WithFragment(entry, f)
    IN  IF rest.mem + grow > MaxDefragMem
        THEN [defrag |-> IF entry.buf = <<>> THEN Without(rest, {key}) ELSE rest,
              evicted |-> evicted, complete |-> <<>>]
        ELSE LET stored == [rest EXCEPT !.table[key] = full, !.mem = @ + grow]
             IN  IF IsComplete(full)
                 THEN [defrag |-> Without(stored, {key}), evicted |-> evicted,
                       complete |-> <<full>>]
                 ELSE [defrag |-> stored, evicted |-> evicted, complete |-> <<>>]

\* expire(): the entries that have not been touched for long.
ExpireDefrag(d, now) ==
    Without(d, {k \in DOMAIN d.table : now - d.table[k].seen >= DefragTimeout})

-----------------------------------------------------------------------------
\* The byte at p of the first fragment that has it, told without intervals.
FirstSeen(frags, p) ==
    LET is == {i \in DOMAIN frags : p - frags[i].off \in DOMAIN frags[i].bytes}
    IN  IF is = {} THEN Hole ELSE frags[Min(is)].bytes[p - frags[Min(is)].off]

DefragBounded(d) ==
    /\ d.mem = MapThenSumSet(LAMBDA k : Len(d.table[k].buf), DOMAIN d.table)
    /\ d.mem <= MaxDefragMem
    /\ Cardinality(DOMAIN d.table) <= MaxDatagrams
    /\ ToSet(d.lru) = DOMAIN d.table /\ Len(d.lru) = Cardinality(DOMAIN d.table)
=============================================================================
