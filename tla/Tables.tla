------------------------------- MODULE Tables -------------------------------
(***************************************************************************)
(* The maps of the Ethernet probe: a table is a function of its keys.      *)
(***************************************************************************)
EXTENDS Functions, Integers, Sequences

\* The entry of a key, fresh when there is none.
At(table, key, fresh) == IF key \in DOMAIN table THEN table[key] ELSE fresh

\* The table with this entry, new or in place of the old one.
Put(table, key, entry) ==
    [k \in DOMAIN table \cup {key} |-> IF k = key THEN entry ELSE table[k]]

\* The table without these keys.
Dropped(table, keys) == Restrict(table, DOMAIN table \ keys)

\* The elements of a sequence at these places, in their order.
Those(s, places) ==
    LET first[n \in 0..Len(s)] ==
            IF n = 0 THEN <<>>
            ELSE IF n \in places THEN Append(first[n - 1], s[n]) ELSE first[n - 1]
    IN  first[Len(s)]

\* A list of keys without these, in its order (SelectSeq, told by a function).
Others(list, keys) ==
    LET left[i \in 0..Len(list)] ==
            IF i = 0 THEN <<>>
            ELSE IF list[i] \in keys THEN left[i - 1] ELSE Append(left[i - 1], list[i])
    IN  left[Len(list)]
=============================================================================
