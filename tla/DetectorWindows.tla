-------------------------- MODULE DetectorWindows --------------------------
(***************************************************************************)
(* The tumbling windows and the muting that the detectors of all three     *)
(* probes are built from (detectors.cpp of can_probe, host_probe and       *)
(* eth_probe).                                                             *)
(*                                                                         *)
(* A window is a record with its start, whether it has raised its alert,   *)
(* and what it counts.  It is opened by the input that finds it not yet    *)
(* open or over; "not yet open" is a start of 0 in can_probe and a flag of *)
(* its own in the others, which is a start before all times here.          *)
(***************************************************************************)
EXTENDS Integers, FiniteSets

Never == 99       \* a threshold that is out of reach
NotOpen == -1     \* the start of a window whose flag is not set

\* A window that counts inputs, and one that counts different things.
Counter(unset) == [start |-> unset, count |-> 0, alerted |-> FALSE]
Distinct(unset) == [start |-> unset, things |-> {}, alerted |-> FALSE]

\* now - since >= time for unsigned numbers: a time before it is long after it.
Elapsed(since, now, time) == now < since \/ now - since >= time

\* Mutant of Opened: a window ends only after its width, and is never reset to
\* anything but its start.
OpenedAndKept(w, fresh, now, width) ==
    IF w.start = fresh.start \/ Elapsed(w.start, now, width)
    THEN [w EXCEPT !.start = now]
    ELSE w

\* The window w when an input comes at time now; fresh is the same window new.
Opened(w, fresh, now, width) ==
    IF w.start = fresh.start THEN [w EXCEPT !.start = now]
    ELSE IF Elapsed(w.start, now, width) THEN [fresh EXCEPT !.start = now]
    ELSE w

Counted(w, threshold) ==
    [w EXCEPT !.count = @ + 1, !.alerted = @ \/ w.count + 1 >= threshold]

Added(w, thing, threshold) ==
    LET things == w.things \cup {thing}
    IN  [w EXCEPT !.things = things, !.alerted = @ \/ Cardinality(things) >= threshold]

\* Whether the input that made w of the open window was alerted.
Raised(open, w) == w.alerted /\ ~open.alerted

\* Per-key muting: muted says until when.
Muted(muted, key, now) == key \in DOMAIN muted /\ muted[key] > now
=============================================================================
