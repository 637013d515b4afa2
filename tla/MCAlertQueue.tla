---------------------------- MODULE MCAlertQueue ----------------------------
(***************************************************************************)
(* Instances of the alert queue for TLC.                                   *)
(***************************************************************************)
EXTENDS AlertQueue

CONSTANTS a1, a2, a3    \* alerts

\* Lines of different lengths: offsets of one line fall inside another one.
Sizes == [a \in Alerts |-> IF a = a1 THEN 2 ELSE 3]

\* Where the uploader may be when the process crashes.
Anywhere == {"idle", "batch", "mark", "save", "compact", "truncated"}

\* Everywhere but between the cut of the file and the save of the cursor, where
\* a stale cursor is left behind (see the run that allows it).
ExceptTruncated == Anywhere \ {"truncated"}

Calmly == [faults |-> {}, crashPoints |-> ExceptTruncated]
Stormy == [faults |-> {"tear", "append", "save"}, crashPoints |-> Anywhere]

CalmAndStormy == {Calmly, Stormy}
CrashesOnly   == {[faults |-> {}, crashPoints |-> Anywhere]}
=============================================================================
