---------------------------- MODULE DurableFifo ----------------------------
(***************************************************************************)
(* What an alert queue promises its users (alert_queue.h, "at least once,  *)
(* resumed where it stopped after a restart"): alerts are handed to the    *)
(* uploader in the order in which they were logged, none is left out, and  *)
(* a restart may only go back, never forward.                              *)
(***************************************************************************)
EXTENDS Naturals, Sequences

CONSTANTS
    Alerts,     \* what may be logged
    MaxBatch    \* alerts handed over at once

VARIABLES
    log,    \* everything logged so far
    next,   \* how much of it the uploader has taken
    handed  \* what was handed over, in order, with repetitions

fifoVars == <<log, next, handed>>

FifoInit == log = <<>> /\ next = 0 /\ handed = <<>>

LogOne(a) ==
    /\ log' = Append(log, a)
    /\ UNCHANGED <<next, handed>>

Hand(n) ==
    /\ next + n <= Len(log)
    /\ handed' = handed \o SubSeq(log, next + 1, next + n)
    /\ next' = next + n
    /\ UNCHANGED log

\* A restart, which may find one more alert than was acknowledged.
GoBack(n) ==
    /\ next' = n
    /\ log' \in {log} \cup {Append(log, a) : a \in Alerts}
    /\ UNCHANGED handed

FifoNext ==
    \/ \E a \in Alerts : LogOne(a)
    \/ \E n \in 1..MaxBatch : Hand(n)
    \/ \E n \in 0..next : GoBack(n)

FifoSpec == FifoInit /\ [][FifoNext]_fifoVars
=============================================================================
