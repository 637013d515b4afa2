------------------------------- MODULE MCIdsM -------------------------------
(***************************************************************************)
(* Instances of the IdsM engine for TLC.  Each configuration file picks a  *)
(* set of engine configurations, the API calls the environment makes and   *)
(* the bounds.                                                             *)
(***************************************************************************)
EXTENDS IdsM, TLC

CONSTANTS
    s1, s2,      \* SEv ids
    drive, park, \* block states
    r1, r2       \* reporter threads

Reporters == {r1, r2}
ReporterSymmetry == Permutations(Reporters)

\* No filter, both sinks.
Plain ==
    [default_reporting_mode |-> "DETAILED", blocked_states |-> {},
     forward_every_nth |-> 0, aggregation_interval_ms |-> 0, threshold |-> 0,
     thr_interval_ms |-> 0, sink_to_dem |-> TRUE, sink_to_idsr |-> TRUE]

WithMode(cfg, m)  == [cfg EXCEPT !.default_reporting_mode = m]
Blocked(cfg, B)   == [cfg EXCEPT !.blocked_states = B]
Nth(cfg, n)       == [cfg EXCEPT !.forward_every_nth = n]
Aggregate(cfg, i) == [cfg EXCEPT !.aggregation_interval_ms = i]
Thresh(cfg, t, i) == [cfg EXCEPT !.threshold = t, !.thr_interval_ms = i]

Config(sevConfigs) == [period |-> 1, sevs |-> sevConfigs]

\* Every filter on its own, all of them together, and a table Init rejects.
ChainConfigs ==
    {Config(s1 :> c) : c \in
        {Blocked(Plain, {park}), Nth(Plain, 3), Aggregate(Plain, 2),
         Thresh(Plain, 3, 2),
         Thresh(Aggregate(Nth(Blocked(Plain, {park}), 2), 1), 2, 1)}}
    \cup {[period |-> 2, sevs |-> s1 :> Aggregate(Plain, 1)]}

\* Two SEvs with windows of different lengths, and one of them with both.
WindowConfigs ==
    {Config(s1 :> Aggregate(Plain, 1) @@ s2 :> Thresh(Aggregate(Plain, 2), 2, 2)),
     Config(s1 :> Thresh(Plain, 2, 1) @@ s2 :> Aggregate(Plain, 2))}

FilterConfigs == ChainConfigs \cup WindowConfigs

\* A session with two SEvs may be followed by one with fewer.
LifecycleConfigs ==
    {Config(s1 :> Plain @@ s2 :> Plain), Config(s1 :> Aggregate(Plain, 1))}

LiveConfigs ==
    {Config(s1 :> Aggregate(Plain, 1) @@ s2 :> Plain)}

PlainConfigs == {Config(s1 :> Plain)}
=============================================================================
