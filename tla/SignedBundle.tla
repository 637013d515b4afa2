---------------------------- MODULE SignedBundle ----------------------------
(***************************************************************************)
(* What the rule manager and the configuration manager of idsm_managerd    *)
(* have in common: the decision about a signed bundle from the cloud       *)
(* (rule_manager.cpp, config_manager.cpp: the parts 1 to 6 of applyBundle).*)
(*                                                                         *)
(* The cloud numbers its bundles, so a bundle is known by its number s.    *)
(* What the code computes from the bundle alone is part of it: valid       *)
(* stands for the fields, the dates, the signature and the key's id, hit   *)
(* for the target that is this vehicle.                                    *)
(***************************************************************************)
EXTENDS Integers, FiniteSets

\* Every bundle that may arrive, by number.
IsBundles(bundles) ==
    /\ DOMAIN bundles \subseteq Nat \ {0}
    /\ \A s \in DOMAIN bundles : bundles[s].valid \in BOOLEAN /\ bundles[s].hit \in BOOLEAN

\* Mutants of Refused: the number may be any; the signature and the dates do not
\* count.
RefusedIfInvalid(bundles, s, maxSeq) == ~bundles[s].valid
RefusedIfOld(bundles, s, maxSeq)     == s <= maxSeq

\* The bundle is rejected before anything is changed.
Refused(bundles, s, maxSeq) == ~bundles[s].valid \/ s <= maxSeq

\* It is good, but for another vehicle, unit or node: only its number is taken.
ForOthers(bundles, s, maxSeq) == ~Refused(bundles, s, maxSeq) /\ ~bundles[s].hit

\* It is to be installed.
ForUs(bundles, s, maxSeq) == ~Refused(bundles, s, maxSeq) /\ bundles[s].hit

\* The numbers of the good bundles, and of those among them for this vehicle.
Good(bundles) == {s \in DOMAIN bundles : bundles[s].valid}
Ours(bundles) == {s \in Good(bundles) : bundles[s].hit}

\* The last bundle for this vehicle.
Newest(bundles) == CHOOSE s \in Ours(bundles) : \A t \in Ours(bundles) : t <= s

Larger(a, b) == IF a > b THEN a ELSE b
=============================================================================
