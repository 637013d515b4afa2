---------------------------- MODULE RuleManager ----------------------------
(***************************************************************************)
(* The rule manager of idsm_managerd (rule_manager.cpp): a signed bundle   *)
(* is installed in a directory of its own, the link "current" is moved to  *)
(* it, its number is stored and the probes are restarted.  The process may *)
(* crash between any two of these steps and inside of some.                *)
(*                                                                         *)
(* The content of a directory is a function: rule file i holds the rule    *)
(* that the bundle content[i] has there.                                   *)
(***************************************************************************)
EXTENDS SignedBundle, Functions

CONSTANTS
    Bundles,      \* [seq -> [valid, hit, version, rules]], the bundles that may arrive
    Versions,     \* directory names, "v0" is the one of the factory's rules
    Factory,      \* the rule files of the factory's rules
    HasSeed,      \* there is a directory with the factory's rules
    RuleFailures, \* where the manager may be when the next step fails
    RuleCrashes   \* where the manager may be when the process crashes

Seqs == DOMAIN Bundles

ASSUME RuleAssumption ==
    /\ IsBundles(Bundles)
    /\ HasSeed \in BOOLEAN /\ (HasSeed => "v0" \in Versions)
    /\ \A s \in Seqs : Bundles[s].version \in Versions

VARIABLES
    dirs,      \* the directories there are, [version -> content]
    staging,   \* the content of rules.new, <<>> when there is none
    current,   \* the version the link "current" names
    maxSeq,    \* the file max_seq, 0 when there is none
    rpc,       \* where the manager is; "down" when there is no process
    bundle,    \* the bundle applyBundle works on
    loaded     \* the content the probes have loaded

\* History variables.
VARIABLES
    acked,     \* the highest number applyBundle returned Applied or Skipped for
    givenUp    \* the installation of the last bundle was given up half way

ruleStore   == <<dirs, staging, current, maxSeq>>
ruleHistory == <<acked, givenUp>>
ruleVars == <<ruleStore, rpc, bundle, loaded, ruleHistory>>

NoVersion == "none"

\* The content a bundle stands for, and what may be there of it.
Whole(s)   == [i \in Bundles[s].rules |-> s]
WholeV0    == [i \in Factory |-> 0]
Part(c)    == {Restrict(c, I) : I \in SUBSET DOMAIN c}

\* What the link leads to.
Resolves == current \in DOMAIN dirs
InForce  == IF Resolves THEN dirs[current] ELSE <<>>

\* applyBundle returns.
Return == rpc' = "idle" /\ bundle' = 0

WithDir(v, c) == [w \in DOMAIN dirs \cup {v} |-> IF w = v THEN c ELSE dirs[w]]

-----------------------------------------------------------------------------
InitRules ==
    /\ dirs = <<>>
    /\ staging = <<>>
    /\ current = NoVersion
    /\ maxSeq = 0
    /\ rpc = "down"
    /\ bundle = 0
    /\ loaded = <<>>
    /\ acked = 0
    /\ givenUp = FALSE

-----------------------------------------------------------------------------
\* seedFromImageDefaults, at the start of the process.

StartRules ==
    /\ rpc = "down"
    /\ IF Resolves \/ ~HasSeed
       THEN rpc' = "idle" /\ UNCHANGED dirs
       ELSE rpc' = "seeded" /\ dirs' = WithDir("v0", WholeV0)
    /\ UNCHANGED <<staging, current, maxSeq, bundle, loaded, ruleHistory>>

LinkSeed ==
    /\ rpc = "seeded"
    /\ current' = "v0"
    /\ rpc' = "idle"
    /\ UNCHANGED <<dirs, staging, maxSeq, bundle, loaded, ruleHistory>>

-----------------------------------------------------------------------------
\* applyBundle, in the thread of the MQTT library.

\* Parts 1 to 6.  A bundle may arrive again and out of order: two topics carry
\* bundles, they are retained, and QoS 1 repeats.
RefuseRules(s) ==
    /\ rpc = "idle" /\ Refused(Bundles, s, maxSeq)
    /\ UNCHANGED ruleVars

SkipRules(s) ==
    /\ rpc = "idle" /\ ForOthers(Bundles, s, maxSeq)
    /\ maxSeq' = s
    /\ acked' = Larger(acked, s)
    /\ UNCHANGED <<dirs, staging, current, rpc, bundle, loaded, givenUp>>

SkipRulesFails(s) ==
    /\ rpc = "idle" /\ ForOthers(Bundles, s, maxSeq) /\ "swapped" \in RuleFailures
    /\ givenUp' = (givenUp \/ s = Newest(Bundles))
    /\ UNCHANGED <<ruleStore, rpc, bundle, loaded, acked>>

\* Mutant of ClearStaging: what a crash has left in rules.new stays there.
ClearNothing(s) ==
    /\ rpc = "idle" /\ ForUs(Bundles, s, maxSeq)
    /\ bundle' = s
    /\ rpc' = "clear"
    /\ UNCHANGED <<dirs, staging, current, maxSeq, loaded, ruleHistory>>

\* Mutant of ClearStaging: the number is stored before the rules are installed.
ClearWithStore(s) ==
    /\ rpc = "idle" /\ ForUs(Bundles, s, maxSeq)
    /\ staging' = <<>>
    /\ bundle' = s
    /\ maxSeq' = s
    /\ rpc' = "clear"
    /\ UNCHANGED <<dirs, current, loaded, ruleHistory>>

\* rules.new is cleared and created again.
ClearStaging(s) ==
    /\ rpc = "idle" /\ ForUs(Bundles, s, maxSeq)
    /\ staging' = <<>>
    /\ bundle' = s
    /\ rpc' = "clear"
    /\ UNCHANGED <<dirs, current, maxSeq, loaded, ruleHistory>>

DeliverRules(s) == RefuseRules(s) \/ SkipRules(s) \/ ClearStaging(s)

\* The rule files are written; whether that worked is not looked at.
Outcomes(c) == IF "clear" \in RuleFailures THEN Part(c) ELSE {c}

StageRules ==
    /\ rpc = "clear"
    /\ \E c \in Outcomes(Whole(bundle)) :
        staging' = [i \in DOMAIN staging \cup DOMAIN c |->
                       IF i \in DOMAIN c THEN c[i] ELSE staging[i]]
    /\ rpc' = "staged"
    /\ UNCHANGED <<dirs, current, maxSeq, bundle, loaded, ruleHistory>>

Target == Bundles[bundle].version

RemoveTarget ==
    /\ rpc = "staged"
    /\ dirs' = Restrict(dirs, DOMAIN dirs \ {Target})
    /\ rpc' = "removed"
    /\ UNCHANGED <<staging, current, maxSeq, bundle, loaded, ruleHistory>>

RenameStaging ==
    /\ rpc = "removed"
    /\ dirs' = WithDir(Target, staging)
    /\ staging' = <<>>
    /\ rpc' = "renamed"
    /\ UNCHANGED <<current, maxSeq, bundle, loaded, ruleHistory>>

\* The new link is made beside the old one and renamed over it.
SwapCurrent ==
    /\ rpc = "renamed"
    /\ current' = Target
    /\ rpc' = "swapped"
    /\ UNCHANGED <<dirs, staging, maxSeq, bundle, loaded, ruleHistory>>

StoreMaxSeq ==
    /\ rpc = "swapped"
    /\ maxSeq' = bundle
    /\ rpc' = "stored"
    /\ UNCHANGED <<dirs, staging, current, bundle, loaded, ruleHistory>>

\* A probe that starts reads what the link leads to.
ProbesReadRules == loaded' = InForce

\* reload_cmd restarts the probes.
ReloadProbes ==
    /\ rpc = "stored"
    /\ ProbesReadRules
    /\ acked' = Larger(acked, bundle)
    /\ Return
    /\ UNCHANGED <<ruleStore, givenUp>>

\* A step fails: applyBundle returns Rejected, and nothing is taken back.
InstallFails ==
    /\ rpc \in RuleFailures
    /\ givenUp' = (givenUp \/ bundle = Newest(Bundles))
    /\ Return
    /\ UNCHANGED <<ruleStore, loaded, acked>>

\* The process crashes; a directory that is being written, copied or removed
\* keeps a part of its files.
CrashRules ==
    /\ rpc \in RuleCrashes
    /\ rpc' = "down"
    /\ bundle' = 0
    /\ staging' \in IF rpc = "clear" THEN Part(Whole(bundle)) ELSE {staging}
    /\ dirs' \in CASE rpc = "staged" /\ Target \in DOMAIN dirs ->
                        {WithDir(Target, c) : c \in Part(dirs[Target])}
                   [] rpc = "seeded" -> {WithDir("v0", c) : c \in Part(WholeV0)}
                   [] OTHER -> {dirs}
    /\ UNCHANGED <<current, maxSeq, loaded, ruleHistory>>

-----------------------------------------------------------------------------
Install == StageRules \/ RemoveTarget \/ RenameStaging \/ SwapCurrent \/ StoreMaxSeq

-----------------------------------------------------------------------------
\* Properties.

\* What may be in a directory: rule files of the factory or of a bundle for us.
RuleFiles == Factory \cup UNION {Bundles[s].rules : s \in Seqs}
Contents  == UNION {[I -> Ours(Bundles) \cup {0}] : I \in SUBSET RuleFiles}

\* Every variable keeps its type: rules are the factory's or of a good bundle for
\* this vehicle, and no other bundle's number is taken.
RuleTypeOK ==
    /\ DOMAIN dirs \subseteq Versions /\ \A v \in DOMAIN dirs : dirs[v] \in Contents
    /\ staging \in Contents /\ loaded \in Contents
    /\ current \in Versions \cup {NoVersion}
    /\ maxSeq \in Good(Bundles) \cup {0} /\ acked \in Good(Bundles) \cup {0}
    /\ bundle \in Ours(Bundles) \cup {0}
    /\ rpc \in {"down", "seeded", "idle", "clear", "staged", "removed", "renamed",
                "swapped", "stored"}
    /\ givenUp \in BOOLEAN

\* Anti-rollback (rule_manager.h:24): once applyBundle has answered Applied or
\* Skipped for a bundle, no bundle up to it is ever put in force again, whatever
\* crashes, write failures, repetitions and reorderings come after it.
NoReplay ==
    [][rpc = "renamed" /\ rpc' = "swapped" => bundle > acked]_ruleVars

\* Probes never load the rules of two bundles at once: what the link leads to is
\* of one bundle, even if it is read while the bundle is replaced, or after a
\* crash that left rules.new or a version half written.
NeverMixed ==
    \A i, j \in DOMAIN InForce : InForce[i] = InForce[j]

\* doc 10.4 step 6, rule_manager.cpp:228: the probes always read a complete
\* version once there is one.
CurrentWhole ==
    current # NoVersion => InForce \in {Whole(s) : s \in Seqs} \cup {WholeV0}

\* The last bundle for this vehicle is in force in the probes at some time,
\* over crashes, or its installation failed and the cloud was told.
NewestRuns ==
    []<>(givenUp \/ loaded = Whole(Newest(Bundles)))
=============================================================================
