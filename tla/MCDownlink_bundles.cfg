SPECIFICATION FairSpec

CONSTANTS
    Bundles <- RuleBundles
    Versions <- RuleVersions
    Factory = {1}
    HasSeed = TRUE
    RuleFailures = {"removed", "renamed", "swapped", "stored"}
    RuleCrashes = {"seeded", "idle", "clear", "staged", "removed", "renamed", "swapped"}
    ConfigBundles <- ListBundles
    ConfigNames <- Names
    ConfigFailures = {"items", "versions", "stored"}
    ConfigCrashes = {"down", "idle", "items", "versions"}
    MaxTroubles = 2

INVARIANTS
    TypeOK
    NeverMixed
    AppliedStays

PROPERTIES
    NeverReplayed
    NewestReachProbes

\* When every bundle is installed or refused nothing is left to do.
CHECK_DEADLOCK FALSE
