SPECIFICATION Spec

CONSTANTS
    Bundles <- ReissuedBundles
    Versions <- RuleVersions
    Factory = {1}
    HasSeed = TRUE
    RuleFailures = {}
    RuleCrashes = {}
    ConfigBundles <- ListBundles
    ConfigNames <- Names
    ConfigFailures = {}
    ConfigCrashes = {}
    MaxTroubles = 0

INVARIANT CurrentWhole

\* When every bundle is installed nothing is left to do.
CHECK_DEADLOCK FALSE
