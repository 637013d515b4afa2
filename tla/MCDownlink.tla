----------------------------- MODULE MCDownlink -----------------------------
(***************************************************************************)
(* Instances of the downlink for TLC.                                      *)
(***************************************************************************)
EXTENDS Downlink, TLC

Bundle(valid, hit, version, rules) ==
    [valid |-> valid, hit |-> hit, version |-> version, rules |-> rules]

Lists(valid, hit, items) == [valid |-> valid, hit |-> hit, items |-> items]

\* One for another vehicle, one with two rules, one with a single rule, and one
\* that has expired; each has a version of its own.
RuleBundles ==
    1 :> Bundle(TRUE, FALSE, "v1", {1})
    @@ 2 :> Bundle(TRUE, TRUE, "v1", {1, 2})
    @@ 3 :> Bundle(TRUE, TRUE, "v2", {1})
    @@ 4 :> Bundle(FALSE, TRUE, "v3", {1})

\* One for another vehicle, one with two lists, one with one of them, and one
\* whose signature does not match.
ListBundles ==
    1 :> Lists(TRUE, FALSE, <<"apps">>)
    @@ 2 :> Lists(TRUE, TRUE, <<"apps", "ports">>)
    @@ 3 :> Lists(TRUE, TRUE, <<"ports">>)
    @@ 4 :> Lists(FALSE, TRUE, <<"apps">>)

\* A version that is installed is issued again with a new number.
ReissuedBundles ==
    1 :> Bundle(TRUE, TRUE, "v1", {1, 2}) @@ 2 :> Bundle(TRUE, TRUE, "v1", {1, 2})

RuleVersions == {"v0", "v1", "v2", "v3"}
Names == {"apps", "ports"}
=============================================================================
