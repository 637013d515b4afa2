--------------------------- MODULE Downlink_proofs ---------------------------
(***************************************************************************)
(* Proofs about the rule manager and the configuration manager, for every  *)
(* set of bundles in every order, and for failures and crashes between any *)
(* two steps.                                                              *)
(***************************************************************************)
EXTENDS Downlink, SequenceLemmas, TLAPS

-----------------------------------------------------------------------------
\* The inductive invariant of the rule manager.

\* All files of a directory are of one bundle.
OfOne(c)     == \A i, j \in DOMAIN c : c[i] = c[j]
OfBundle(c)  == \A i \in DOMAIN c : c[i] = bundle

\* No directory mixes two bundles, rules.new is empty when it is going to be
\* filled, and holds the files of the bundle in hand when it is moved; the factory's
\* rules are only installed when there are some.
Unmixed ==
    /\ rpc = "seeded" => HasSeed
    /\ \A v \in DOMAIN dirs : OfOne(dirs[v])
    /\ rpc = "clear" => staging = <<>>
    /\ rpc \in {"staged", "removed"} => OfBundle(staging)

\* The bundle in hand is newer than every acknowledged one until its number is
\* stored.
NumbersRise ==
    /\ acked <= maxSeq
    /\ rpc \in {"clear", "staged", "removed", "renamed", "swapped"} => bundle > maxSeq
    /\ rpc = "stored" => bundle = maxSeq
    /\ rpc \in {"clear", "staged", "removed", "renamed", "swapped", "stored"} =>
         bundle \in Ours(Bundles)

RuleInv == RuleTypeOK /\ Unmixed /\ NumbersRise

-----------------------------------------------------------------------------
\* The inductive invariant of the configuration manager.

ConfigNumbersRise ==
    /\ \A s \in answered : s <= configMaxSeq
    /\ cpc \in {"items", "versions"} => cbundle > configMaxSeq
    /\ cpc = "stored" => cbundle = configMaxSeq
    /\ cpc \in {"items", "versions", "stored"} => cbundle \in Ours(ConfigBundles)

\* What is to become _versions.json forgets no acknowledged bundle, the items of the
\* bundle in hand are written but for those in todo, and all of them afterwards.
ItemsWritten ==
    /\ AppliedStays
    /\ cpc = "items" =>
         /\ \A s \in answered : ConfigBundles[s].hit => \A n \in Items(s) : versions[n] >= s
         /\ \A n \in Items(cbundle) \ ToSet(todo) : files[n] = cbundle /\ versions[n] = cbundle
    /\ cpc \in {"versions", "stored"} =>
         \A n \in Items(cbundle) : files[n] = cbundle /\ versionsFile[n] = cbundle

ConfigInv == ConfigTypeOK /\ ConfigNumbersRise /\ ItemsWritten

Inv == RuleInv /\ ConfigInv

-----------------------------------------------------------------------------
\* What a step is to each of the two managers.

RuleAction ==
    \/ StartRules \/ LinkSeed
    \/ \E s \in Seqs : DeliverRules(s) \/ SkipRulesFails(s)
    \/ Install \/ InstallFails \/ CrashRules \/ ReloadProbes
    \/ ProbesReadRules /\ UNCHANGED <<ruleStore, rpc, bundle, ruleHistory>>
    \/ UNCHANGED ruleVars

ConfigAction ==
    \/ StartConfig
    \/ \E s \in ConfigSeqs : DeliverConfig(s) \/ SkipConfigFails(s)
    \/ InstallConfig \/ ConfigFails \/ CrashConfig \/ ReloadConfig
    \/ ProbesReadConfig /\ UNCHANGED <<configDisk, cpc, configWork, configHistory>>
    \/ UNCHANGED configVars

\* The thread of the MQTT library works for one manager at a time: a step is one of
\* each of them, often an idle one.
LEMMA StepsOfBoth == [Next]_downlinkVars => RuleAction /\ ConfigAction
<1> USE DEF RuleAction, ConfigAction
<1>1. CASE StartDaemon
  BY <1>1 DEF StartDaemon, Rules, Config
<1>2. ASSUME NEW s \in Seqs, RuleMessage(s) PROVE RuleAction /\ ConfigAction
  BY <1>2 DEF RuleMessage, Rules
<1>3. ASSUME NEW s \in ConfigSeqs, ConfigMessage(s) PROVE RuleAction /\ ConfigAction
  BY <1>3 DEF ConfigMessage, Config
<1>4. CASE Rules(Install) \/ Config(InstallConfig)
  BY <1>4 DEF Rules, Config
<1>5. CASE RulesFail \/ ConfigsFail
  BY <1>5 DEF RulesFail, ConfigsFail, Trouble
<1>6. CASE Reload \/ ProbeRestart
  BY <1>6 DEF Reload, ProbeRestart
<1>7. CASE Crash \/ UNCHANGED downlinkVars
  BY <1>7 DEF Crash, Trouble, downlinkVars
<1>8. QED
  BY ONLY <1>1, <1>2, <1>3, <1>4, <1>5, <1>6, <1>7 DEF Next

-----------------------------------------------------------------------------
\* The directories of the rule manager.

LEMMA ContentsAre ==
    ASSUME NEW c
    PROVE  c \in Contents <=> /\ c = [i \in DOMAIN c |-> c[i]]
                              /\ DOMAIN c \subseteq RuleFiles
                              /\ \A i \in DOMAIN c : c[i] \in Ours(Bundles) \cup {0}
BY DEF Contents

\* What a crash or a failed write leaves of a directory.
LEMMA PartOfContents ==
    ASSUME NEW c \in Contents, NEW d \in Part(c)
    PROVE  d \in Contents /\ DOMAIN d \subseteq DOMAIN c /\ \A i \in DOMAIN d : d[i] = c[i]
<1>1. PICK I \in SUBSET DOMAIN c : d = [i \in I |-> c[i]]
  BY DEF Part, Restrict
<1>2. QED BY <1>1, ContentsAre

LEMMA BundleContents ==
    /\ WholeV0 \in Contents /\ <<>> \in Contents
    /\ \A s \in Ours(Bundles) : Whole(s) \in Contents
<1>1. WholeV0 \in Contents
  BY ContentsAre DEF WholeV0, RuleFiles
<1>2. <<>> \in Contents
  <2>1. <<>> \in [{} -> Ours(Bundles) \cup {0}]
    OBVIOUS
  <2>2. QED BY <2>1 DEF Contents
<1>3. ASSUME NEW s \in Ours(Bundles) PROVE Whole(s) \in Contents
  BY ContentsAre DEF Whole, RuleFiles, Ours, Good, Seqs
<1>4. QED BY <1>1, <1>2, <1>3

LEMMA WithDirTyped ==
    ASSUME NEW v \in Versions, NEW c \in Contents, OfOne(c),
           DOMAIN dirs \subseteq Versions,
           \A w \in DOMAIN dirs : dirs[w] \in Contents /\ OfOne(dirs[w]),
           dirs' = WithDir(v, c)
    PROVE  /\ DOMAIN dirs' \subseteq Versions
           /\ \A w \in DOMAIN dirs' : dirs'[w] \in Contents /\ OfOne(dirs'[w])
BY DEF WithDir

LEMMA NumbersAre ==
    /\ Good(Bundles) \subseteq Nat \ {0} /\ Ours(Bundles) \subseteq Good(Bundles)
    /\ Good(ConfigBundles) \subseteq Nat \ {0} /\ Ours(ConfigBundles) \subseteq Good(ConfigBundles)
BY RuleAssumption, ConfigAssumption DEF IsBundles, Good, Ours

-----------------------------------------------------------------------------
\* The steps of the rule manager.

LEMMA RuleStep ==
    ASSUME RuleInv, RuleAction
    PROVE  RuleInv'
<1> USE RuleAssumption, NumbersAre, BundleContents
    DEF RuleInv, RuleTypeOK, Unmixed, NumbersRise, ruleStore, ruleHistory, OfOne, OfBundle
<1>1. CASE StartRules
  <2>1. CASE rpc' = "idle" /\ UNCHANGED dirs
    BY <1>1, <2>1 DEF StartRules
  <2>2. CASE HasSeed /\ rpc' = "seeded" /\ dirs' = WithDir("v0", WholeV0)
    <3>1. OfOne(WholeV0)
      BY DEF WholeV0
    <3>2. /\ DOMAIN dirs' \subseteq Versions
          /\ \A w \in DOMAIN dirs' : dirs'[w] \in Contents /\ OfOne(dirs'[w])
      BY <2>2, <3>1, WithDirTyped
    <3>3. QED BY <1>1, <2>2, <3>2 DEF StartRules
  <2>3. QED BY <1>1, <2>1, <2>2 DEF StartRules
<1>2. CASE LinkSeed
  BY <1>2 DEF LinkSeed
<1>3. ASSUME NEW s \in Seqs, DeliverRules(s) \/ SkipRulesFails(s)
      PROVE  RuleInv'
  <2>1. CASE RefuseRules(s) \/ SkipRulesFails(s)
    BY ZenonT(30), <2>1 DEF RefuseRules, SkipRulesFails, ruleVars
  <2>2. CASE SkipRules(s)
    <3>1. s \in Good(Bundles) /\ s > maxSeq
      BY <2>2 DEF SkipRules, ForOthers, Refused, Good, Seqs, IsBundles
    <3>2. QED BY <2>2, <3>1 DEF SkipRules, Larger
  <2>3. CASE ClearStaging(s)
    <3>1. s \in Ours(Bundles) /\ s > maxSeq
      BY <2>3 DEF ClearStaging, ForUs, Refused, Good, Ours, Seqs, IsBundles
    <3>2. QED BY <2>3, <3>1 DEF ClearStaging
  <2>4. QED BY ONLY <1>3, <2>1, <2>2, <2>3 DEF DeliverRules
<1>4. CASE StageRules
  <2>1. PICK c \in Outcomes(Whole(bundle)) :
          staging' = [i \in DOMAIN staging \cup DOMAIN c |->
                         IF i \in DOMAIN c THEN c[i] ELSE staging[i]]
    BY <1>4 DEF StageRules
  <2>2. bundle \in Ours(Bundles) /\ DOMAIN staging = {}
    BY <1>4 DEF StageRules
  <2>3. c \in Contents /\ \A i \in DOMAIN c : c[i] = bundle
    BY <2>1, <2>2, PartOfContents DEF Outcomes, Whole
  <2>4. DOMAIN staging' = DOMAIN c /\ \A i \in DOMAIN c : staging'[i] = bundle
    BY <2>1, <2>2, <2>3
  <2>5. staging' \in Contents
    BY <2>1, <2>2, <2>3, <2>4, ContentsAre
  <2>6. QED BY <1>4, <2>4, <2>5 DEF StageRules
<1>5. CASE RemoveTarget
  <2>1. /\ DOMAIN dirs' \subseteq DOMAIN dirs
        /\ \A w \in DOMAIN dirs' : dirs'[w] = dirs[w]
    BY <1>5 DEF RemoveTarget, Restrict
  <2>2. /\ DOMAIN dirs' \subseteq Versions
        /\ \A w \in DOMAIN dirs' : dirs'[w] \in Contents /\ OfOne(dirs'[w])
    BY <2>1
  <2>3. QED BY <1>5, <2>2 DEF RemoveTarget
<1>6. CASE RenameStaging
  <2>1. Target \in Versions
    BY <1>6 DEF RenameStaging, Target, Ours, Good, Seqs
  <2>2. /\ DOMAIN dirs' \subseteq Versions
        /\ \A w \in DOMAIN dirs' : dirs'[w] \in Contents /\ OfOne(dirs'[w])
    BY <1>6, <2>1, WithDirTyped DEF RenameStaging
  <2>3. QED BY <1>6, <2>2 DEF RenameStaging
<1>7. CASE SwapCurrent
  <2>1. Target \in Versions
    BY <1>7 DEF SwapCurrent, Target, Ours, Good, Seqs
  <2>2. QED BY <1>7, <2>1 DEF SwapCurrent
<1>8. CASE StoreMaxSeq
  BY <1>8 DEF StoreMaxSeq
<1>9. CASE InstallFails
  BY <1>9 DEF InstallFails, Return
<1>10. CASE CrashRules
  <2>1. staging' \in Contents
    BY <1>10, PartOfContents DEF CrashRules
  <2>2. /\ DOMAIN dirs' \subseteq Versions
        /\ \A w \in DOMAIN dirs' : dirs'[w] \in Contents /\ OfOne(dirs'[w])
    <3>1. CASE rpc = "staged" /\ Target \in DOMAIN dirs
      <4>1. PICK c \in Part(dirs[Target]) : dirs' = WithDir(Target, c)
        BY <1>10, <3>1 DEF CrashRules
      <4>2. c \in Contents /\ OfOne(c) /\ Target \in Versions
        BY <3>1, <4>1, PartOfContents
      <4>3. QED BY <4>1, <4>2, WithDirTyped
    <3>2. CASE rpc = "seeded"
      <4>1. PICK c \in Part(WholeV0) : dirs' = WithDir("v0", c)
        BY <1>10, <3>2 DEF CrashRules
      <4>2. c \in Contents /\ OfOne(c)
        BY <4>1, PartOfContents DEF WholeV0
      <4>3. "v0" \in Versions
        BY <3>2
      <4>4. QED BY <4>1, <4>2, <4>3, WithDirTyped
    <3>3. CASE UNCHANGED dirs
      BY <3>3
    <3>4. QED BY <1>10, <3>1, <3>2, <3>3 DEF CrashRules
  <2>3. QED BY <1>10, <2>1, <2>2 DEF CrashRules
<1>11. CASE ReloadProbes \/ (ProbesReadRules /\ UNCHANGED <<ruleStore, rpc, bundle, ruleHistory>>)
  <2>1. loaded' \in Contents
    BY <1>11 DEF ReloadProbes, ProbesReadRules, InForce, Resolves
  <2>2. QED BY <1>11, <2>1 DEF ReloadProbes, Return, Larger
<1>12. CASE UNCHANGED ruleVars
  BY <1>12 DEF ruleVars
<1>13. QED
  BY ONLY RuleAction, <1>1, <1>2, <1>3, <1>4, <1>5, <1>6, <1>7, <1>8, <1>9, <1>10, <1>11,
          <1>12
     DEF RuleAction, Install

-----------------------------------------------------------------------------
\* The steps of the configuration manager.

LEMMA ConfigTyped ==
    ASSUME ConfigTypeOK, ConfigNumbersRise, ConfigAction
    PROVE  ConfigTypeOK' /\ ConfigNumbersRise'
<1> USE ConfigAssumption, NumbersAre
    DEF ConfigTypeOK, ConfigNumbersRise, configDisk, configWork, configHistory, NoWork
<1>1. CASE StartConfig
  BY <1>1 DEF StartConfig
<1>2. ASSUME NEW s \in ConfigSeqs, DeliverConfig(s) \/ SkipConfigFails(s)
      PROVE  ConfigTypeOK' /\ ConfigNumbersRise'
  <2>1. CASE RefuseConfig(s) \/ SkipConfigFails(s)
    BY <2>1 DEF RefuseConfig, SkipConfigFails, configVars
  <2>2. CASE SkipConfig(s)
    <3>1. s \in Good(ConfigBundles) /\ s > configMaxSeq
      BY <2>2 DEF SkipConfig, ForOthers, Refused, Good, ConfigSeqs, IsBundles
    <3>2. QED BY <2>2, <3>1 DEF SkipConfig
  <2>3. CASE BeginConfig(s)
    <3>1. s \in Ours(ConfigBundles) /\ s > configMaxSeq
      BY <2>3 DEF BeginConfig, ForUs, Refused, Good, Ours, ConfigSeqs, IsBundles
    <3>2. QED BY <2>3, <3>1 DEF BeginConfig
  <2>4. QED BY ONLY <1>2, <2>1, <2>2, <2>3 DEF DeliverConfig
<1>3. CASE WriteItem
  <2>1. Head(todo) \in ConfigNames /\ Tail(todo) \in Seq(ConfigNames)
    BY <1>3 DEF WriteItem
  <2>2. QED BY <1>3, <2>1 DEF WriteItem
<1>4. CASE WriteVersions
  BY <1>4 DEF WriteVersions
<1>5. CASE StoreConfigSeq
  BY <1>5 DEF StoreConfigSeq
<1>6. CASE ConfigFails
  BY <1>6 DEF ConfigFails
<1>7. CASE CrashConfig
  BY <1>7 DEF CrashConfig
<1>8. CASE ReloadConfig
  BY <1>8 DEF ReloadConfig, ProbesReadConfig
<1>9. CASE ProbesReadConfig /\ UNCHANGED <<configDisk, cpc, configWork, configHistory>>
  BY <1>9 DEF ProbesReadConfig
<1>10. CASE UNCHANGED configVars
  BY <1>10 DEF configVars
<1>11. QED
  BY ONLY ConfigAction, <1>1, <1>2, <1>3, <1>4, <1>5, <1>6, <1>7, <1>8, <1>9, <1>10
     DEF ConfigAction, InstallConfig

LEMMA ItemsStep ==
    ASSUME ConfigInv, ConfigAction
    PROVE  ItemsWritten'
<1> USE ConfigAssumption, NumbersAre
    DEF ConfigInv, ConfigTypeOK, ConfigNumbersRise, ItemsWritten, AppliedStays, Items,
        configDisk, configWork, configHistory
<1>1. CASE StartConfig
  BY <1>1 DEF StartConfig
<1>2. ASSUME NEW s \in ConfigSeqs, DeliverConfig(s) \/ SkipConfigFails(s)
      PROVE  ItemsWritten'
  <2>1. CASE RefuseConfig(s) \/ SkipConfigFails(s)
    BY <2>1 DEF RefuseConfig, SkipConfigFails, configVars
  <2>2. CASE SkipConfig(s)
    BY <2>2 DEF SkipConfig, ForOthers
  <2>3. CASE BeginConfig(s)
    BY <2>3 DEF BeginConfig
  <2>4. QED BY ONLY <1>2, <2>1, <2>2, <2>3 DEF DeliverConfig
<1>3. CASE WriteItem
  <2>1. Head(todo) \in ConfigNames /\ Items(cbundle) \subseteq ConfigNames
    BY <1>3 DEF WriteItem, ToSet, Ours, Good, ConfigSeqs
  <2>2. ToSet(todo) \ ToSet(todo') \subseteq {Head(todo)}
    BY <1>3, FirstElement DEF WriteItem
  <2>3. \A n \in ConfigNames : files'[n] \in {files[n], cbundle}
                            /\ versions'[n] \in {versions[n], cbundle}
    BY <1>3 DEF WriteItem
  <2>4. QED BY <1>3, <2>1, <2>2, <2>3 DEF WriteItem
<1>4. CASE WriteVersions
  <2>1. ToSet(todo) = {}
    BY <1>4 DEF WriteVersions, ToSet
  <2>2. QED BY <1>4, <2>1 DEF WriteVersions
<1>5. CASE StoreConfigSeq
  BY <1>5 DEF StoreConfigSeq
<1>6. CASE ConfigFails
  BY <1>6 DEF ConfigFails
<1>7. CASE CrashConfig
  BY <1>7 DEF CrashConfig
<1>8. CASE ReloadConfig
  BY <1>8 DEF ReloadConfig
<1>9. CASE ProbesReadConfig /\ UNCHANGED <<configDisk, cpc, configWork, configHistory>>
  BY <1>9
<1>10. CASE UNCHANGED configVars
  BY <1>10 DEF configVars
<1>11. QED
  BY ONLY ConfigAction, <1>1, <1>2, <1>3, <1>4, <1>5, <1>6, <1>7, <1>8, <1>9, <1>10
     DEF ConfigAction, InstallConfig

-----------------------------------------------------------------------------
\* The theorems.

LEMMA InvAlways == Spec => []Inv
<1>1. Init => Inv
  <2>1. ASSUME Init PROVE RuleInv
    <3>1. DOMAIN dirs = {}
      BY <2>1 DEF Init, InitRules
    <3>2. RuleTypeOK
      BY <2>1, <3>1, BundleContents DEF Init, InitRules, RuleTypeOK
    <3>3. Unmixed /\ NumbersRise
      BY <2>1, <3>1 DEF Init, InitRules, Unmixed, NumbersRise
    <3>4. QED BY <3>2, <3>3 DEF RuleInv
  <2>2. ASSUME Init PROVE ConfigInv
    <3>1. ConfigTypeOK
      BY <2>2, EmptySeq DEF Init, InitConfig, ConfigTypeOK
    <3>2. ConfigNumbersRise /\ ItemsWritten
      BY <2>2 DEF Init, InitConfig, ConfigNumbersRise, ItemsWritten, AppliedStays
    <3>3. QED BY <3>1, <3>2 DEF ConfigInv
  <2>3. QED BY <2>1, <2>2 DEF Inv
<1>2. Inv /\ [Next]_downlinkVars => Inv'
  BY StepsOfBoth, RuleStep, ConfigTyped, ItemsStep DEF Inv, ConfigInv
<1>3. QED
  BY <1>1, <1>2, PTL DEF Spec

\* Every variable of both managers keeps its type: no bundle that was refused, and none
\* for another vehicle, leaves anything behind in a directory, a file or a number.
THEOREM TypeCorrect == Spec => []TypeOK
<1>1. Inv => TypeOK
  BY DEF Inv, RuleInv, ConfigInv, TypeOK
<1>2. QED BY <1>1, InvAlways, PTL

\* Probes never load the rules of two bundles at once: rules.new is cleared before it
\* is filled, and a directory is only ever made by moving it or partly removed.
THEOREM RulesNeverMixed == Spec => []NeverMixed
<1>1. Inv => NeverMixed
  BY DEF Inv, RuleInv, Unmixed, OfOne, NeverMixed, InForce, Resolves
<1>2. QED BY <1>1, InvAlways, PTL

\* The items of an acknowledged configuration stay until a newer one replaces them, and
\* _versions.json knows them, whatever fails or crashes.
THEOREM AppliedItemsStay == Spec => []AppliedStays
<1>1. Inv => AppliedStays
  BY DEF Inv, ConfigInv, ItemsWritten
<1>2. QED BY <1>1, InvAlways, PTL

\* Anti-rollback of both managers: what is put into force is newer than everything
\* that was acknowledged.
THEOREM BundlesNeverReplayed == Spec => NeverReplayed
<1>1. Inv => (rpc = "renamed" /\ rpc' = "swapped" => bundle > acked)
  BY NumbersAre DEF Inv, RuleInv, RuleTypeOK, NumbersRise
<1>2. ASSUME Inv, [Next]_downlinkVars, files' # files
      PROVE  \A s \in answered : cbundle > s
  <2>1. cpc = "items"
    BY <1>2, StepsOfBoth
       DEF ConfigAction, StartConfig, DeliverConfig, RefuseConfig, SkipConfig, BeginConfig,
           SkipConfigFails, InstallConfig, WriteItem, WriteVersions, StoreConfigSeq,
           ConfigFails, CrashConfig, ReloadConfig, configVars, configDisk
  <2>2. QED BY <1>2, <2>1, NumbersAre DEF Inv, ConfigInv, ConfigTypeOK, ConfigNumbersRise
<1>3. QED
  BY <1>1, <1>2, InvAlways, PTL DEF Spec, NeverReplayed, NoReplay, ConfigNoReplay
=============================================================================
