--------------------------- MODULE ConfigManager ---------------------------
(***************************************************************************)
(* The configuration manager of idsm_managerd (config_manager.cpp): the    *)
(* items of a signed bundle are written one after the other, each file     *)
(* atomically, then _versions.json, then the number, and the probes are    *)
(* restarted.  The process may crash between any two of these steps.       *)
(*                                                                         *)
(* A file is known by the bundle its content comes from, 0 for none.       *)
(***************************************************************************)
EXTENDS SignedBundle, Sequences, SequencesExt

CONSTANTS
    ConfigBundles,   \* [seq -> [valid, hit, items]]; items is a sequence of names
    ConfigNames,     \* the lists and the enable switch
    ConfigFailures,  \* where the manager may be when the next step fails
    ConfigCrashes    \* where the manager may be when the process crashes

ConfigSeqs == DOMAIN ConfigBundles

ASSUME ConfigAssumption ==
    /\ IsBundles(ConfigBundles)
    /\ \A s \in ConfigSeqs : ConfigBundles[s].items \in Seq(ConfigNames)

VARIABLES
    files,          \* [name -> the bundle its file in config/current is of]
    versionsFile,   \* the same as _versions.json says
    configMaxSeq,   \* config/max_seq
    cpc,            \* where the manager is; "down" when there is no process
    cbundle,        \* the bundle applyBundle works on
    todo,           \* its items that are not written yet
    versions,       \* what _versions.json is to become
    configLoaded    \* the files the probes have loaded

\* History variables.
VARIABLES
    answered,       \* the bundles applyBundle returned Applied or Skipped for
    configGivenUp   \* the installation of the last bundle was given up half way

configDisk    == <<files, versionsFile, configMaxSeq>>
configWork    == <<cbundle, todo, versions>>
configHistory == <<answered, configGivenUp>>
configVars    == <<configDisk, cpc, configWork, configLoaded, configHistory>>

\* applyBundle returns, or its process is gone.
NoWork ==
    /\ cbundle' = 0
    /\ todo' = <<>>
    /\ versions' = [n \in ConfigNames |-> 0]

Items(s) == ToSet(ConfigBundles[s].items)

-----------------------------------------------------------------------------
InitConfig ==
    /\ files = [n \in ConfigNames |-> 0]
    /\ versionsFile = [n \in ConfigNames |-> 0]
    /\ configMaxSeq = 0
    /\ cpc = "down"
    /\ cbundle = 0
    /\ todo = <<>>
    /\ versions = [n \in ConfigNames |-> 0]
    /\ configLoaded = [n \in ConfigNames |-> 0]
    /\ answered = {}
    /\ configGivenUp = FALSE

StartConfig ==
    /\ cpc = "down"
    /\ cpc' = "idle"
    /\ UNCHANGED <<configDisk, configWork, configLoaded, configHistory>>

-----------------------------------------------------------------------------
\* applyBundle, in the thread of the MQTT library.

RefuseConfig(s) ==
    /\ cpc = "idle" /\ Refused(ConfigBundles, s, configMaxSeq)
    /\ UNCHANGED configVars

SkipConfig(s) ==
    /\ cpc = "idle" /\ ForOthers(ConfigBundles, s, configMaxSeq)
    /\ configMaxSeq' = s
    /\ answered' = answered \cup {s}
    /\ UNCHANGED <<files, versionsFile, cpc, configWork, configLoaded,
                   configGivenUp>>

SkipConfigFails(s) ==
    /\ cpc = "idle" /\ ForOthers(ConfigBundles, s, configMaxSeq) /\ "versions" \in ConfigFailures
    /\ configGivenUp' = (configGivenUp \/ s = Newest(ConfigBundles))
    /\ UNCHANGED <<configDisk, cpc, configWork, configLoaded, answered>>

\* Mutant of BeginConfig: _versions.json is started anew.
BeginAnew(s) ==
    /\ cpc = "idle" /\ ForUs(ConfigBundles, s, configMaxSeq)
    /\ cbundle' = s
    /\ todo' = ConfigBundles[s].items
    /\ versions' = [n \in ConfigNames |-> 0]
    /\ cpc' = "items"
    /\ UNCHANGED <<configDisk, configLoaded, configHistory>>

\* _versions.json is read before the first item is written.
BeginConfig(s) ==
    /\ cpc = "idle" /\ ForUs(ConfigBundles, s, configMaxSeq)
    /\ cbundle' = s
    /\ todo' = ConfigBundles[s].items
    /\ versions' = versionsFile
    /\ cpc' = "items"
    /\ UNCHANGED <<configDisk, configLoaded, configHistory>>

DeliverConfig(s) == RefuseConfig(s) \/ SkipConfig(s) \/ BeginConfig(s)

WriteItem ==
    /\ cpc = "items" /\ todo # <<>>
    /\ files' = [files EXCEPT ![Head(todo)] = cbundle]
    /\ versions' = [versions EXCEPT ![Head(todo)] = cbundle]
    /\ todo' = Tail(todo)
    /\ UNCHANGED <<versionsFile, configMaxSeq, cpc, cbundle, configLoaded, configHistory>>

WriteVersions ==
    /\ cpc = "items" /\ todo = <<>>
    /\ versionsFile' = versions
    /\ cpc' = "versions"
    /\ UNCHANGED <<files, configMaxSeq, configWork, configLoaded, configHistory>>

StoreConfigSeq ==
    /\ cpc = "versions"
    /\ configMaxSeq' = cbundle
    /\ cpc' = "stored"
    /\ UNCHANGED <<files, versionsFile, configWork, configLoaded, configHistory>>

\* A probe that starts reads the files.
ProbesReadConfig == configLoaded' = files

\* reload_cmd restarts the probes.
ReloadConfig ==
    /\ cpc = "stored"
    /\ ProbesReadConfig
    /\ answered' = answered \cup {cbundle}
    /\ cpc' = "idle"
    /\ NoWork
    /\ UNCHANGED <<configDisk, configGivenUp>>

\* A step fails: applyBundle returns Rejected, and what is written stays.
ConfigFails ==
    /\ cpc \in ConfigFailures
    /\ configGivenUp' = (configGivenUp \/ cbundle = Newest(ConfigBundles))
    /\ cpc' = "idle"
    /\ NoWork
    /\ UNCHANGED <<configDisk, configLoaded, answered>>

CrashConfig ==
    /\ cpc \in ConfigCrashes
    /\ cpc' = "down"
    /\ NoWork
    /\ UNCHANGED <<configDisk, configLoaded, configHistory>>

InstallConfig == WriteItem \/ WriteVersions \/ StoreConfigSeq

-----------------------------------------------------------------------------
\* Properties.

\* Every variable keeps its type: files are of good bundles for this vehicle, and
\* no other bundle's number is taken.
ConfigTypeOK ==
    LET Of == Ours(ConfigBundles) \cup {0} IN
    /\ files \in [ConfigNames -> Of] /\ versionsFile \in [ConfigNames -> Of]
    /\ versions \in [ConfigNames -> Of] /\ configLoaded \in [ConfigNames -> Of]
    /\ cbundle \in Of
    /\ configMaxSeq \in Good(ConfigBundles) \cup {0}
    /\ answered \subseteq Good(ConfigBundles)
    /\ todo \in Seq(ConfigNames)
    /\ cpc \in {"down", "idle", "items", "versions", "stored"}
    /\ configGivenUp \in BOOLEAN

\* Anti-rollback (config_manager.h:32): a bundle that was answered with Applied
\* or Skipped is never written over by one that is not newer, whatever
\* crashes, failures, repetitions and reorderings come after it.
ConfigNoReplay ==
    [][files' # files => \A s \in answered : cbundle > s]_configVars

\* Whatever fails or crashes later, the items of a bundle that was answered with
\* Applied stay until a newer bundle has replaced them, and _versions.json never
\* forgets them nor lags behind them.
AppliedStays ==
    \A s \in answered : ConfigBundles[s].hit =>
        \A n \in Items(s) : files[n] >= s /\ versionsFile[n] >= s

\* The last bundle for this vehicle is in force in the probes at some time,
\* over crashes, or its installation failed and the cloud was told.
NewestConfigRuns ==
    LET s == Newest(ConfigBundles)
    IN  []<>(configGivenUp \/ \A n \in Items(s) : configLoaded[n] = s)
=============================================================================
