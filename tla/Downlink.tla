------------------------------ MODULE Downlink ------------------------------
(***************************************************************************)
(* What arrives from the cloud at idsm_managerd for its rule manager and   *)
(* its configuration manager: the callback given to MqttUploader::start in *)
(* main.cpp.  The thread of the MQTT library calls it for one message      *)
(* after the other, so that one manager is idle while the other one works; *)
(* a crash takes both.                                                     *)
(***************************************************************************)
EXTENDS RuleManager, ConfigManager

CONSTANT MaxTroubles   \* bound

VARIABLE troubles      \* troubles and failed steps so far

downlinkVars == <<ruleVars, configVars, troubles>>

Init == InitRules /\ InitConfig /\ troubles = 0

Rules(A)  == A /\ UNCHANGED <<configVars, troubles>>
Config(A) == A /\ UNCHANGED <<ruleVars, troubles>>

Trouble(A) == A /\ troubles < MaxTroubles /\ troubles' = troubles + 1

\* main() starts the rule manager, which may have to install the factory's
\* rules, and then the MQTT library.
StartDaemon ==
    \/ Rules(StartRules)
    \/ Rules(LinkSeed)
    \/ rpc = "idle" /\ Config(StartConfig)

\* The callback: by the topic the message goes to one manager or the other.
RuleMessage(s)   == cpc = "idle" /\ Rules(DeliverRules(s))
ConfigMessage(s) == rpc = "idle" /\ Config(DeliverConfig(s))

\* A step of an installation fails, or the number of a skipped bundle is not stored.
RulesFail ==
    /\ Trouble(InstallFails \/ (cpc = "idle" /\ \E s \in Seqs : SkipRulesFails(s)))
    /\ UNCHANGED configVars

ConfigsFail ==
    /\ Trouble(ConfigFails \/ (rpc = "idle" /\ \E s \in ConfigSeqs : SkipConfigFails(s)))
    /\ UNCHANGED ruleVars

\* reload_cmd is the same for both: the probes read the rules and the files.
Reload ==
    \/ ReloadProbes /\ ProbesReadConfig
       /\ UNCHANGED <<configDisk, cpc, configWork, configHistory>>
    \/ ReloadConfig /\ ProbesReadRules
       /\ UNCHANGED <<ruleStore, rpc, bundle, ruleHistory>>

\* The probes restart on their own.
ProbeRestart ==
    /\ ProbesReadRules /\ ProbesReadConfig
    /\ UNCHANGED <<ruleStore, rpc, bundle, ruleHistory,
                   configDisk, cpc, configWork, configHistory, troubles>>

Crash == Trouble(CrashRules /\ CrashConfig)

Next ==
    \/ StartDaemon
    \/ \E s \in Seqs : RuleMessage(s)
    \/ \E s \in ConfigSeqs : ConfigMessage(s)
    \/ Rules(Install)
    \/ RulesFail
    \/ Config(InstallConfig)
    \/ ConfigsFail
    \/ Reload /\ UNCHANGED troubles
    \/ ProbeRestart
    \/ Crash

Spec == Init /\ [][Next]_downlinkVars

\* The daemon is started again, an installation goes on, and the last bundle,
\* which is retained, is delivered when the device connects.
Fairness ==
    /\ WF_downlinkVars(StartDaemon)
    /\ WF_downlinkVars(Rules(Install) \/ Config(InstallConfig) \/ (Reload /\ UNCHANGED troubles))
    /\ SF_downlinkVars(RuleMessage(Newest(Bundles)))
    /\ SF_downlinkVars(ConfigMessage(Newest(ConfigBundles)))

FairSpec == Spec /\ Fairness

-----------------------------------------------------------------------------
\* Properties of both managers.

\* The variables of both managers keep their types, and no number that is not of
\* a bundle for this vehicle gets into them.
TypeOK == RuleTypeOK /\ ConfigTypeOK

\* Neither kind of bundle comes back into force after a newer one was
\* acknowledged, whatever is delivered again, out of order or after a crash.
NeverReplayed == NoReplay /\ ConfigNoReplay

\* The last rules and the last configuration reach the probes at some time, over
\* crashes, or the cloud was told that they could not be installed.
NewestReachProbes == NewestRuns /\ NewestConfigRuns
=============================================================================
