---------------------------- MODULE ManagerLoop ----------------------------
(***************************************************************************)
(* idsm_managerd with everything its main loop polls (main.cpp), but the   *)
(* alert upload of AlertQueue and the bundles of Downlink: the main loop,  *)
(* the thread of the MQTT library, one thread for each probe, the clock,   *)
(* and crashes and restarts of the daemon.                                 *)
(*                                                                         *)
(* A deployment says which of the parts are in use, as the command line    *)
(* does; a run covers each of its deployments.                             *)
(***************************************************************************)
EXTENDS LogSnapshot

CONSTANT
    Deployments    \* records: register, token, renew, probes, snapshots, and bounds:
                   \* rejects on the rejected bundles, nacks on the requests for
                   \* chunks, troubles on lost connections and crashes

ASSUME DeploymentAssumption ==
    Deployments \subseteq [register : BOOLEAN, token : BOOLEAN, renew : BOOLEAN,
                           probes : SUBSET Probes, rejects : Nat,
                           snapshots : SUBSET Transfers, nacks : Nat, troubles : Nat]

VARIABLES deployment, troubles

loopVars == <<deployment, troubles>>
vars == <<linkVars, regVars, certVars, nodeVars, snapVars, loopVars>>

Init ==
    /\ InitLink
    /\ InitRegistration
    /\ InitRenewal
    /\ InitReports
    /\ InitSnapshots
    /\ deployment \in Deployments
    /\ troubles = 0

-----------------------------------------------------------------------------
\* main() up to its loop: the credentials are loaded.
Start ==
    /\ loop = "down"
    /\ loop' = "top"
    /\ StartRegistration(deployment.register, deployment.token)
    /\ StartRenewal(deployment.renew)
    /\ UNCHANGED <<mqtt, cloud, reportTimer, nodeVars, snapVars, loopVars>>

\* The order of the sections is in where each of them leaves loop.
RegistrationStep ==
    /\ ApplyResponse \/ Register
    /\ UNCHANGED <<certVars, nodeVars, snapVars, loopVars>>

ReportStep ==
    /\ Report
    /\ UNCHANGED <<regVars, certVars, snapVars, loopVars>>

PumpStep ==
    /\ Pump
    /\ UNCHANGED <<regVars, certVars, nodeVars, loopVars>>

RenewalStep ==
    /\ RenewCert
    /\ UNCHANGED <<regVars, nodeVars, snapVars, loopVars>>

\* A file cannot be written, or the library does not take what it is given.
FailedStep ==
    \/ /\ SaveFails \/ UseFails \/ AskRefused
       /\ UNCHANGED <<certVars, nodeVars, snapVars, loopVars>>
    \/ /\ ReportFails
       /\ UNCHANGED <<regVars, certVars, snapVars, loopVars>>
    \/ /\ PumpFails
       /\ UNCHANGED <<regVars, certVars, nodeVars, loopVars>>
    \/ /\ RenewCertFails
       /\ UNCHANGED <<regVars, nodeVars, snapVars, loopVars>>

MainLoop == RegistrationStep \/ ReportStep \/ PumpStep \/ RenewalStep \/ FailedStep

-----------------------------------------------------------------------------
\* The thread of the MQTT library.

\* A broker takes no token that has expired.
Reconnect ==
    /\ Connect(used # 0 /\ expired)
    /\ UNCHANGED <<regVars, certVars, nodeVars, snapVars, loopVars>>

InitAnswered ==
    /\ SetReady \/ \E id \in 1..Ids : ParseInitResponse(id)
    /\ UNCHANGED <<certVars, nodeVars, snapVars, loopVars>>

CertAnswered ==
    /\ \E id \in 1..Ids : KeepResponse(id)
    /\ UNCHANGED <<regVars, nodeVars, snapVars, loopVars>>

BundleRejected ==
    /\ connected /\ rejected < deployment.rejects
    /\ PushEvent
    /\ UNCHANGED <<linkVars, regVars, certVars, snapVars, loopVars>>

ChunksMissed ==
    /\ \/ NackSave
       \/ /\ connected /\ nacks < deployment.nacks
          /\ \E t \in Transfers : \E missing \in SUBSET ChunksIn(t) : NackOpen(t, missing)
    /\ UNCHANGED <<regVars, certVars, nodeVars, loopVars>>

MqttThread == Reconnect \/ InitAnswered \/ CertAnswered \/ BundleRejected \/ ChunksMissed

-----------------------------------------------------------------------------
\* The threads of the probes' connections.

ProbeThread(c) ==
    /\ c \in deployment.probes
    /\ PeerChange(c)
    /\ UNCHANGED <<linkVars, regVars, certVars, eventVars, snapVars, loopVars>>

SnapshotThread(t) ==
    /\ t \in deployment.snapshots
    /\ Stage(t)
    /\ UNCHANGED <<linkVars, regVars, certVars, nodeVars, pumpVars, nackVars, loopVars>>

\* The clock.  A token outlives the attempts at registering and their answers.
Clock ==
    \/ ReportTimerElapses /\ UNCHANGED <<regVars, certVars, nodeVars, snapVars, loopVars>>
    \/ /\ RegTimerElapses \/ (Admitted /\ ~InitUnderWay /\ TokenExpires)
       /\ UNCHANGED <<certVars, nodeVars, snapVars, loopVars>>
    \/ /\ CertTimerElapses \/ CertAges
       /\ UNCHANGED <<regVars, nodeVars, snapVars, loopVars>>

-----------------------------------------------------------------------------
\* Troubles.

Trouble == troubles < deployment.troubles /\ troubles' = troubles + 1 /\ UNCHANGED deployment

LinkLost ==
    /\ Trouble /\ Drop
    /\ UNCHANGED <<regVars, certVars, nodeVars, snapVars>>

\* The daemon dies; systemd starts it again.
Crash ==
    /\ Trouble /\ loop # "down"
    /\ LinkGone /\ RegistrationGone /\ RenewalGone /\ ReportsGone /\ SnapshotsGone

Next ==
    \/ Start \/ MainLoop \/ MqttThread \/ Clock \/ LinkLost \/ Crash
    \/ \E c \in Probes : ProbeThread(c)
    \/ \E t \in Transfers : SnapshotThread(t)

\* What the daemon cannot rule out: a step that fails, an answer that is lost or
\* late or that refuses.
Failure ==
    \/ FailedStep
    \/ RegTimerElapses /\ regState = "Waiting" /\ InitUnderWay
    \/ CertTimerElapses /\ answers' # answers
    \/ InitAnswered /\ mqtt = mqtt'
    \/ CertAnswered /\ certPayload' = None

\* Every thread runs, the clock goes on, the daemon is started again and finds
\* its broker; failures stop at last.
Fairness ==
    /\ WF_vars(Start) /\ WF_vars(MainLoop) /\ WF_vars(MqttThread)
    /\ WF_vars(RegTimerElapses /\ Clock) /\ WF_vars(CertTimerElapses /\ Clock)
    /\ <>[][~Failure]_vars

Spec == Init /\ [][Next]_vars

FairSpec == Spec /\ Fairness

-----------------------------------------------------------------------------
\* Every part's variables have their types, and the peer count is the number of
\* the threads that have counted themselves.
TypeOK ==
    /\ LinkTypeOK /\ RegistrationTypeOK /\ RenewalTypeOK
    /\ ReportsTypeOK /\ SnapshotsTypeOK
    /\ deployment \in Deployments

\* Over lost answers, timeouts, refusals and failures of every step, the device
\* gets its registration and, near the end of its certificate, a new one.
Provisioned == Registers /\ Renews
=============================================================================
