-------------------------- MODULE ManagerLoop_proofs --------------------------
(***************************************************************************)
(* Proofs about the parts of idsm_managerd that its main loop polls, for   *)
(* every number of request ids, probes, events and transfers, and every    *)
(* deployment, with answers that come after their deadline and requests    *)
(* for chunks that come while their transfer is published.                 *)
(***************************************************************************)
EXTENDS ManagerLoop, SequenceLemmas, FiniteSetTheorems, TLAPS

-----------------------------------------------------------------------------
\* Registration: unless two answers have crossed, what is applied is what was parsed
\* before, and what was saved.

RegistrationInv ==
    /\ LinkTypeOK /\ RegistrationTypeOK
    /\ CredentialsAgree
    /\ ~crossed =>
         /\ mqtt = "flag" => ~responseReady /\ ~Applying
         /\ responseReady => ~Applying
         /\ mqtt = "flag" \/ responseReady \/ loop \in {"regSave", "regUse"} => pending # 0
         /\ loop = "regUse" => stored = pending

-----------------------------------------------------------------------------
\* Renewal: when the new certificate is to be written the old one is in the backup.
RenewalInv ==
    /\ deployment \in Deployments
    /\ RenewalTypeOK
    /\ CertificateKept
    /\ loop = "certWrite" => certBackup # None

-----------------------------------------------------------------------------
\* Reports: what the main loop is about to send is up to date, or a report is asked for.
ReportsInv ==
    /\ reportTimer \in {"now", "soon", "late"}
    /\ conn \in [Probes -> {"off", "store", "flag", "up", "restore", "reflag"}]
    /\ ChangeNotForgotten
    /\ loop = "sendReport" =>
         \/ reading = peers
         \/ reportNow
         \/ \E c \in Probes : conn[c] \in {"flag", "reflag"}

\* The counts.
Present == {c \in Probes : conn[c] \in {"store", "flag", "up"}}

CountsInv ==
    /\ ReportsTypeOK
    /\ counted \in [Probes -> 0..Cardinality(Probes)]
    /\ peers \in 0..Cardinality(Probes) /\ reading \in 0..Cardinality(Probes)

\* Events.
EventsInv ==
    /\ rejected \in Nat
    /\ sent \in Seq(Nat) /\ event \in Seq(Nat) /\ pendingEvents \in Seq(Nat)
    /\ loop # "sendEvent" => event = <<>>
    /\ EventsInOrder

-----------------------------------------------------------------------------
\* Snapshots: unless onNack and the pump have clashed, what is owed is in the list of
\* chunks, the one on the disk and the one the pump has in hand.

InPump == loop \in {"pumpMeta", "pumpSave", "pumpChunk"}
Metas(t) == [metaSent : BOOLEAN, next : Seq(ChunksIn(t))]

NackTyped ==
    nack = <<>> \/ \E t \in Transfers : \E m \in BOOLEAN, missing \in SUBSET ChunksIn(t) :
                    nack = <<[of |-> t, missing |-> missing, metaSent |-> m]>>

SnapshotsTyped ==
    /\ place \in [Transfers -> {"none", "staging", "orphan", "pending", "done", "expired"}]
    /\ DOMAIN meta = Transfers /\ DOMAIN owed = Transfers
    /\ \A t \in Transfers : meta[t] \in Metas(t) /\ owed[t] \subseteq ChunksIn(t)
    /\ queue \in Seq(Transfers)
    /\ InPump => queue # <<>> /\ work \in Metas(Now)
    /\ ~InPump => work = NoWork
    /\ inPump \in 0..PerPump
    /\ tooOld \subseteq Transfers /\ clashed \subseteq Transfers
    /\ NackTyped
    /\ mqtt = "nack" <=> nack # <<>>

OwedListed ==
    /\ \A t \in Transfers \ clashed : place[t] = "pending" => owed[t] \subseteq ToSet(meta[t].next)
    /\ InPump => place[Now] = "pending"
    /\ InPump /\ Now \notin clashed => owed[Now] \subseteq ToSet(work.next)
    /\ NothingOwedIsDone

SnapshotsInv == SnapshotsTyped /\ OwedListed

Inv == RegistrationInv /\ RenewalInv /\ ReportsInv /\ CountsInv /\ EventsInv /\ SnapshotsInv

-----------------------------------------------------------------------------
\* The steps of registration, and what every other step leaves alone.

RegistrationAction ==
    \/ Start
    \/ TakeResponse \/ NoResponse \/ SaveCredentials \/ UseCredentials \/ ClearPending
    \/ Ask \/ AskTimeout \/ NothingToAsk
    \/ SaveFails \/ UseFails \/ AskRefused
    \/ SetReady \/ \E id \in 1..Ids : ParseInitResponse(id)
    \/ RegTimerElapses \/ TokenExpires
    \/ LinkGone /\ RegistrationGone

\* The main loop goes from one section to the next, and only the callback and
\* requests of registration have to do with its answers.
NotRegistration ==
    /\ UNCHANGED regVars
    /\ loop' = loop \/ {loop, loop'} \cap {"down", "regSave", "regUse", "regClear"} = {}
    /\ mqtt' = mqtt \/ {mqtt, mqtt'} \subseteq {"idle", "nack"}
    /\ LinkTypeOK'

LEMMA NextIdTyped == \A id \in 0..Ids : NextId(id) \in 1..Ids
BY LinkAssumption DEF NextId

LEMMA LinkStep ==
    ASSUME LinkTypeOK, RenewalTypeOK, RegistrationTypeOK, [Next]_vars
    PROVE  RegistrationAction \/ NotRegistration
<1> USE LinkAssumption
    DEF LinkTypeOK, cloud, linkVars
<1>1. CASE Start
  BY <1>1 DEF RegistrationAction
<1>2. CASE RegistrationStep
  BY <1>2 DEF RegistrationStep, RegistrationAction, ApplyResponse, Register
<1>3. CASE ReportStep
  BY <1>3 DEF ReportStep, NotRegistration, Report, TakeReport, NoReport, ReadPeers,
              SendReport, TakeEvent, NoEvent, SendEvent
<1>4. CASE PumpStep
  BY <1>4 DEF PumpStep, NotRegistration, Pump, ListPending, NonePending, SkipUnreadable,
              Expire, ReadMeta, PublishMeta, SaveMetaSent, PublishChunk, AllSent, Finished,
              EnoughSent, Quiet, Returned
<1>5. CASE RenewalStep
  <2>1. CASE RequestCert
    <3>1. certRid' \in 1..Ids /\ answers' = answers \cup {<<"cert", certRid'>>}
      BY <2>1, NextIdTyped DEF RequestCert, Requested, RenewalTypeOK
    <3>2. QED BY <1>5, <2>1, <3>1 DEF RenewalStep, RequestCert, Requested, NotRegistration
  <2>2. CASE ReloadTls
    BY <1>5, <2>2 DEF RenewalStep, ReloadTls, Cycle, BackToIdle, NotRegistration
  <2>3. CASE CertUnreadable \/ StillYoung \/ TakeCert \/ CertTimeout \/ NothingToRenew
               \/ RefuseCert \/ BackUpCert \/ WriteCert
    BY <1>5, <2>3
       DEF RenewalStep, CertUnreadable, StillYoung, TakeCert, CertTimeout, NothingToRenew,
           RefuseCert, BackUpCert, WriteCert, MayLook, AtCert, BackToIdle, NotRegistration
  <2>4. QED BY ONLY <1>5, <2>1, <2>2, <2>3 DEF RenewalStep, RenewCert
<1>6. CASE FailedStep
  <2>1. CASE (SaveFails \/ UseFails \/ AskRefused)
    BY <2>1 DEF RegistrationAction
  <2>2. CASE ReportFails /\ UNCHANGED regVars
    BY <2>2 DEF ReportFails, SendReportFails, SendEventFails, NotRegistration
  <2>3. CASE PumpFails /\ UNCHANGED regVars
    BY <2>3 DEF PumpFails, PublishRefused, SaveMetaFails, ChunkUnreadable, MoveFails, Finished,
                Quiet, Returned, NotRegistration
  <2>4. CASE RenewCertFails /\ UNCHANGED regVars
    BY <2>4 DEF RenewCertFails, RequestCertFails, WriteCertFails, ReloadTlsFails,
                MayLook, AtCert, BackToIdle, NotRegistration
  <2>5. QED BY <1>6, <2>1, <2>2, <2>3, <2>4 DEF FailedStep
<1>7. CASE MqttThread
  <2>1. CASE Reconnect
    BY <2>1 DEF Reconnect, Connect, NotRegistration
  <2>2. CASE InitAnswered
    BY <2>2 DEF InitAnswered, RegistrationAction
  <2>3. CASE CertAnswered
    BY <2>3 DEF CertAnswered, KeepResponse, Delivered, NotRegistration
  <2>4. CASE BundleRejected
    BY <2>4 DEF BundleRejected, NotRegistration
  <2>5. CASE ChunksMissed
    BY <2>5 DEF ChunksMissed, NackSave, NackOpen, NotRegistration
  <2>6. QED BY ONLY <1>7, <2>1, <2>2, <2>3, <2>4, <2>5 DEF MqttThread
<1>8. CASE Clock
  BY <1>8 DEF Clock, ReportTimerElapses, CertTimerElapses, CertAges, Lost,
              NotRegistration, RegistrationAction
<1>9. CASE LinkLost
  BY <1>9 DEF LinkLost, Drop, NotRegistration
<1>10. CASE Crash
  BY <1>10 DEF Crash, RegistrationAction
<1>11. CASE (\E c \in Probes : ProbeThread(c)) \/ (\E t \in Transfers : SnapshotThread(t))
  BY <1>11 DEF ProbeThread, SnapshotThread, NotRegistration
<1>12. CASE UNCHANGED vars
  BY <1>12 DEF vars, NotRegistration
<1>13. QED
  BY ONLY [Next]_vars, <1>1, <1>2, <1>3, <1>4, <1>5, <1>6, <1>7, <1>8, <1>9, <1>10, <1>11,
          <1>12
     DEF Next, MainLoop

LEMMA RegistrationStays ==
    ASSUME RegistrationInv, NotRegistration
    PROVE  RegistrationInv'
BY DEF RegistrationInv, Applying, RegistrationTypeOK, CredentialsAgree, NotRegistration, regVars

\* The types, whenever answers come.
LEMMA RegistrationTyped ==
    ASSUME LinkTypeOK, RegistrationTypeOK, RenewalTypeOK, [Next]_vars
    PROVE  LinkTypeOK' /\ RegistrationTypeOK'
<1> USE NextIdTyped, LinkAssumption
    DEF RegistrationTypeOK, LinkTypeOK, CommandLine, cloud, linkVars, regVars
<1> DEFINE Typed == LinkTypeOK /\ RegistrationTypeOK
<1>1. CASE NotRegistration
  BY <1>1 DEF NotRegistration
<1>2. CASE Start
  BY <1>2 DEF Start, StartRegistration
<1>3. CASE TakeResponse \/ NoResponse
  BY <1>3 DEF TakeResponse, NoResponse
<1>4. CASE SaveCredentials \/ ClearPending \/ NothingToAsk
  <2>1. expired' \in BOOLEAN
    BY ONLY <1>4, FALSE \in BOOLEAN, RegistrationTypeOK
       DEF SaveCredentials, ClearPending, NothingToAsk, RegistrationTypeOK, regVars
  <2>2. QED BY <1>4, <2>1 DEF SaveCredentials, ClearPending, NothingToAsk
<1>5. CASE UseCredentials
  BY <1>5 DEF UseCredentials, Cycle
<1>6. CASE Ask
  <2>1. requestId' \in 1..Ids /\ answers' = answers \cup {<<"init", requestId'>>}
    BY <1>6 DEF Ask, Requested
  <2>2. LinkTypeOK'
    BY <1>6, <2>1 DEF Ask, Requested
  <2> HIDE DEF LinkTypeOK
  <2>3. regDue' \in BOOLEAN
    BY ONLY <1>6, FALSE \in BOOLEAN DEF Ask
  <2>4. QED BY <1>6, <2>1, <2>2, <2>3 DEF Ask
<1>7. CASE AskTimeout \/ SaveFails \/ UseFails
  <2>1. regDue' \in BOOLEAN
    BY ONLY <1>7, FALSE \in BOOLEAN DEF AskTimeout, SaveFails, UseFails, Retry
  <2>2. QED BY <1>7, <2>1 DEF AskTimeout, SaveFails, UseFails, Retry
<1>8. CASE AskRefused
  <2>1. regDue' \in BOOLEAN
    BY ONLY <1>8, FALSE \in BOOLEAN DEF AskRefused
  <2>2. QED BY <1>8, <2>1 DEF AskRefused
<1>9. CASE SetReady
  BY <1>9 DEF SetReady
<1>10. ASSUME NEW id \in 1..Ids, ParseInitResponse(id) PROVE Typed'
  <2>1. LinkTypeOK'
    BY <1>10 DEF ParseInitResponse, Delivered
  <2> HIDE DEF LinkTypeOK
  <2>2. crossed' \in BOOLEAN
    BY ONLY <1>10, RegistrationTypeOK DEF ParseInitResponse, RegistrationTypeOK
  <2>3. QED BY <1>10, <2>1, <2>2 DEF ParseInitResponse
<1>11. CASE RegTimerElapses \/ TokenExpires
  BY <1>11 DEF RegTimerElapses, TokenExpires, Lost
<1>12. CASE LinkGone /\ RegistrationGone
  <2>1. LinkTypeOK'
    BY <1>12 DEF LinkGone
  <2> HIDE DEF LinkTypeOK
  <2>2. regDue' \in BOOLEAN /\ responseReady' \in BOOLEAN /\ crossed' \in BOOLEAN
    BY ONLY <1>12, FALSE \in BOOLEAN, TRUE \in BOOLEAN DEF RegistrationGone
  <2>3. QED BY <1>12, <2>1, <2>2 DEF RegistrationGone
<1>13. RegistrationAction \/ NotRegistration
  BY ONLY LinkStep, LinkTypeOK, RegistrationTypeOK, RenewalTypeOK, [Next]_vars
<1>14. QED
  BY ONLY <1>13, <1>1, <1>2, <1>3, <1>4, <1>5, <1>6, <1>7, <1>8, <1>9, <1>10, <1>11, <1>12
     DEF RegistrationAction

\* Every step of the registration keeps the invariant; the types are known to be kept.
LEMMA RegistrationKept ==
    ASSUME RegistrationInv, RegistrationAction, LinkTypeOK', RegistrationTypeOK'
    PROVE  RegistrationInv'
<1> USE LinkAssumption DEF RegistrationInv, Applying, CredentialsAgree, cloud, linkVars, regVars
<1>0. pending \in Nat /\ stored \in Nat /\ CommandLine # 0
  BY DEF RegistrationTypeOK, CommandLine
<1>1. CASE Start
  BY <1>0, <1>1 DEF Start, StartRegistration
<1>2. CASE TakeResponse \/ NoResponse
  BY <1>2 DEF TakeResponse, NoResponse
<1>3. CASE SaveCredentials \/ UseCredentials \/ ClearPending
  BY <1>3 DEF SaveCredentials, UseCredentials, ClearPending
<1>4. CASE Ask \/ AskTimeout \/ NothingToAsk
  BY <1>4 DEF Ask, AskTimeout, NothingToAsk, Retry
<1>5. CASE SaveFails \/ UseFails \/ AskRefused
  BY <1>5 DEF SaveFails, UseFails, AskRefused, Retry
<1>6. CASE SetReady
  BY <1>6 DEF SetReady
<1>7. ASSUME NEW id \in 1..Ids, ParseInitResponse(id) PROVE RegistrationInv'
  <2>1. UNCHANGED <<loop, regState, responseReady, stored, used>>
    BY ONLY <1>7 DEF ParseInitResponse
  <2>2. CASE UNCHANGED <<pending, mqtt, crossed>>
    BY <2>1, <2>2
  <2>3. CASE pending' = id /\ mqtt' = "flag" /\ crossed' = (crossed \/ responseReady \/ Applying)
    <3>1. crossed' \in BOOLEAN /\ (~crossed' => ~crossed /\ ~responseReady /\ ~Applying)
      BY ONLY <2>3, RegistrationTypeOK DEF RegistrationTypeOK, Applying
    <3>2. CASE crossed'
      BY ONLY <3>2, LinkTypeOK', RegistrationTypeOK' DEF RegistrationInv, CredentialsAgree
    <3>3. CASE ~crossed'
      BY ONLY <1>7, <2>1, <2>3, <3>1, <3>3, RegistrationInv, LinkTypeOK', RegistrationTypeOK'
         DEF RegistrationInv, CredentialsAgree, Applying
    <3>4. QED BY ONLY <3>2, <3>3
  <2>4. QED BY ONLY <1>7, <2>2, <2>3 DEF ParseInitResponse
<1>8. CASE RegTimerElapses \/ TokenExpires
  BY <1>8 DEF RegTimerElapses, TokenExpires
<1>9. CASE LinkGone /\ RegistrationGone
  BY <1>9 DEF LinkGone, RegistrationGone
<1>10. QED
  BY ONLY RegistrationAction, <1>1, <1>2, <1>3, <1>4, <1>5, <1>6, <1>7, <1>8, <1>9
     DEF RegistrationAction

-----------------------------------------------------------------------------
\* The steps of the renewal of the certificate.

RenewalAction ==
    \/ Start
    \/ CertUnreadable \/ StillYoung \/ RequestCert \/ TakeCert
    \/ CertTimeout \/ NothingToRenew \/ RefuseCert \/ BackUpCert \/ WriteCert \/ ReloadTls
    \/ RequestCertFails \/ WriteCertFails \/ ReloadTlsFails
    \/ \E id \in 1..Ids : KeepResponse(id)
    \/ CertTimerElapses \/ CertAges
    \/ LinkGone /\ RenewalGone

NotRenewal == UNCHANGED certVars /\ (loop' = "certWrite" => loop = "certWrite")

LEMMA RenewalSteps ==
    ASSUME [Next]_vars
    PROVE  RenewalAction \/ NotRenewal
<1>1. CASE Start \/ Crash \/ UNCHANGED vars
  BY <1>1 DEF Crash, vars, linkVars, NotRenewal, RenewalAction
<1>2. CASE RegistrationStep
  BY <1>2 DEF RegistrationStep, ApplyResponse, Register, TakeResponse, NoResponse,
              SaveCredentials, UseCredentials, ClearPending, Ask, AskTimeout, NothingToAsk,
              NotRenewal
<1>3. CASE ReportStep
  BY <1>3 DEF ReportStep, NotRenewal, Report, TakeReport, NoReport, ReadPeers,
              SendReport, TakeEvent, NoEvent, SendEvent
<1>4. CASE PumpStep
  BY <1>4 DEF PumpStep, NotRenewal, Pump, ListPending, NonePending, SkipUnreadable,
              Expire, ReadMeta, PublishMeta, SaveMetaSent, PublishChunk, AllSent, Finished,
              EnoughSent, Quiet, Returned
<1>5. CASE RenewalStep
  BY <1>5 DEF RenewalStep, RenewCert, RenewalAction
<1>6. CASE FailedStep
  BY <1>6 DEF FailedStep, SaveFails, UseFails, AskRefused, ReportFails, SendReportFails,
              SendEventFails, PumpFails, PublishRefused, SaveMetaFails, ChunkUnreadable,
              MoveFails, Finished, Returned,
              RenewCertFails, NotRenewal, RenewalAction
<1>7. CASE MqttThread
  BY <1>7 DEF MqttThread, Reconnect, Connect, InitAnswered, SetReady, ParseInitResponse,
              CertAnswered, BundleRejected, ChunksMissed, NackSave, NackOpen, linkVars,
              NotRenewal, RenewalAction
<1>8. CASE Clock \/ LinkLost
  BY <1>8 DEF Clock, ReportTimerElapses, RegTimerElapses, TokenExpires, LinkLost, Drop,
              linkVars, NotRenewal, RenewalAction
<1>9. CASE (\E c \in Probes : ProbeThread(c)) \/ (\E t \in Transfers : SnapshotThread(t))
  BY <1>9 DEF ProbeThread, SnapshotThread, linkVars, NotRenewal
<1>10. QED
  BY ONLY [Next]_vars, <1>1, <1>2, <1>3, <1>4, <1>5, <1>6, <1>7, <1>8, <1>9
     DEF Next, MainLoop

LEMMA DeploymentKept == [Next]_vars => UNCHANGED deployment
BY DEF Next, Start, MainLoop, RegistrationStep, ReportStep, PumpStep, RenewalStep, FailedStep,
       MqttThread, Reconnect, InitAnswered, CertAnswered, BundleRejected, ChunksMissed,
       Clock, LinkLost, Crash, Trouble, ProbeThread, SnapshotThread, loopVars, vars

LEMMA RenewalKept ==
    ASSUME RenewalInv, [Next]_vars
    PROVE  RenewalInv'
<1> USE NextIdTyped, LinkAssumption, DeploymentKept
    DEF RenewalInv, RenewalTypeOK, CertificateKept, None, certVars, certMemory, certDisk
<1> DEFINE Flags == certOn \in BOOLEAN /\ certDue \in BOOLEAN /\ certReady \in BOOLEAN
                      /\ certAged \in BOOLEAN
<1>1. CASE NotRenewal
  BY <1>1 DEF NotRenewal
<1>2. CASE Start
  <2>1. certOn' \in BOOLEAN
    BY <1>2, DeploymentAssumption DEF Start, StartRenewal
  <2>2. QED BY <1>2, <2>1 DEF Start, StartRenewal
<1>3. CASE CertUnreadable \/ StillYoung
  BY <1>3 DEF CertUnreadable, StillYoung
<1>4. CASE RequestCert
  <2>1. Flags'
    BY <1>4, FALSE \in BOOLEAN DEF RequestCert
  <2> HIDE DEF Flags
  <2>2. QED BY <1>4, <2>1 DEF RequestCert, Flags
<1>5. CASE RequestCertFails
  <2>1. Flags'
    BY <1>5, FALSE \in BOOLEAN DEF RequestCertFails
  <2> HIDE DEF Flags
  <2>2. QED BY <1>5, <2>1 DEF RequestCertFails, Flags
<1>6. CASE TakeCert
  BY <1>6 DEF TakeCert
<1>7. CASE CertTimeout \/ RefuseCert \/ WriteCertFails \/ ReloadTls \/ ReloadTlsFails
  BY <1>7 DEF CertTimeout, RefuseCert, WriteCertFails, ReloadTls, ReloadTlsFails, BackToIdle
<1>8. CASE NothingToRenew
  BY <1>8 DEF NothingToRenew
<1>9. CASE BackUpCert
  BY <1>9 DEF BackUpCert
<1>10. CASE WriteCert
  <2>1. Flags'
    BY <1>10, FALSE \in BOOLEAN DEF WriteCert
  <2> HIDE DEF Flags
  <2>2. QED BY <1>10, <2>1 DEF WriteCert, Flags
<1>11. ASSUME NEW id \in 1..Ids, KeepResponse(id) PROVE RenewalInv'
  BY <1>11 DEF KeepResponse
<1>12. CASE CertTimerElapses
  BY <1>12 DEF CertTimerElapses
<1>13. CASE CertAges
  BY <1>13 DEF CertAges, linkVars
<1>14. CASE LinkGone /\ RenewalGone
  <2>1. Flags'
    BY <1>14, TRUE \in BOOLEAN, FALSE \in BOOLEAN DEF RenewalGone
  <2> HIDE DEF Flags
  <2>2. QED BY <1>14, <2>1 DEF LinkGone, RenewalGone, Flags
<1>15. QED
  BY ONLY [Next]_vars, RenewalSteps, <1>1, <1>2, <1>3, <1>4, <1>5, <1>6, <1>7, <1>8, <1>9,
          <1>10, <1>11, <1>12, <1>13, <1>14
     DEF RenewalAction

-----------------------------------------------------------------------------
\* The steps of the node's reports and events.

NodeAction ==
    \/ TakeReport \/ NoReport \/ ReadPeers \/ SendReport \/ SendReportFails
    \/ TakeEvent \/ NoEvent \/ SendEvent \/ SendEventFails
    \/ PushEvent /\ UNCHANGED linkVars
    \/ \E c \in Probes : PeerChange(c) /\ UNCHANGED <<linkVars, eventVars>>
    \/ LinkGone /\ ReportsGone

AtNode == {"readPeers", "sendReport", "sendEvent"}

NotNode ==
    /\ UNCHANGED nodeVars
    /\ loop' = loop \/ {loop, loop'} \cap AtNode = {}
    /\ reportTimer' = reportTimer \/ reportTimer' \in {"now", "soon"}

LEMMA NodeSteps ==
    ASSUME [Next]_vars
    PROVE  NodeAction \/ NotNode
<1> USE DEF AtNode
<1>1. CASE Start \/ Crash \/ UNCHANGED vars
  BY <1>1 DEF Start, Crash, vars, linkVars, NotNode, NodeAction
<1>2. CASE RegistrationStep
  BY <1>2 DEF RegistrationStep, ApplyResponse, Register, TakeResponse, NoResponse,
              SaveCredentials, UseCredentials, ClearPending, Ask, AskTimeout, NothingToAsk,
              NotNode
<1>3. CASE ReportStep
  BY <1>3 DEF ReportStep, Report, NodeAction
<1>4. CASE PumpStep
  BY <1>4 DEF PumpStep, NotNode, Pump, ListPending, NonePending, SkipUnreadable,
              Expire, ReadMeta, PublishMeta, SaveMetaSent, PublishChunk, AllSent, Finished,
              EnoughSent, Quiet, Returned
<1>5. CASE RenewalStep
  BY <1>5 DEF RenewalStep, RenewCert, CertUnreadable, StillYoung, RequestCert, TakeCert,
              CertTimeout, NothingToRenew, RefuseCert, BackUpCert, WriteCert, ReloadTls,
              MayLook, AtCert, BackToIdle, NotNode
<1>6. CASE FailedStep
  BY <1>6 DEF FailedStep, SaveFails, UseFails, AskRefused, ReportFails, PumpFails,
              PublishRefused, SaveMetaFails, ChunkUnreadable,
              MoveFails, Finished, Returned, Quiet, RenewCertFails,
              RequestCertFails, WriteCertFails, ReloadTlsFails, MayLook, AtCert, BackToIdle,
              NotNode, NodeAction
<1>7. CASE MqttThread
  BY <1>7 DEF MqttThread, Reconnect, Connect, InitAnswered, SetReady, ParseInitResponse,
              CertAnswered, KeepResponse, BundleRejected, ChunksMissed, NackSave, NackOpen,
              linkVars, NotNode, NodeAction
<1>8. CASE Clock \/ LinkLost
  BY <1>8 DEF Clock, ReportTimerElapses, RegTimerElapses, CertTimerElapses, CertAges,
              TokenExpires, LinkLost, Drop, linkVars, NotNode
<1>9. CASE \E c \in Probes : ProbeThread(c)
  BY <1>9 DEF ProbeThread, NodeAction
<1>10. CASE \E t \in Transfers : SnapshotThread(t)
  BY <1>10 DEF SnapshotThread, linkVars, NotNode
<1>11. QED
  BY ONLY [Next]_vars, <1>1, <1>2, <1>3, <1>4, <1>5, <1>6, <1>7, <1>8, <1>9, <1>10
     DEF Next, MainLoop

\* A count that is stored leaves its thread on the way to asking for a report, and the
\* main loop forgets that one was asked for only before it reads the count.
LEMMA ReportsKept ==
    ASSUME ReportsInv, [Next]_vars
    PROVE  ReportsInv'
<1> USE DEF ReportsInv, ChangeNotForgotten, socketVars, reportVars, linkVars
<1>1. CASE NotNode
  BY <1>1 DEF NotNode, AtNode, nodeVars
<1>2. CASE TakeReport \/ NoReport
  BY <1>2 DEF TakeReport, NoReport, nodeVars
<1>3. CASE ReadPeers
  BY <1>3 DEF ReadPeers
<1>4. CASE SendReport \/ SendReportFails
  BY <1>4 DEF SendReport, SendReportFails
<1>5. CASE TakeEvent \/ NoEvent \/ SendEvent \/ SendEventFails
  BY <1>5 DEF TakeEvent, NoEvent, SendEvent, SendEventFails, nodeVars
<1>6. CASE PushEvent /\ UNCHANGED linkVars
  BY <1>6 DEF PushEvent
<1>7. ASSUME NEW c \in Probes, PeerChange(c), UNCHANGED linkVars PROVE ReportsInv'
  <2>1. CASE CountUp(c) \/ CountDown(c)
    BY <1>7, <2>1 DEF CountUp, CountDown, Count, Thread
  <2>2. CASE StorePeers(c)
    BY <1>7, <2>2 DEF StorePeers, Thread
  <2>3. CASE AskReport(c)
    BY <1>7, <2>3 DEF AskReport, Thread
  <2>4. QED BY ONLY <1>7, <2>1, <2>2, <2>3 DEF PeerChange
<1>8. CASE LinkGone /\ ReportsGone
  BY <1>8 DEF LinkGone, ReportsGone
<1>9. QED
  BY ONLY [Next]_vars, NodeSteps, <1>1, <1>2, <1>3, <1>4, <1>5, <1>6, <1>7, <1>8
     DEF NodeAction, linkVars, cloud

LEMMA EventsKept ==
    ASSUME EventsInv, [Next]_vars
    PROVE  EventsInv'
<1> USE DEF EventsInv, EventsInOrder, eventVars, linkVars
<1>1. CASE NotNode
  BY <1>1 DEF NotNode, AtNode, nodeVars
<1>2. CASE TakeReport \/ NoReport \/ ReadPeers \/ SendReport \/ SendReportFails \/ NoEvent
  BY <1>2 DEF TakeReport, NoReport, ReadPeers, SendReport, SendReportFails, NoEvent, nodeVars
<1>3. CASE TakeEvent
  <2>1. event = <<>> /\ event' = <<Head(pendingEvents)>> /\ pendingEvents # <<>>
        /\ pendingEvents' = Tail(pendingEvents) /\ UNCHANGED <<sent, rejected>>
        /\ loop' = "sendEvent"
    BY <1>3 DEF TakeEvent
  <2>2. Head(pendingEvents) \in Nat /\ pendingEvents' \in Seq(Nat) /\ event' \in Seq(Nat)
    BY <2>1
  <2>3. sent' \o event' \o pendingEvents' = sent \o (event' \o pendingEvents')
    BY <2>1, <2>2, JoinedSequences
  <2>4. event' \o pendingEvents' = pendingEvents /\ sent \o event = sent
    BY <2>1, JoinedSequences
  <2>5. QED BY <2>1, <2>2, <2>3, <2>4
<1>4. CASE SendEvent
  <2>1. sent' = sent \o event /\ event' = <<>> /\ UNCHANGED <<pendingEvents, rejected>>
    BY <1>4 DEF SendEvent
  <2>2. sent' \in Seq(Nat) /\ event' \in Seq(Nat)
    BY <2>1
  <2>3. sent' \o event' \o pendingEvents' = sent \o event \o pendingEvents
    BY <2>1
  <2>4. QED BY <2>1, <2>2, <2>3
<1>5. CASE SendEventFails
  <2>1. pendingEvents' = event \o pendingEvents /\ event' = <<>> /\ UNCHANGED <<sent, rejected>>
    BY <1>5 DEF SendEventFails
  <2>2. pendingEvents' \in Seq(Nat) /\ event' \in Seq(Nat)
    BY <2>1
  <2>3. sent' \o event' = sent
    BY <2>1, JoinedSequences
  <2>4. (sent \o event) \o pendingEvents = sent \o (event \o pendingEvents)
    <3>1. sent \in Seq(Nat) /\ event \in Seq(Nat) /\ pendingEvents \in Seq(Nat)
      OBVIOUS
    <3>2. QED BY ONLY SMTT(20), <3>1, JoinedSequences
  <2>5. QED BY <2>1, <2>2, <2>3, <2>4
<1>6. CASE PushEvent /\ UNCHANGED linkVars
  <2>1. rejected' = rejected + 1 /\ pendingEvents' = Append(pendingEvents, rejected + 1)
        /\ UNCHANGED <<event, sent, loop>>
    BY <1>6 DEF PushEvent
  <2>2. (sent \o event) \o Append(pendingEvents, rejected + 1)
          = Append((sent \o event) \o pendingEvents, rejected + 1)
    <3>1. sent \o event \in Seq(Nat) /\ pendingEvents \in Seq(Nat) /\ rejected + 1 \in Nat
      OBVIOUS
    <3>2. QED BY ONLY SMTT(20), <3>1, JoinedSequences
  <2>3. Append([i \in 1..rejected |-> i], rejected + 1) = [i \in 1..(rejected + 1) |-> i]
    OBVIOUS
  <2>4. pendingEvents' \in Seq(Nat) /\ rejected' \in Nat
    BY <2>1
  <2>5. EventsInOrder'
    BY <2>1, <2>2, <2>3
  <2>6. QED BY <2>1, <2>4, <2>5
<1>7. ASSUME NEW c \in Probes, PeerChange(c), UNCHANGED <<linkVars, eventVars>>
      PROVE  EventsInv'
  BY <1>7
<1>8. CASE LinkGone /\ ReportsGone
  <2>1. sent' \o event' \o pendingEvents' = <<>> /\ rejected' = 0
    BY <1>8 DEF ReportsGone
  <2>2. [i \in 1..0 |-> i] = <<>>
    OBVIOUS
  <2>3. QED BY <1>8, <2>1, <2>2 DEF LinkGone, ReportsGone
<1>9. QED
  BY ONLY [Next]_vars, NodeSteps, <1>1, <1>2, <1>3, <1>4, <1>5, <1>6, <1>7, <1>8
     DEF NodeAction

\* The count is the number of the threads that have counted themselves, each of which
\* takes away what it has added.
LEMMA CountsKept ==
    ASSUME CountsInv, [Next]_vars
    PROVE  CountsInv'
<1> USE DEF CountsInv, ReportsTypeOK, None, socketVars, reportVars
<1>1. /\ IsFiniteSet(Present) /\ Cardinality(Present) \in 0..Cardinality(Probes)
      /\ Cardinality(Probes) \in Nat /\ peerCount = Cardinality(Present)
      /\ Present \subseteq Probes
  BY ReportsAssumption, FS_Subset, FS_CardinalityType DEF Present
<1>2. ASSUME UNCHANGED <<conn, counted, peerCount, peers>>,
             reading' \in {reading, peers, 0}, reported' \in {reported, reading},
             reportNow' \in BOOLEAN
      PROVE  CountsInv'
  BY <1>1, <1>2
<1>3. CASE NotNode
  BY <1>2, <1>3 DEF NotNode, nodeVars
<1>4. CASE TakeReport \/ NoReport \/ ReadPeers \/ SendReport \/ SendReportFails
  <2>1. CASE TakeReport
    BY <1>2, <2>1 DEF TakeReport
  <2>2. CASE NoReport
    BY <1>2, <2>2 DEF NoReport, nodeVars
  <2>3. CASE ReadPeers
    BY <1>2, <2>3 DEF ReadPeers
  <2>4. CASE SendReport \/ SendReportFails
    BY <1>2, <2>4 DEF SendReport, SendReportFails
  <2>5. QED BY ONLY <1>4, <2>1, <2>2, <2>3, <2>4
<1>5. CASE TakeEvent \/ NoEvent \/ SendEvent \/ SendEventFails \/ PushEvent
  BY <1>2, <1>5 DEF TakeEvent, NoEvent, SendEvent, SendEventFails, PushEvent, nodeVars
<1>6. ASSUME NEW c \in Probes, PeerChange(c) PROVE CountsInv'
  <2>1. CASE CountUp(c)
    <3>1. conn[c] = "off" /\ conn' = [conn EXCEPT ![c] = "store"] /\ peerCount' = peerCount + 1
          /\ counted' = [counted EXCEPT ![c] = peerCount']
          /\ UNCHANGED <<peers, reading, reported, reportNow>>
      BY <2>1 DEF CountUp, Thread, Count
    <3>2. Present' = Present \cup {c} /\ c \notin Present
      BY <3>1 DEF Present
    <3>3. peerCount' = Cardinality(Present') /\ peerCount' \in 0..Cardinality(Probes)
      <4>1. Cardinality(Present') = Cardinality(Present) + 1
        BY <1>1, <3>2, FS_AddElement
      <4>2. Present' \subseteq Probes
        BY <1>1, <3>2
      <4>3. Cardinality(Present') <= Cardinality(Probes)
        BY <4>2, ReportsAssumption, FS_Subset
      <4>4. QED BY <1>1, <3>1, <4>1, <4>3
    <3>4. QED BY <1>1, <3>1, <3>3 DEF Present
  <2>2. CASE CountDown(c)
    <3>1. conn[c] = "up" /\ conn' = [conn EXCEPT ![c] = "restore"]
          /\ peerCount' = peerCount + (-1) /\ counted' = [counted EXCEPT ![c] = peerCount']
          /\ UNCHANGED <<peers, reading, reported, reportNow>>
      BY <2>2 DEF CountDown, Thread, Count
    <3>2. Present' = Present \ {c} /\ c \in Present
      BY <3>1 DEF Present
    <3>3. peerCount' = Cardinality(Present') /\ peerCount' \in 0..Cardinality(Probes)
      <4>1. Cardinality(Present') = Cardinality(Present) - 1
        BY <1>1, <3>2, FS_RemoveElement
      <4>2. Cardinality(Present') \in Nat
        BY <1>1, <3>2, FS_Subset, FS_CardinalityType
      <4>3. QED BY <1>1, <3>1, <4>1, <4>2
    <3>4. QED BY <1>1, <3>1, <3>3 DEF Present
  <2>3. CASE StorePeers(c)
    <3>1. peers' \in 0..Cardinality(Probes) /\ UNCHANGED <<peerCount, reading, reported, reportNow>>
          /\ counted' = [counted EXCEPT ![c] = 0]
      BY <2>3 DEF StorePeers
    <3>2. /\ conn' \in [Probes -> {"off", "store", "flag", "up", "restore", "reflag"}]
          /\ Present' = Present
      BY <2>3 DEF StorePeers, Thread, Present
    <3>3. counted' \in [Probes -> 0..Cardinality(Probes)]
      BY <1>1, <3>1
    <3>4. ReportsTypeOK'
      BY <1>1, <3>1, <3>2 DEF Present
    <3>5. QED BY <3>1, <3>3, <3>4
  <2>4. CASE AskReport(c)
    <3>1. /\ conn' \in [Probes -> {"off", "store", "flag", "up", "restore", "reflag"}]
          /\ Present' = Present
      BY <2>4 DEF AskReport, Thread, Present
    <3>2. reportNow' \in BOOLEAN /\ UNCHANGED <<counted, peerCount, peers, reading, reported>>
      BY <2>4 DEF AskReport
    <3>3. QED BY <1>1, <3>1, <3>2 DEF Present
  <2>5. QED BY ONLY <1>6, <2>1, <2>2, <2>3, <2>4 DEF PeerChange
<1>7. CASE LinkGone /\ ReportsGone
  <2>1. Present' = {} /\ Cardinality({}) = 0
    BY <1>7, FS_EmptySet DEF ReportsGone, Present
  <2>2. counted' \in [Probes -> 0..Cardinality(Probes)]
        /\ peers' = 0 /\ reading' = 0 /\ reported' = reported /\ peerCount' = 0
        /\ conn' \in [Probes -> {"off", "store", "flag", "up", "restore", "reflag"}]
    BY <1>1, <1>7 DEF ReportsGone
  <2>3. reportNow' \in BOOLEAN
    BY <1>7, FALSE \in BOOLEAN DEF ReportsGone
  <2>4. QED BY <1>1, <2>1, <2>2, <2>3 DEF Present
<1>8. QED
  BY ONLY [Next]_vars, NodeSteps, <1>3, <1>4, <1>5, <1>6, <1>7 DEF NodeAction

-----------------------------------------------------------------------------
\* The order of transfers and chunks.

Increasing(s) == \A i, j \in DOMAIN s : i < j => s[i] < s[j]

\* Every finite set of numbers can be put in order: its least number comes first.
LEMMA AscendingExists ==
    ASSUME NEW S, S \subseteq Nat, IsFiniteSet(S)
    PROVE  \E s \in [1..Cardinality(S) -> S] : Increasing(s)
<1> DEFINE Sortable(T) == \E s \in [1..Cardinality(T) -> T] : Increasing(s)
           Bad == {n \in Nat : \E T \in SUBSET S : Cardinality(T) = n /\ ~Sortable(T)}
<1>1. \A T \in SUBSET S : IsFiniteSet(T) /\ Cardinality(T) \in Nat
  BY FS_Subset, FS_CardinalityType
<1>2. ASSUME Bad # {} PROVE FALSE
  <2>1. PICK n \in Bad : \A m \in Bad : n <= m
    BY <1>2, LeastNumber
  <2>2. PICK T \in SUBSET S : Cardinality(T) = n /\ ~Sortable(T)
    BY <2>1
  <2>3. CASE T = {}
    <3>1. Cardinality(T) = 0
      BY <2>3, FS_EmptySet
    <3>2. [i \in 1..0 |-> 0] \in [1..0 -> T] /\ Increasing([i \in 1..0 |-> 0])
      BY DEF Increasing
    <3>3. QED BY <2>2, <3>1, <3>2
  <2>4. CASE T # {}
    <3>1. PICK x \in T : \A y \in T : x <= y
      BY <2>4, LeastNumber
    <3>2. T \ {x} \in SUBSET S /\ Cardinality(T \ {x}) = n - 1 /\ n - 1 \in Nat
      <4>1. IsFiniteSet(T) /\ n \in Nat
        BY <1>1
      <4>2. Cardinality(T \ {x}) = n - 1
        BY <2>2, <4>1, FS_RemoveElement
      <4>3. QED BY <1>1, <4>1, <4>2
    <3>3. Sortable(T \ {x})
      <4>1. ASSUME ~Sortable(T \ {x}) PROVE n - 1 \in Bad
        BY <3>2, <4>1
      <4>2. n \in Nat /\ ~ (n <= n - 1)
        BY <2>1
      <4> HIDE DEF Sortable, Bad
      <4>3. QED BY <2>1, <4>1, <4>2
    <3>4. PICK s \in [1..(n - 1) -> T \ {x}] : Increasing(s)
      BY <3>2, <3>3
    <3>5. DEFINE r == [i \in 1..n |-> IF i = 1 THEN x ELSE s[i - 1]]
    <3>6. r \in [1..n -> T]
      OBVIOUS
    <3>7. ASSUME NEW i \in 1..n, NEW j \in 1..n, i < j PROVE r[i] < r[j]
      <4>1. j - 1 \in 1..(n - 1) /\ r[j] = s[j - 1] /\ s[j - 1] \in T \ {x}
        BY <3>7
      <4>2. CASE i = 1
        <5>1. r[i] = x /\ x \in Nat /\ s[j - 1] \in Nat
          BY <4>1, <4>2
        <5>2. QED BY <3>1, <4>1, <5>1
      <4>3. CASE i # 1
        BY <3>4, <3>7, <4>1, <4>3 DEF Increasing
      <4>4. QED BY <4>2, <4>3
    <3>8. Increasing(r)
      BY <3>7 DEF Increasing
    <3>9. QED BY <2>2, <3>6, <3>8
  <2>5. QED BY <2>3, <2>4
<1>3. QED BY <1>1, <1>2

LEMMA AscendingOf ==
    ASSUME NEW S, S \subseteq Nat, IsFiniteSet(S)
    PROVE  Ascending(S) \in Seq(S) /\ ToSet(Ascending(S)) = S
<1> DEFINE n == Cardinality(S)
           s == Ascending(S)
<1>1. s \in [1..n -> S] /\ Increasing(s)
  BY AscendingExists DEF Ascending, Increasing
<1>2. n \in Nat
  BY FS_CardinalityType
<1> HIDE DEF n, s
<1>3. s \in Injection(1..n, S)
  <2>1. ASSUME NEW i \in 1..n, NEW j \in 1..n, i < j PROVE s[i] # s[j]
    <3>1. s[i] < s[j] /\ s[i] \in Nat /\ s[j] \in Nat
      BY <1>1, <2>1 DEF Increasing
    <3>2. QED BY <3>1
  <2>2. ASSUME NEW i \in 1..n, NEW j \in 1..n, s[i] = s[j] PROVE i = j
    <3>1. ~ (i < j) /\ ~ (j < i)
      BY <2>1, <2>2
    <3>2. QED BY <3>1
  <2>3. QED BY <1>1, <2>2 DEF Injection, IsInjective
<1>4. IsFiniteSet(1..n) /\ Cardinality(1..n) = n
  BY <1>2, FS_Interval
<1>5. s \in Surjection(1..n, S)
  BY <1>3, <1>4, FS_Injection DEF n
<1>6. ToSet(s) = S
  BY <1>1, <1>5 DEF ToSet, Surjection
<1>7. s \in Seq(S)
  BY <1>1, <1>2
<1>8. QED BY <1>6, <1>7 DEF s

-----------------------------------------------------------------------------
\* The steps of the snapshots.

SnapshotAction ==
    \/ ListPending \/ NonePending \/ SkipUnreadable \/ Expire \/ ReadMeta
    \/ PublishMeta \/ SaveMetaSent \/ PublishChunk \/ AllSent \/ EnoughSent
    \/ PublishRefused \/ SaveMetaFails \/ ChunkUnreadable \/ MoveFails
    \/ NackSave \/ \E t \in Transfers : \E missing \in SUBSET ChunksIn(t) : NackOpen(t, missing)
    \/ \E t \in Transfers : Stage(t) /\ UNCHANGED <<linkVars, pumpVars, nackVars>>
    \/ LinkGone /\ SnapshotsGone

NotSnapshot ==
    /\ UNCHANGED snapVars
    /\ InPump' = InPump
    /\ mqtt' = "nack" <=> mqtt = "nack"

LEMMA SnapshotSteps ==
    ASSUME [Next]_vars
    PROVE  SnapshotAction \/ NotSnapshot
<1> USE DEF InPump
<1>1. CASE Start \/ Crash \/ UNCHANGED vars
  BY <1>1 DEF Start, Crash, vars, linkVars, NotSnapshot, SnapshotAction
<1>2. CASE RegistrationStep
  BY <1>2 DEF RegistrationStep, ApplyResponse, Register, TakeResponse, NoResponse,
              SaveCredentials, UseCredentials, ClearPending, Ask, AskTimeout, NothingToAsk,
              NotSnapshot
<1>3. CASE ReportStep
  BY <1>3 DEF ReportStep, NotSnapshot, Report, TakeReport, NoReport, ReadPeers,
              SendReport, TakeEvent, NoEvent, SendEvent
<1>4. CASE PumpStep
  BY <1>4 DEF PumpStep, Pump, SnapshotAction
<1>5. CASE RenewalStep
  BY <1>5 DEF RenewalStep, RenewCert, CertUnreadable, StillYoung, RequestCert, TakeCert,
              CertTimeout, NothingToRenew, RefuseCert, BackUpCert, WriteCert, ReloadTls,
              MayLook, AtCert, BackToIdle, NotSnapshot
<1>6. CASE FailedStep
  BY <1>6 DEF FailedStep, SaveFails, UseFails, AskRefused, ReportFails, SendReportFails,
              SendEventFails, PumpFails, RenewCertFails, RequestCertFails, WriteCertFails,
              ReloadTlsFails, MayLook, AtCert, BackToIdle, NotSnapshot, SnapshotAction
<1>7. CASE MqttThread
  BY <1>7 DEF MqttThread, Reconnect, Connect, InitAnswered, SetReady, ParseInitResponse,
              CertAnswered, KeepResponse, BundleRejected, ChunksMissed, Delivered,
              linkVars, NotSnapshot, SnapshotAction
<1>8. CASE Clock \/ LinkLost
  BY <1>8 DEF Clock, ReportTimerElapses, RegTimerElapses, CertTimerElapses, CertAges,
              TokenExpires, LinkLost, Drop, linkVars, NotSnapshot
<1>9. CASE \E c \in Probes : ProbeThread(c)
  BY <1>9 DEF ProbeThread, linkVars, NotSnapshot
<1>10. CASE \E t \in Transfers : SnapshotThread(t)
  BY <1>10 DEF SnapshotThread, SnapshotAction
<1>11. QED
  BY ONLY [Next]_vars, <1>1, <1>2, <1>3, <1>4, <1>5, <1>6, <1>7, <1>8, <1>9, <1>10
     DEF Next, MainLoop

LEMMA FreshChunks ==
    ASSUME NEW t \in Transfers
    PROVE  Fresh(t) \in Metas(t) /\ ToSet(Fresh(t).next) = ChunksIn(t)
BY SnapshotAssumption DEF Fresh, Metas, ChunksIn, ToSet

LEMMA MissingChunks ==
    ASSUME NEW t \in Transfers, NEW missing \in SUBSET ChunksIn(t)
    PROVE  /\ Ascending(missing) \in Seq(ChunksIn(t))
           /\ ToSet(Ascending(missing)) = missing
<1>1. ChunksOf[t] \in Nat
  BY SnapshotAssumption
<1>2. ChunksIn(t) \subseteq Nat /\ IsFiniteSet(ChunksIn(t))
  BY <1>1, FS_Interval DEF ChunksIn
<1>3. missing \subseteq Nat /\ IsFiniteSet(missing)
  BY <1>2, FS_Subset
<1>4. Ascending(missing) \in Seq(missing) /\ ToSet(Ascending(missing)) = missing
  BY <1>3, AscendingOf
<1>5. QED BY <1>4

LEMMA PendingTransfers ==
    ASSUME NEW T \in SUBSET Transfers
    PROVE  Ascending(T) \in Seq(Transfers)
<1>1. T \subseteq Nat /\ IsFiniteSet(T)
  BY SnapshotAssumption, FS_Subset
<1>2. Ascending(T) \in Seq(T)
  BY <1>1, AscendingOf
<1>3. QED BY <1>2

\* What the pump has in hand it writes back before it leaves the transfer, unless the
\* directory is moved; a list that was not written back names more than is owed.
LEMMA SnapshotsKept ==
    ASSUME SnapshotsTyped, [Next]_vars
    PROVE  SnapshotsTyped' /\ (OwedListed => OwedListed')
<1> USE SnapshotAssumption
    DEF SnapshotsTyped, OwedListed, NothingOwedIsDone, InPump
<1> DEFINE Owed == OwedListed => OwedListed'
           Kept == SnapshotsTyped' /\ Owed
<1>0. ASSUME UNCHANGED nack PROVE NackTyped'
  BY <1>0 DEF NackTyped
<1>00. /\ queue \in Seq(Transfers) /\ <<>> \in Seq(Transfers)
       /\ queue # <<>> => Now \in Transfers /\ Tail(queue) \in Seq(Transfers)
  <2>1. queue \in Seq(Transfers) /\ <<>> \in Seq(Transfers)
    OBVIOUS
  <2>2. QED BY ONLY <2>1, HeadAndTail DEF Now
<1>1. CASE NotSnapshot
  BY <1>0, <1>1 DEF NotSnapshot, snapVars, disk, pumpVars, nackVars, history, Now, Metas
<1>2. CASE ListPending
  BY <1>0, <1>2, PendingTransfers DEF ListPending, Quiet, nackVars, history
<1>3. CASE NonePending \/ SkipUnreadable
  <2>1. /\ loop' \notin {"pumpMeta", "pumpSave", "pumpChunk"} /\ ~InPump
        /\ queue' = <<>> \/ (queue # <<>> /\ queue' = Tail(queue))
        /\ work' = NoWork /\ inPump' \in {inPump, 0}
        /\ UNCHANGED <<place, meta, owed, clashed, mqtt, nack, tooOld>>
    BY <1>3 DEF NonePending, SkipUnreadable, Returned, Quiet, nackVars, history
  <2>2. queue' \in Seq(Transfers)
    BY ONLY <1>00, <2>1
  <2>3. QED BY <1>0, <2>1, <2>2
<1>4. CASE Expire
  BY <1>0, <1>4 DEF Expire, Moves, Quiet, nackVars, history, Now
<1>5. CASE ReadMeta
  <2>1. /\ InPump' /\ ~InPump /\ queue # <<>> /\ Now' = Now
        /\ place[Now] = "pending" /\ work' = meta[Now] /\ inPump' = 0
        /\ UNCHANGED <<place, meta, queue, owed, clashed, mqtt, nack, tooOld>>
    BY <1>5 DEF ReadMeta, Quiet, nackVars, history, Now
  <2>3. work' \in Metas(Now')
    BY <1>00, <2>1
  <2>4. queue' # <<>> /\ inPump' \in 0..PerPump /\ NackTyped'
    BY <1>0, <2>1
  <2>5. SnapshotsTyped'
    BY <2>1, <2>3, <2>4
  <2>6. Owed
    BY <1>00, <2>1
  <2>7. QED BY <2>5, <2>6
<1>6. CASE PublishMeta
  <2>1. /\ InPump /\ InPump' /\ Now' = Now
        /\ work' = [work EXCEPT !.metaSent = TRUE]
        /\ UNCHANGED <<place, meta, queue, inPump, owed, clashed, mqtt, nack, tooOld>>
    BY <1>6 DEF PublishMeta, Quiet, nackVars, history, Now
  <2>2. work' \in Metas(Now) /\ work'.next = work.next
    BY <2>1 DEF Metas
  <2>3. QED BY <1>0, <2>1, <2>2
<1>7. CASE SaveMetaSent
  BY <1>0, <1>7 DEF SaveMetaSent, Saved, Quiet, nackVars, pumpVars, history, Now
<1>8. CASE PublishChunk
  <2>1. /\ InPump /\ InPump' /\ Now' = Now /\ work.next # <<>> /\ inPump < PerPump
        /\ owed' = [owed EXCEPT ![Now] = @ \ {Head(work.next)}]
        /\ work' = [work EXCEPT !.next = Tail(@)]
        /\ inPump' = inPump + 1
        /\ UNCHANGED <<place, meta, queue, clashed, mqtt, nack, tooOld>>
    BY <1>8 DEF PublishChunk, MoreChunks, Quiet, nackVars, history, Now
  <2>2. Now \in Transfers /\ work.next \in Seq(ChunksIn(Now))
    BY <2>1 DEF Now, Metas
  <2>3. work' \in Metas(Now) /\ work'.next = Tail(work.next)
    <3>1. work \in Metas(Now) /\ work' = [work EXCEPT !.next = Tail(work.next)]
      BY <2>1
    <3>2. Tail(work.next) \in Seq(ChunksIn(Now))
      BY ONLY <2>1, <2>2, HeadAndTail
    <3>3. QED BY ONLY <3>1, <3>2 DEF Metas
  <2>4. ToSet(work.next) \ ToSet(work'.next) \subseteq {Head(work.next)}
    BY <2>1, <2>2, <2>3, FirstElement
  <2>5. OwedListed /\ Now \notin clashed => owed'[Now] \subseteq ToSet(work'.next)
    BY <2>1, <2>2, <2>4
  <2>6. \A t \in Transfers : owed'[t] \subseteq owed[t]
    BY <2>1
  <2>7. inPump' \in 0..PerPump
    BY <2>1
  <2>8. SnapshotsTyped'
    BY <1>0, <2>1, <2>2, <2>3, <2>6, <2>7
  <2>9. Owed
    BY <2>1, <2>5, <2>6
  <2>10. QED BY <2>8, <2>9
<1>9. CASE AllSent
  <2>1. /\ InPump /\ ~InPump' /\ work.next = <<>>
        /\ place' = [place EXCEPT ![Now] = "done"]
        /\ queue' \in {<<>>, Tail(queue)} /\ work' = NoWork /\ inPump' = 0
        /\ UNCHANGED <<meta, owed, clashed, mqtt, nack, tooOld>>
    BY <1>9 DEF AllSent, Finished, Moves, Returned, Quiet, nackVars, history, Now
  <2>2. ToSet(work.next) = {}
    BY ONLY <2>1 DEF ToSet
  <2>3. OwedListed /\ Now \notin clashed => owed[Now] = {}
    BY <2>1, <2>2
  <2>4. queue' \in Seq(Transfers) /\ Now \in Transfers
    BY <1>00, <2>1
  <2>5. SnapshotsTyped'
    BY <1>0, <2>1, <2>4
  <2>6. Owed
    BY <2>1, <2>3, <2>4
  <2>7. QED BY <2>5, <2>6
<1>10. CASE EnoughSent \/ PublishRefused \/ SaveMetaFails \/ ChunkUnreadable
  <2>1. /\ InPump /\ ~InPump'
        /\ meta' = [meta EXCEPT ![Now] = work] \/ UNCHANGED meta
        /\ queue' = <<>> /\ work' = NoWork /\ inPump' = 0
        /\ UNCHANGED <<place, owed, clashed, mqtt, nack, tooOld>>
    BY <1>10 DEF EnoughSent, PublishRefused, SaveMetaFails, ChunkUnreadable, Saved, Returned,
                 Quiet, nackVars, history
  <2>2. SnapshotsTyped'
    BY <1>0, <2>1
  <2>3. Owed
    BY <2>1
  <2>4. QED BY <2>2, <2>3
<1>11. CASE NackSave
  <2>0. PICK t \in Transfers : \E m \in BOOLEAN, missing \in SUBSET ChunksIn(t) :
               nack = <<[of |-> t, missing |-> missing, metaSent |-> m]>>
    BY <1>11 DEF NackSave, NackTyped
  <2>1. PICK m \in BOOLEAN, missing \in SUBSET ChunksIn(t) :
               nack = <<[of |-> t, missing |-> missing, metaSent |-> m]>>
    BY <2>0
  <2>2. /\ \/ /\ place[t] = "pending"
              /\ meta' = [meta EXCEPT ![t] = [metaSent |-> m, next |-> Ascending(missing)]]
              /\ owed' = [owed EXCEPT ![t] = missing]
              /\ clashed' = IF InPump /\ Now = t THEN clashed \cup {t} ELSE clashed \ {t}
           \/ UNCHANGED <<meta, owed, clashed>>
        /\ nack' = <<>> /\ mqtt' = "idle"
        /\ UNCHANGED <<loop, place, tooOld, queue, work, inPump>>
    BY <1>11, <2>1 DEF NackSave, InTransfer, pumpVars, history
  <2>3. [metaSent |-> m, next |-> Ascending(missing)] \in Metas(t)
        /\ ToSet(Ascending(missing)) = missing
    BY <2>1, MissingChunks DEF Metas
  <2>4. Now' = Now /\ (InPump => Now \in Transfers)
    BY <1>00, <2>2 DEF Now
  <2>5. SnapshotsTyped'
    BY <2>2, <2>3, <2>4 DEF NackTyped
  <2>6. OwedListed => \A u \in Transfers \ clashed' :
                         place[u] = "pending" => owed'[u] \subseteq ToSet(meta'[u].next)
    BY <2>2, <2>3
  <2>7. OwedListed /\ InPump /\ Now \notin clashed' => owed'[Now] \subseteq ToSet(work.next)
    BY <2>2, <2>4
  <2>8. OwedListed => NothingOwedIsDone'
    BY <2>2
  <2>9. Owed
    BY <2>2, <2>4, <2>6, <2>7, <2>8
  <2>10. QED BY <2>5, <2>9
<1>12. ASSUME NEW t \in Transfers, NEW missing \in SUBSET ChunksIn(t), NackOpen(t, missing)
       PROVE  Kept
  <2>1. /\ place[t] \in {"pending", "done"}
        /\ place' = [place EXCEPT ![t] = "pending"]
        /\ UNCHANGED <<loop, meta, tooOld, queue, work, inPump, owed, clashed>>
        /\ mqtt = "idle"
        /\ \/ UNCHANGED <<mqtt, nack>>
           \/ /\ nack' = <<[of |-> t, missing |-> missing, metaSent |-> meta[t].metaSent]>>
              /\ mqtt' = "nack"
    BY <1>12 DEF NackOpen, pumpVars, history
  <2>2. NackTyped' /\ (mqtt' = "nack" <=> nack' # <<>>)
    <3>1. meta[t].metaSent \in BOOLEAN
      BY DEF Metas
    <3>2. CASE UNCHANGED <<mqtt, nack>>
      BY <1>0, <3>2
    <3>3. ASSUME nack' = <<[of |-> t, missing |-> missing, metaSent |-> meta[t].metaSent]>>,
                 mqtt' = "nack"
          PROVE  NackTyped' /\ nack' # <<>>
      BY ONLY <3>1, <3>3, t \in Transfers, missing \in SUBSET ChunksIn(t) DEF NackTyped
    <3>4. QED BY <2>1, <3>2, <3>3
  <2>3. Now' = Now
    BY <2>1 DEF Now
  <2>4. SnapshotsTyped'
    BY <2>1, <2>2, <2>3
  <2>5. Owed
    BY <2>1, <2>3
  <2>6. QED BY <2>4, <2>5
<1>13. ASSUME NEW t \in Transfers, Stage(t), UNCHANGED <<linkVars, pumpVars, nackVars>>
       PROVE  Kept
  <2>1. UNCHANGED <<loop, mqtt, queue, work, inPump, nack, Now>>
    BY <1>13 DEF linkVars, pumpVars, nackVars, history, Now
  <2>2. CASE StageMeta(t)
    <3>1. /\ place[t] = "staging" /\ place' = [place EXCEPT ![t] = "pending"]
          /\ meta' = [meta EXCEPT ![t] = Fresh(t)]
          /\ owed' = [owed EXCEPT ![t] = ChunksIn(t)]
          /\ UNCHANGED <<tooOld, clashed>>
      BY <2>2 DEF StageMeta, Moves
    <3>2. SnapshotsTyped'
      BY <1>0, <2>1, <3>1, FreshChunks
    <3>3. InPump => Now \in Transfers
      BY <1>00
    <3>4. Owed
      BY <2>1, <3>1, <3>3, FreshChunks
    <3>5. QED BY <3>2, <3>4
  <2>3. CASE StageChunks(t) \/ StageFails(t) \/ GrowOld(t)
    <3>1. /\ UNCHANGED <<meta, owed, clashed>>
          /\ tooOld' = tooOld \/ tooOld' = tooOld \cup {t}
          /\ \/ place' = place
             \/ /\ place[t] \in {"none", "staging"}
                /\ place' \in {[place EXCEPT ![t] = "staging"], [place EXCEPT ![t] = "orphan"]}
      BY <2>3 DEF StageChunks, StageFails, GrowOld, Moves, history
    <3>2. InPump /\ place[Now] = "pending" => place'[Now] = "pending"
      BY <1>00, <3>1
    <3>3. SnapshotsTyped'
      BY <1>0, <2>1, <3>1
    <3>4. Owed
      BY <2>1, <3>1, <3>2
    <3>5. QED BY <3>3, <3>4
  <2>4. QED BY ONLY <1>13, <2>2, <2>3 DEF Stage
<1>14. CASE LinkGone /\ SnapshotsGone
  <2>1. /\ place' = [t \in Transfers |-> IF place[t] = "staging" THEN "orphan" ELSE place[t]]
        /\ queue' = <<>> /\ work' = NoWork /\ inPump' = 0 /\ ~InPump'
        /\ nack' = <<>> /\ mqtt' = "idle" /\ UNCHANGED <<meta, tooOld, owed, clashed>>
    BY <1>14 DEF LinkGone, SnapshotsGone, history
  <2>2. QED BY <2>1 DEF NackTyped
<1>15. CASE MoveFails
  <2>1. /\ ~InPump' /\ work' = NoWork /\ inPump' \in {inPump, 0}
        /\ queue' = <<>> \/ (queue # <<>> /\ queue' = Tail(queue))
        /\ UNCHANGED <<place, meta, owed, clashed, mqtt, nack, tooOld>>
    BY <1>15 DEF MoveFails, Finished, Returned, Quiet, nackVars, history
  <2>2. queue' \in Seq(Transfers)
    BY ONLY <1>00, <2>1
  <2>3. QED BY <1>0, <2>1, <2>2
<1>16. QED
  BY ONLY [Next]_vars, SnapshotSteps, <1>1, <1>2, <1>3, <1>4, <1>5, <1>6, <1>7, <1>8, <1>9,
          <1>10, <1>11, <1>12, <1>13, <1>14, <1>15
     DEF SnapshotAction

-----------------------------------------------------------------------------
\* Each invariant holds at first, when there is no process.
LEMMA FirstState ==
    ASSUME Init
    PROVE  Inv
<1>1. RegistrationInv
  <2>1. /\ connected \in BOOLEAN /\ regDue \in BOOLEAN /\ responseReady \in BOOLEAN
        /\ expired \in BOOLEAN /\ crossed \in BOOLEAN
    BY ONLY Init, TRUE \in BOOLEAN, FALSE \in BOOLEAN DEF Init, InitLink, InitRegistration
  <2>2. LinkTypeOK /\ RegistrationTypeOK
    BY LinkAssumption, Init, <2>1
       DEF Init, InitLink, InitRegistration, LinkTypeOK, RegistrationTypeOK, CommandLine
  <2>3. QED BY Init, <2>2
               DEF Init, InitLink, InitRegistration, RegistrationInv, CredentialsAgree, Applying
<1>2. RenewalInv
  <2>1. /\ certOn \in BOOLEAN /\ certDue \in BOOLEAN /\ certReady \in BOOLEAN
        /\ certAged \in BOOLEAN
    BY ONLY Init, TRUE \in BOOLEAN, FALSE \in BOOLEAN DEF Init, InitRenewal
  <2>2. QED BY LinkAssumption, Init, <2>1
               DEF Init, InitLink, InitRenewal, RenewalInv, RenewalTypeOK, CertificateKept, None
<1>3. ReportsInv
  BY Init DEF Init, InitLink, InitReports, ReportsInv, ChangeNotForgotten
<1>4. CountsInv
  <2>1. Present = {} /\ Cardinality({}) = 0 /\ Cardinality(Probes) \in Nat
    BY Init, ReportsAssumption, FS_EmptySet, FS_CardinalityType DEF Init, InitReports, Present
  <2>2. reportNow \in BOOLEAN
    BY ONLY Init, FALSE \in BOOLEAN DEF Init, InitReports
  <2>3. QED BY Init, <2>1, <2>2 DEF Init, InitReports, CountsInv, ReportsTypeOK, Present, None
<1>5. EventsInv
  <2>1. [i \in 1..0 |-> i] = <<>>
    OBVIOUS
  <2>2. QED BY Init, <2>1 DEF Init, InitLink, InitReports, EventsInv, EventsInOrder
<1>6. SnapshotsInv
  BY Init, FreshChunks, SnapshotAssumption
     DEF Init, InitLink, InitSnapshots, SnapshotsInv, SnapshotsTyped, NackTyped, InPump, NoWork,
         OwedListed, NothingOwedIsDone
<1>7. QED BY ONLY <1>1, <1>2, <1>3, <1>4, <1>5, <1>6 DEF Inv

\* Every part of the daemon keeps its types, and the number of probes that is reported
\* is the number of the threads that are counted, wherever each of them is.
THEOREM TypeCorrect == Spec => []TypeOK
<1> DEFINE Typed == /\ LinkTypeOK /\ RegistrationTypeOK /\ RenewalInv
                    /\ CountsInv /\ SnapshotsTyped
<1>1. Init => Typed
  BY FirstState DEF Inv, RegistrationInv, SnapshotsInv
<1>2. Typed /\ [Next]_vars => Typed'
  BY RegistrationTyped, RenewalKept, CountsKept, SnapshotsKept DEF RenewalInv
<1>3. Typed => TypeOK
  <2> SUFFICES ASSUME Typed PROVE TypeOK
    OBVIOUS
  <2>1. ASSUME NEW t \in Transfers, NEW m \in Metas(t)
        PROVE  m.metaSent \in BOOLEAN /\ ToSet(m.next) \subseteq ChunksIn(t)
    BY DEF Metas, ToSet
  <2>2. \A t \in Transfers : /\ meta[t].metaSent \in BOOLEAN
                             /\ ToSet(meta[t].next) \subseteq ChunksIn(t)
    BY <2>1 DEF SnapshotsTyped
  <2>3. InPump => Now \in Transfers
    BY DEF SnapshotsTyped, Now
  <2>4. work = NoWork \/ (work.metaSent \in BOOLEAN /\ ToSet(work.next) \subseteq ChunksIn(Now))
    BY <2>1, <2>3 DEF SnapshotsTyped
  <2>5. ToSet(queue) \subseteq Transfers
    BY DEF SnapshotsTyped, ToSet
  <2>6. Len(nack) <= 1
    <3>1. CASE nack = <<>>
      BY <3>1
    <3>2. ASSUME NEW e, nack = <<e>> PROVE Len(nack) <= 1
      BY ONLY <3>2
    <3>3. QED BY <3>1, <3>2 DEF SnapshotsTyped, NackTyped
  <2>7. SnapshotsTypeOK
    BY <2>2, <2>4, <2>5, <2>6 DEF SnapshotsTyped, SnapshotsTypeOK
  <2>8. QED BY <2>7 DEF TypeOK, RenewalInv, CountsInv
<1>4. QED BY <1>1, <1>2, <1>3, PTL DEF Spec

\* A device that counts as registered connects with the credentials it would have after
\* a restart (registration.cpp and its sections in main.cpp), whatever failed on the way
\* and however late answers come; only an answer that is parsed into reg.pending while
\* another one waits to be applied, or is being applied, breaks that.
THEOREM RegisteredWithStored == Spec => []CredentialsAgree
<1>1. Init => RegistrationInv /\ RenewalInv
  BY FirstState DEF Inv
<1>2. RegistrationInv /\ RenewalInv /\ [Next]_vars => (RegistrationInv /\ RenewalInv)'
  <2> SUFFICES ASSUME RegistrationInv, RenewalInv, [Next]_vars
               PROVE  RegistrationInv' /\ RenewalInv'
    OBVIOUS
  <2>1. RegistrationAction \/ NotRegistration
    BY LinkStep DEF RegistrationInv, RenewalInv
  <2>2. LinkTypeOK' /\ RegistrationTypeOK'
    BY RegistrationTyped DEF RegistrationInv, RenewalInv
  <2>3. QED BY <2>1, <2>2, RegistrationKept, RegistrationStays, RenewalKept
<1>3. RegistrationInv => CredentialsAgree
  BY DEF RegistrationInv
<1>4. QED BY <1>1, <1>2, <1>3, PTL DEF Spec

\* Renewal never leaves the device without a certificate (applyResponse in
\* cert_manager.cpp), whenever answers come and wherever the daemon stops.
THEOREM SomeCertificate == Spec => []CertificateKept
<1>1. Init => RenewalInv
  BY FirstState DEF Inv
<1>2. RenewalInv /\ [Next]_vars => RenewalInv'
  BY RenewalKept
<1>3. RenewalInv => CertificateKept
  BY DEF RenewalInv
<1>4. QED BY <1>1, <1>2, <1>3, PTL DEF Spec

\* A probe that comes or goes while the main loop makes a report (socket_server.cpp and
\* main.cpp) is in the report, or another report is under way.
THEOREM ChangesReported == Spec => []ChangeNotForgotten
<1>1. Init => ReportsInv
  BY FirstState DEF Inv
<1>2. ReportsInv /\ [Next]_vars => ReportsInv'
  BY ReportsKept
<1>3. ReportsInv => ChangeNotForgotten
  BY DEF ReportsInv
<1>4. QED BY <1>1, <1>2, <1>3, PTL DEF Spec

\* Events about rejected bundles leave in their order, each once, although those that
\* were refused go back into the queue that the MQTT thread fills (main.cpp).
THEOREM EventsOrdered == Spec => []EventsInOrder
<1>1. Init => EventsInv
  BY FirstState DEF Inv
<1>2. EventsInv /\ [Next]_vars => EventsInv'
  BY EventsKept
<1>3. EventsInv => EventsInOrder
  BY DEF EventsInv
<1>4. QED BY <1>1, <1>2, <1>3, PTL DEF Spec

\* A snapshot that has moved to done/ has given the library all the chunks of its last
\* list (log_snapshot.cpp), over refusals, failures and crashes, and requests for chunks
\* at any time; only a list that onNack wrote while pump was in that transfer breaks
\* that, until the next list is written.
THEOREM DoneIsUploaded == Spec => []NothingOwedIsDone
<1>1. Init => SnapshotsInv
  BY FirstState DEF Inv
<1>2. SnapshotsInv /\ [Next]_vars => SnapshotsInv'
  BY SnapshotsKept DEF SnapshotsInv
<1>3. SnapshotsInv => NothingOwedIsDone
  BY DEF SnapshotsInv, OwedListed
<1>4. QED BY <1>1, <1>2, <1>3, PTL DEF Spec
=============================================================================
