---------------------------- MODULE CertRenewal ----------------------------
(***************************************************************************)
(* Renewal of the device's certificate (cert_manager.cpp, its section of   *)
(* the main loop in main.cpp and reloadTls in mqtt_uploader.cpp).  The old *)
(* certificate is renamed to a backup, the new one is written beside it    *)
(* and renamed into place, and the connection is made again with it.       *)
(*                                                                         *)
(* A certificate is known by the request it answers, 0 is the one of the   *)
(* factory.                                                                *)
(***************************************************************************)
EXTENDS Registration

CONSTANT
    LateCerts    \* whether an answer may come after its request has timed out

None == -1

VARIABLES
    certOn,       \* cert_mgr: the renewal is in use
    certState,    \* cert.st
    certRid,      \* cert.rid
    certDue,      \* the clock has passed next_attempt_ms, or deadline_ms
    certReady,    \* cert.response_ready
    certPayload,  \* what cert.pending_payload answers; None when it is a refusal
    certFile,     \* the certificate in cert_file, None when there is no file
    certBackup,   \* the same for cert_file.bak
    certAged      \* less than a third of its time is left

certMemory == <<certOn, certState, certRid, certDue, certReady, certPayload>>
certDisk   == <<certFile, certBackup, certAged>>
certVars   == <<certMemory, certDisk>>

InitRenewal ==
    /\ certOn = FALSE
    /\ certState = "Idle"
    /\ certRid = 0
    /\ certDue = TRUE
    /\ certReady = FALSE
    /\ certPayload = None
    /\ certFile = 0
    /\ certBackup = None
    /\ certAged = FALSE

StartRenewal(renew) ==
    /\ certOn' = renew
    /\ UNCHANGED <<certState, certRid, certDue, certReady, certPayload, certDisk>>

-----------------------------------------------------------------------------
\* The callback of the MQTT thread keeps the answer, whatever it answers.
KeepResponse(id) ==
    /\ Delivered("cert", id)
    /\ certPayload' \in {id, None}
    /\ certReady' = TRUE
    /\ UNCHANGED <<loop, mqtt, reportTimer, certOn, certState, certRid, certDue, certDisk>>

-----------------------------------------------------------------------------
\* The section of the main loop.

AtCert(s) == loop = "cert" /\ Admitted /\ certOn /\ certState = s

MayLook == AtCert("Idle") /\ connected /\ certDue

\* The certificate cannot be read: the renewal is switched off.
CertUnreadable ==
    /\ MayLook /\ certFile = None
    /\ certOn' = FALSE
    /\ loop' = "top"
    /\ UNCHANGED <<mqtt, cloud, reportTimer, certState, certRid, certDue, certReady,
                   certPayload, certDisk>>

StillYoung ==
    /\ MayLook /\ certFile # None /\ ~certAged
    /\ certDue' = FALSE
    /\ loop' = "top"
    /\ UNCHANGED <<mqtt, cloud, reportTimer, certOn, certState, certRid, certReady,
                   certPayload, certDisk>>

RequestCert ==
    /\ MayLook /\ certFile # None /\ certAged
    /\ certRid' = NextId(certRid)
    /\ Requested("cert", certRid')
    /\ certState' = "Waiting"
    /\ certDue' = FALSE
    /\ loop' = "top"
    /\ UNCHANGED <<mqtt, reportTimer, certOn, certReady, certPayload, certDisk>>

\* No key to sign with, or the request was not taken.
RequestCertFails ==
    /\ MayLook /\ certFile # None /\ certAged
    /\ certRid' = NextId(certRid)
    /\ certDue' = FALSE
    /\ loop' = "top"
    /\ UNCHANGED <<mqtt, cloud, reportTimer, certOn, certState, certReady, certPayload,
                   certDisk>>

TakeCert ==
    /\ AtCert("Waiting") /\ certReady
    /\ certReady' = FALSE
    /\ loop' = "certCheck"
    /\ UNCHANGED <<mqtt, cloud, reportTimer, certOn, certState, certRid, certDue,
                   certPayload, certDisk>>

BackToIdle(due) == certState' = "Idle" /\ certDue' = due /\ loop' = "top"

CertTimeout ==
    /\ AtCert("Waiting") /\ ~certReady /\ certDue
    /\ BackToIdle(FALSE)
    /\ UNCHANGED <<mqtt, cloud, reportTimer, certOn, certRid, certReady, certPayload,
                   certDisk>>

NothingToRenew ==
    /\ loop = "cert"
    /\ ~MayLook /\ ~(AtCert("Waiting") /\ (certReady \/ certDue))
    /\ loop' = "top"
    /\ UNCHANGED <<mqtt, cloud, reportTimer, certVars>>

\* applyResponse: an answer to another request and a refusal are not applied.
RefuseCert ==
    /\ loop = "certCheck" /\ certPayload # certRid
    /\ BackToIdle(FALSE)
    /\ UNCHANGED <<mqtt, cloud, reportTimer, certOn, certRid, certReady, certPayload,
                   certDisk>>

\* Mutant of BackUpCert: the old certificate is removed.
RemoveCert ==
    /\ loop = "certCheck" /\ certPayload = certRid
    /\ certFile' = None
    /\ certBackup' = None
    /\ loop' = "certWrite"
    /\ UNCHANGED <<mqtt, cloud, reportTimer, certMemory, certAged>>

BackUpCert ==
    /\ loop = "certCheck" /\ certPayload = certRid
    /\ certFile' = None
    /\ certBackup' = IF certFile # None THEN certFile ELSE certBackup
    /\ loop' = "certWrite"
    /\ UNCHANGED <<mqtt, cloud, reportTimer, certMemory, certAged>>

WriteCert ==
    /\ loop = "certWrite"
    /\ certFile' = certPayload
    /\ certAged' = FALSE
    /\ loop' = "certReload"
    /\ UNCHANGED <<mqtt, cloud, reportTimer, certMemory, certBackup>>

WriteCertFails ==
    /\ loop = "certWrite"
    /\ BackToIdle(FALSE)
    /\ UNCHANGED <<mqtt, cloud, reportTimer, certOn, certRid, certReady, certPayload,
                   certDisk>>

\* reloadTls: the next look at the certificate is hours away when it works, and
\* at once when it does not (next_attempt_ms stays as it was).
ReloadTls ==
    /\ loop = "certReload"
    /\ Cycle
    /\ BackToIdle(FALSE)
    /\ UNCHANGED <<mqtt, reportTimer, certOn, certRid, certReady, certPayload, certDisk>>

ReloadTlsFails ==
    /\ loop = "certReload"
    /\ BackToIdle(TRUE)
    /\ UNCHANGED <<mqtt, cloud, reportTimer, certOn, certRid, certReady, certPayload,
                   certDisk>>

RenewCert ==
    \/ CertUnreadable \/ StillYoung \/ RequestCert \/ TakeCert
    \/ CertTimeout \/ NothingToRenew \/ RefuseCert \/ BackUpCert \/ WriteCert \/ ReloadTls

RenewCertFails == RequestCertFails \/ WriteCertFails \/ ReloadTlsFails

-----------------------------------------------------------------------------
\* The clock passes the time of the next attempt, or the deadline of an answer.
CertTimerElapses ==
    /\ certOn /\ ~certDue
    /\ LateCerts \/ ~certReady
    /\ certDue' = TRUE
    /\ Lost("cert") \/ (LateCerts /\ UNCHANGED cloud)
    /\ UNCHANGED <<loop, mqtt, reportTimer, certOn, certState, certRid, certReady,
                   certPayload, certDisk>>

CertAges ==
    /\ certOn /\ certFile # None /\ ~certAged
    /\ certAged' = TRUE
    /\ UNCHANGED <<linkVars, certMemory, certFile, certBackup>>

\* The process is gone.
RenewalGone ==
    /\ certOn' = FALSE
    /\ certState' = "Idle"
    /\ certRid' = 0
    /\ certDue' = TRUE
    /\ certReady' = FALSE
    /\ certPayload' = None
    /\ UNCHANGED certDisk

-----------------------------------------------------------------------------
\* Properties.

RenewalTypeOK ==
    /\ certOn \in BOOLEAN /\ certState \in {"Idle", "Waiting"}
    /\ certRid \in 0..Ids /\ certPayload \in 1..Ids \cup {None}
    /\ certFile \in 0..Ids \cup {None} /\ certBackup \in 0..Ids \cup {None}
    /\ certDue \in BOOLEAN /\ certReady \in BOOLEAN /\ certAged \in BOOLEAN

\* Over failed writes, failed reloads and crashes at any step, one renewal after
\* the other, a certificate is left, if only as the backup.
CertificateKept == certFile # None \/ certBackup # None

\* A certificate near its end is replaced at some time, over refusals, lost
\* answers and timeouts, unless its file is lost, which ends the renewal.
Renews == certOn /\ certAged ~> ~certAged \/ certFile = None \/ ~certOn
=============================================================================
