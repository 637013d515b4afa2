---------------------------- MODULE Registration ----------------------------
(***************************************************************************)
(* Dynamic registration (registration.cpp and its sections in main.cpp):   *)
(* the main loop asks for credentials, the thread of the MQTT library      *)
(* parses the answer, and the main loop saves the credentials and connects *)
(* with them.                                                              *)
(*                                                                         *)
(* Credentials are known by the request they answer; 0 stands for none,    *)
(* and CommandLine for a token that is given with --token.                 *)
(***************************************************************************)
EXTENDS MqttLink

VARIABLES
    regState,       \* reg.state
    requestId,      \* reg.request_id
    regDue,         \* the clock has passed reg_next_attempt_ms, or reg_deadline_ms
    responseReady,  \* reg.response_ready
    pending,        \* reg.pending
    stored,         \* credentials.json
    expired,        \* what credentials.json holds has expired
    used,           \* what the MQTT library connects with
    crossed         \* history: an answer came before the one that is applied was dealt with

regVars == <<regState, requestId, regDue, responseReady, pending, stored, expired, used,
             crossed>>

CommandLine == Ids + 1

\* Reports and certificates wait for the registration.
Admitted == regState \in {"Registered", "Disabled"}

InitRegistration ==
    /\ regState = "Disabled"
    /\ requestId = 0
    /\ regDue = TRUE
    /\ responseReady = FALSE
    /\ pending = 0
    /\ stored = 0
    /\ expired = FALSE
    /\ used = 0
    /\ crossed = FALSE

\* The start of main(): a token of the command line comes before credentials that
\* are stored and valid; without either the device registers when it is told to.
StartRegistration(register, token) ==
    /\ used' = IF token THEN CommandLine ELSE IF expired THEN 0 ELSE stored
    /\ regState' = IF used' # 0 THEN "Registered"
                   ELSE IF register THEN "NeedRegister" ELSE "Disabled"
    /\ UNCHANGED <<requestId, regDue, responseReady, pending, stored, expired, crossed>>

-----------------------------------------------------------------------------
\* The callback of the MQTT thread parses the answer, then sets the flag.  An
\* answer to another request, and a refusal, are dropped; nothing looks at whether
\* the request has timed out, or the main loop is busy with another answer.

Applying == loop \in {"regSave", "regUse", "regClear"}

ParseInitResponse(id) ==
    /\ Delivered("init", id)
    /\ \/ id = requestId /\ pending' = id /\ mqtt' = "flag"
          /\ crossed' = (crossed \/ responseReady \/ Applying)
       \/ UNCHANGED <<pending, mqtt, crossed>>
    /\ UNCHANGED <<loop, reportTimer, regState, requestId, regDue, responseReady,
                   stored, expired, used>>

SetReady ==
    /\ mqtt = "flag"
    /\ responseReady' = TRUE
    /\ mqtt' = "idle"
    /\ UNCHANGED <<loop, cloud, reportTimer, regState, requestId, regDue, pending,
                   stored, expired, used, crossed>>

-----------------------------------------------------------------------------
\* First section of the main loop: an answer is applied.

TakeResponse ==
    /\ loop = "top" /\ responseReady
    /\ responseReady' = FALSE
    /\ loop' = "regSave"
    /\ UNCHANGED <<mqtt, cloud, reportTimer, regState, requestId, regDue, pending,
                   stored, expired, used, crossed>>

NoResponse ==
    /\ loop = "top" /\ ~responseReady
    /\ loop' = "ask"
    /\ UNCHANGED <<mqtt, cloud, reportTimer, regVars>>

\* CredentialStore::save renames a new file over the old one, or fails.
SaveCredentials ==
    /\ loop = "regSave"
    /\ stored' = pending
    /\ expired' = FALSE
    /\ loop' = "regUse"
    /\ UNCHANGED <<mqtt, cloud, reportTimer, regState, requestId, regDue,
                   responseReady, pending, used, crossed>>

Retry == regState' = "NeedRegister" /\ regDue' = FALSE

\* Mutant of SaveFails: the error is not looked at.
SaveErrorIgnored ==
    /\ loop = "regSave"
    /\ loop' = "regUse"
    /\ UNCHANGED <<mqtt, cloud, reportTimer, regVars>>

SaveFails ==
    /\ loop = "regSave"
    /\ Retry
    /\ loop' = "regClear"
    /\ UNCHANGED <<mqtt, cloud, reportTimer, requestId, responseReady, pending,
                   stored, expired, used, crossed>>

\* updateCredentials, and the full report within 5 s.
UseCredentials ==
    /\ loop = "regUse"
    /\ used' = pending
    /\ Cycle
    /\ regState' = "Registered"
    /\ reportTimer' = "soon"
    /\ loop' = "regClear"
    /\ UNCHANGED <<mqtt, requestId, regDue, responseReady, pending, stored, expired, crossed>>

\* The library has the credentials but cannot connect again.
UseFails ==
    /\ loop = "regUse" /\ connected
    /\ used' = pending
    /\ Retry
    /\ loop' = "regClear"
    /\ UNCHANGED <<mqtt, cloud, reportTimer, requestId, responseReady, pending,
                   stored, expired, crossed>>

ClearPending ==
    /\ loop = "regClear"
    /\ pending' = 0
    /\ loop' = "ask"
    /\ UNCHANGED <<mqtt, cloud, reportTimer, regState, requestId, regDue,
                   responseReady, stored, expired, used, crossed>>

ApplyResponse ==
    \/ TakeResponse \/ NoResponse \/ SaveCredentials \/ UseCredentials \/ ClearPending

-----------------------------------------------------------------------------
\* Second section: the state machine.

MayAsk == regState = "NeedRegister" /\ connected /\ regDue
GivesUp == regState = "Waiting" /\ regDue

Ask ==
    /\ loop = "ask" /\ MayAsk
    /\ requestId' = NextId(requestId)
    /\ Requested("init", requestId')
    /\ regState' = "Waiting"
    /\ regDue' = FALSE
    /\ loop' = "report"
    /\ UNCHANGED <<mqtt, reportTimer, responseReady, pending, stored, expired, used, crossed>>

AskRefused ==
    /\ loop = "ask" /\ MayAsk
    /\ requestId' = NextId(requestId)
    /\ regDue' = FALSE
    /\ loop' = "report"
    /\ UNCHANGED <<mqtt, cloud, reportTimer, regState, responseReady, pending, stored,
                   expired, used, crossed>>

\* Mutant of AskTimeout: a request without an answer is waited for for ever.
AskWaits ==
    /\ loop = "ask" /\ GivesUp
    /\ loop' = "report"
    /\ UNCHANGED <<mqtt, cloud, reportTimer, regVars>>

AskTimeout ==
    /\ loop = "ask" /\ GivesUp
    /\ Retry
    /\ loop' = "report"
    /\ UNCHANGED <<mqtt, cloud, reportTimer, requestId, responseReady, pending, stored,
                   expired, used, crossed>>

NothingToAsk ==
    /\ loop = "ask" /\ ~MayAsk /\ ~GivesUp
    /\ loop' = "report"
    /\ UNCHANGED <<mqtt, cloud, reportTimer, regVars>>

Register == Ask \/ AskTimeout \/ NothingToAsk

-----------------------------------------------------------------------------
InitUnderWay ==
    responseReady \/ mqtt = "flag" \/ Applying \/ \E id \in 1..Ids : <<"init", id>> \in answers

\* The clock passes the time of the next attempt, or the deadline of an answer,
\* which is lost, or late; once two answers have crossed no more of them are late, a
\* bound.
RegTimerElapses ==
    /\ regState \in {"NeedRegister", "Waiting"} /\ ~regDue
    /\ regDue' = TRUE
    /\ Lost("init") \/ (~crossed /\ UNCHANGED cloud)
    /\ UNCHANGED <<loop, mqtt, reportTimer, regState, requestId, responseReady, pending,
                   stored, expired, used, crossed>>

\* A token is valid for two hours.
TokenExpires ==
    /\ stored # 0 /\ ~expired
    /\ expired' = TRUE
    /\ UNCHANGED <<linkVars, regState, requestId, regDue, responseReady, pending,
                   stored, used, crossed>>

\* The process is gone.
RegistrationGone ==
    /\ regState' = "Disabled"
    /\ requestId' = 0
    /\ regDue' = TRUE
    /\ responseReady' = FALSE
    /\ pending' = 0
    /\ used' = 0
    /\ crossed' = FALSE
    /\ UNCHANGED <<stored, expired>>

-----------------------------------------------------------------------------
\* Properties.

RegistrationTypeOK ==
    /\ regState \in {"Disabled", "NeedRegister", "Waiting", "Registered"}
    /\ requestId \in 0..Ids /\ pending \in 0..Ids /\ stored \in 0..Ids
    /\ used \in 0..CommandLine
    /\ regDue \in BOOLEAN /\ responseReady \in BOOLEAN /\ expired \in BOOLEAN
    /\ crossed \in BOOLEAN

\* A device that counts as registered connects with the credentials it would have
\* after a restart (registration.h:10, a restart needs no new registration),
\* whatever step of applying an answer failed, whenever the process crashed and
\* however late answers come, but between the save and the connect, and after a
\* second answer was parsed into reg.pending before the first had been applied.
CredentialsAgree ==
    regState = "Registered" /\ loop # "regUse" /\ ~crossed
        => used # 0 /\ used \in {stored, CommandLine}

\* A device that must register is registered at some time, over lost answers,
\* timeouts, refused requests and credentials that could not be applied.
Registers == regState = "NeedRegister" ~> Admitted
=============================================================================
