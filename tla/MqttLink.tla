------------------------------ MODULE MqttLink ------------------------------
(***************************************************************************)
(* What the parts of idsm_managerd's main loop share: where the loop is    *)
(* (main.cpp), the thread of the MQTT library and its connection           *)
(* (mqtt_uploader.cpp), the answers of the cloud that are on their way,    *)
(* and the timer of the next report.                                       *)
(*                                                                         *)
(* Time is abstract: a timer runs until the clock has passed it, which may *)
(* happen at any moment.                                                   *)
(***************************************************************************)
EXTENDS Integers, Sequences, FiniteSets

CONSTANTS
    Ids          \* number of different request ids; they are used in turn

ASSUME LinkAssumption == Ids \in Nat \ {0}

VARIABLES
    loop,          \* the section the main loop is in; "down" when there is no process
    mqtt,          \* where the callback of the MQTT thread is
    connected,     \* m_connected
    answers,       \* answers that will be delivered, <<topic, request id>>
    reportTimer    \* next_report_ms: "now" is passed, "soon" within 10 s, "late"

cloud    == <<connected, answers>>
linkVars == <<loop, mqtt, cloud, reportTimer>>

NextId(id) == (id % Ids) + 1

InitLink ==
    /\ loop = "down"
    /\ mqtt = "idle"
    /\ connected = FALSE
    /\ answers = {}
    /\ reportTimer = "now"

\* on_connect with a result that says so; a broker refuses a token that has expired.
Connect(refused) ==
    /\ loop # "down" /\ ~connected /\ ~refused
    /\ connected' = TRUE
    /\ UNCHANGED <<loop, mqtt, answers, reportTimer>>

\* on_disconnect: the broker forgets the subscriptions to the answers (clean
\* session).
Drop ==
    /\ connected
    /\ connected' = FALSE
    /\ answers' = {}
    /\ UNCHANGED <<loop, mqtt, reportTimer>>

\* mosquitto_reconnect_async, when there is a connection; whether the library
\* reports the disconnection in between is left open.
Cycle ==
    IF connected
    THEN connected' \in BOOLEAN /\ answers' = {}
    ELSE UNCHANGED cloud

\* A request was published, and its answer will come, or get lost.
Requested(topic, id) ==
    /\ answers' = answers \cup {<<topic, id>>}
    /\ UNCHANGED connected

\* The answers that are on their way get lost.
Lost(topic) ==
    /\ answers' = {a \in answers : a[1] # topic}
    /\ UNCHANGED connected

Delivered(topic, id) ==
    /\ mqtt = "idle" /\ <<topic, id>> \in answers
    /\ answers' = answers \ {<<topic, id>>}
    /\ UNCHANGED connected

\* The clock passes the time of the next report.
ReportTimerElapses ==
    /\ loop # "down" /\ reportTimer # "now"
    /\ reportTimer' = "now"
    /\ UNCHANGED <<loop, mqtt, cloud>>

LinkGone ==
    /\ loop' = "down"
    /\ mqtt' = "idle"
    /\ connected' = FALSE
    /\ reportTimer' = "now"
    /\ answers' = {}

LinkTypeOK ==
    /\ mqtt \in {"idle", "flag", "nack"}
    /\ connected \in BOOLEAN
    /\ answers \subseteq {"init", "cert"} \X (1..Ids)
    /\ reportTimer \in {"now", "soon", "late"}
=============================================================================
