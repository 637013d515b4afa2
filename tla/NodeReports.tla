---------------------------- MODULE NodeReports ----------------------------
(***************************************************************************)
(* The probes' connections (socket_server.cpp), the status of the node     *)
(* that the main loop reports, and the events about rejected bundles       *)
(* (main.cpp).  One thread serves each connection: it counts it, stores    *)
(* the count, asks for a report, and does the same when the probe leaves.  *)
(***************************************************************************)
EXTENDS CertRenewal

CONSTANTS
    Probes,     \* connections
    MaxEvents   \* bound on rejected bundles

ASSUME ReportsAssumption == IsFiniteSet(Probes) /\ MaxEvents \in Nat

VARIABLES
    conn,        \* where the thread of each connection is
    counted,     \* the count it has got and passes to the callback
    peerCount,   \* m_peer_count
    peers,       \* the count the main loop reads
    reportNow,   \* g_report_now
    reading,     \* the count the main loop has put into a report
    reported,    \* the count in the last report the library took, None at first
    pendingEvents,  \* pending_events
    event,       \* the event the main loop has taken out of it
    rejected,    \* history: bundles rejected so far
    sent         \* history: events the library took

socketVars == <<conn, counted, peerCount, peers>>
reportVars == <<reportNow, reading, reported>>
eventVars  == <<pendingEvents, event, rejected, sent>>
nodeVars   == <<socketVars, reportVars, eventVars>>

InitReports ==
    /\ conn = [c \in Probes |-> "off"]
    /\ counted = [c \in Probes |-> 0]
    /\ peerCount = 0
    /\ peers = 0
    /\ reportNow = FALSE
    /\ reading = 0
    /\ reported = None
    /\ pendingEvents = <<>>
    /\ event = <<>>
    /\ rejected = 0
    /\ sent = <<>>

-----------------------------------------------------------------------------
\* The threads of the connections.

Thread(c, from, to) == conn[c] = from /\ conn' = [conn EXCEPT ![c] = to]

Count(c, n) ==
    /\ peerCount' = peerCount + n
    /\ counted' = [counted EXCEPT ![c] = peerCount']
    /\ UNCHANGED <<peers, reportVars>>

\* A probe connects.
CountUp(c) == loop # "down" /\ Thread(c, "off", "store") /\ Count(c, 1)

\* Mutant of CountDown: a connection that has gone is still counted.
StaysCounted(c) == Thread(c, "up", "restore") /\ Count(c, 0)

\* A connection has gone, and its count with it.
CountDown(c) == Thread(c, "up", "restore") /\ Count(c, -1)

\* The callback: the count is stored, then a report is asked for.
StorePeers(c) ==
    /\ Thread(c, "store", "flag") \/ Thread(c, "restore", "reflag")
    /\ peers' = counted[c]
    /\ counted' = [counted EXCEPT ![c] = 0]
    /\ UNCHANGED <<peerCount, reportVars>>

AskReport(c) ==
    /\ Thread(c, "flag", "up") \/ Thread(c, "reflag", "off")
    /\ reportNow' = TRUE
    /\ UNCHANGED <<counted, peerCount, peers, reading, reported>>

\* Mutant of PeerChange: the report is asked for before the count is stored.
AskThenStore(c) ==
    \/ CountUp(c) \/ CountDown(c)
    \/ /\ Thread(c, "store", "flag") \/ Thread(c, "restore", "reflag")
       /\ reportNow' = TRUE
       /\ UNCHANGED <<counted, peerCount, peers, reading, reported>>
    \/ /\ Thread(c, "flag", "up") \/ Thread(c, "reflag", "off")
       /\ peers' = counted[c]
       /\ counted' = [counted EXCEPT ![c] = 0]
       /\ UNCHANGED <<peerCount, reportVars>>

PeerChange(c) == CountUp(c) \/ CountDown(c) \/ StorePeers(c) \/ AskReport(c)

-----------------------------------------------------------------------------
\* The main loop's report.  When the timer has run out the request is not looked
\* at, and stays for the next round.

MayReport == connected /\ Admitted /\ (reportTimer = "now" \/ reportNow)

TakeReport ==
    /\ loop = "report" /\ MayReport
    /\ reportNow' = (reportNow /\ reportTimer = "now")
    /\ loop' = "readPeers"
    /\ UNCHANGED <<mqtt, cloud, reportTimer, socketVars, reading, reported, eventVars>>

NoReport ==
    /\ loop = "report" /\ ~MayReport
    /\ loop' = "events"
    /\ UNCHANGED <<mqtt, cloud, reportTimer, nodeVars>>

ReadPeers ==
    /\ loop = "readPeers"
    /\ reading' = peers
    /\ loop' = "sendReport"
    /\ UNCHANGED <<mqtt, cloud, reportTimer, socketVars, reportNow, reported, eventVars>>

SendReport ==
    /\ loop = "sendReport"
    /\ reported' = reading
    /\ reading' = 0
    /\ reportTimer' = "late"
    /\ loop' = "events"
    /\ UNCHANGED <<mqtt, cloud, socketVars, reportNow, eventVars>>

SendReportFails ==
    /\ loop = "sendReport"
    /\ reading' = 0
    /\ reportTimer' = "soon"
    /\ loop' = "events"
    /\ UNCHANGED <<mqtt, cloud, socketVars, reportNow, reported, eventVars>>

-----------------------------------------------------------------------------
\* Events: the MQTT thread pushes them, the main loop sends one in a round.

PushEvent ==
    /\ mqtt = "idle" /\ rejected < MaxEvents
    /\ rejected' = rejected + 1
    /\ pendingEvents' = Append(pendingEvents, rejected')
    /\ UNCHANGED <<socketVars, reportVars, event, sent>>

TakeEvent ==
    /\ loop = "events" /\ connected /\ pendingEvents # <<>>
    /\ event' = <<Head(pendingEvents)>>
    /\ pendingEvents' = Tail(pendingEvents)
    /\ loop' = "sendEvent"
    /\ UNCHANGED <<mqtt, cloud, reportTimer, socketVars, reportVars, rejected, sent>>

NoEvent ==
    /\ loop = "events" /\ (~connected \/ pendingEvents = <<>>)
    /\ loop' = "pump"
    /\ UNCHANGED <<mqtt, cloud, reportTimer, nodeVars>>

SendEvent ==
    /\ loop = "sendEvent"
    /\ sent' = sent \o event
    /\ event' = <<>>
    /\ loop' = "pump"
    /\ UNCHANGED <<mqtt, cloud, reportTimer, socketVars, reportVars, pendingEvents, rejected>>

\* Mutant of SendEventFails: the event goes to the end of the queue.
SendEventLater ==
    /\ loop = "sendEvent"
    /\ pendingEvents' = pendingEvents \o event
    /\ event' = <<>>
    /\ loop' = "pump"
    /\ UNCHANGED <<mqtt, cloud, reportTimer, socketVars, reportVars, rejected, sent>>

SendEventFails ==
    /\ loop = "sendEvent"
    /\ pendingEvents' = event \o pendingEvents
    /\ event' = <<>>
    /\ loop' = "pump"
    /\ UNCHANGED <<mqtt, cloud, reportTimer, socketVars, reportVars, rejected, sent>>

Report ==
    \/ TakeReport \/ NoReport \/ ReadPeers \/ SendReport
    \/ TakeEvent \/ NoEvent \/ SendEvent

ReportFails == SendReportFails \/ SendEventFails

\* The process is gone, with everything but what the cloud has.
ReportsGone ==
    /\ conn' = [c \in Probes |-> "off"]
    /\ counted' = [c \in Probes |-> 0]
    /\ peerCount' = 0
    /\ peers' = 0
    /\ reportNow' = FALSE
    /\ reading' = 0
    /\ pendingEvents' = <<>>
    /\ event' = <<>>
    /\ rejected' = 0
    /\ sent' = <<>>
    /\ UNCHANGED reported

-----------------------------------------------------------------------------
\* Properties.

ReportsTypeOK ==
    LET Places == {"off", "store", "flag", "up", "restore", "reflag"} IN
    /\ conn \in [Probes -> Places]
    /\ peerCount = Cardinality({c \in Probes : conn[c] \in {"store", "flag", "up"}})
    /\ \A n \in {peers, reading, reported} : n \in 0..Cardinality(Probes) \cup {None}
    /\ reportNow \in BOOLEAN

\* The report's status is either up to date, or on the way: a probe that came or
\* left while a report was made, or whose report failed, is reported with the
\* next round or within ten seconds, and not only by the timer of five minutes.
ChangeNotForgotten ==
    \/ reported = peers
    \/ reportNow \/ reportTimer \in {"now", "soon"}
    \/ \E c \in Probes : conn[c] \in {"flag", "reflag"}
    \/ loop = "readPeers"
    \/ loop = "sendReport" /\ reading = peers

\* Events reach the library in the order in which bundles were rejected, each
\* once, although refused ones go back into a queue that another thread fills.
EventsInOrder == sent \o event \o pendingEvents = [i \in 1..rejected |-> i]
=============================================================================
