------------------------------ MODULE CanProbe ------------------------------
(***************************************************************************)
(* The CAN probe (apps/can_probe): SocketCAN capture or the replay of a    *)
(* pcap file, and the detectors that each frame is fed to (pipeline.cpp,   *)
(* detectors.cpp).                                                         *)
(*                                                                         *)
(* A frame is what parse_can_frame makes of a record: its ID, its flags,   *)
(* whether its length code is legal, and the service a UDS request asks    *)
(* for: "seed" and "key" are the two sides of SecurityAccess, "" is a      *)
(* frame without payload.                                                  *)
(***************************************************************************)
EXTENDS ProbeMain, DetectorWindows

CONSTANTS
    CanIds,          \* the IDs of the frames
    DiagRequests,    \* those among them of diagnostic requests
    DiagResponses,   \* and of their responses
    Whitelist,       \* the IDs of the file --ids, none when there is no file
    MinIntervals,    \* the least interval of those that have one in the file
    CanWindow,       \* the width of the windows
    CycleCooldown    \* how long an ID is muted after an alert about its cycle

ASSUME CanAssumption ==
    /\ DiagRequests \subseteq CanIds /\ DiagResponses \subseteq CanIds
    /\ DOMAIN MinIntervals \subseteq Whitelist
    /\ CanWindow \in Nat \ {0} /\ CycleCooldown \in Nat

VARIABLE can    \* the state of the detectors

\* The security events of the detectors, in the order of their numbers.
CanSevs == <<"unknownId", "idFlood", "busFlood", "errBurst", "dlc", "remote",
             "secAccess", "svcScan", "diagFlood", "cycle">>

\* The kinds of alerts that have a limit.
CanKinds == {"errBurst", "idFlood", "busFlood", "diagFlood", "seedFlood", "keyGuess", "svcScan"}

SecAccess == [start |-> 0, seeds |-> 0, keys |-> 0,
              seed_alerted |-> FALSE, key_alerted |-> FALSE]

InitCan ==
    can = [cycle |-> [i \in DOMAIN MinIntervals |-> [seen |-> FALSE, last |-> 0, muted |-> 0]],
           ids   |-> [i \in CanIds |-> Counter(0)],
           bus   |-> Counter(0),
           errs  |-> Counter(0),
           diag  |-> [i \in DiagRequests |-> Counter(0)],
           sec   |-> [i \in DiagRequests |-> SecAccess],
           scan  |-> [i \in DiagRequests |-> Distinct(0)]]

-----------------------------------------------------------------------------
\* The detectors: what each keeps of a frame.

CanLimit(kind) == scenario.limits[kind]

CountedBy(w, at, kind) == Counted(Opened(w, Counter(0), at, CanWindow), CanLimit(kind))
RaisedBy(w, at, kind) ==
    Raised(Opened(w, Counter(0), at, CanWindow), CountedBy(w, at, kind))

\* UnknownIdDetector, which the diagnostics addresses never come to.
Unknown(f) ==
    /\ Whitelist # {} /\ f.id \notin Whitelist
    /\ f.id \notin DiagRequests \cup DiagResponses

\* CycleAnomalyDetector.
TooSoon(f, at) ==
    /\ f.id \in DOMAIN MinIntervals
    /\ LET st == can.cycle[f.id] IN
        st.seen /\ at >= st.last /\ at - st.last < MinIntervals[f.id] /\ at >= st.muted

CycleAfter(f, at) ==
    [i \in DOMAIN can.cycle |->
        IF i # f.id THEN can.cycle[i]
        ELSE [seen |-> TRUE, last |-> at,
              muted |-> IF TooSoon(f, at) THEN at + CycleCooldown ELSE can.cycle[i].muted]]

\* UdsSecAccessDetector.
OpenSec(f, at) == Opened(can.sec[f.id], SecAccess, at, CanWindow)

SecAfter(f, at) ==
    LET open == OpenSec(f, at) IN
    CASE f.uds = "seed" -> [open EXCEPT !.seeds = @ + 1,
            !.seed_alerted = @ \/ open.seeds + 1 >= CanLimit("seedFlood")]
      [] f.uds = "key"  -> [open EXCEPT !.keys = @ + 1,
            !.key_alerted = @ \/ open.keys + 1 >= CanLimit("keyGuess")]
      [] OTHER          -> can.sec[f.id]

SeedsRaised(f, at) ==
    f.uds = "seed" /\ SecAfter(f, at).seed_alerted /\ ~OpenSec(f, at).seed_alerted
KeysRaised(f, at) ==
    f.uds = "key" /\ SecAfter(f, at).key_alerted /\ ~OpenSec(f, at).key_alerted

\* UdsSvcScanDetector.  The two sides of SecurityAccess are one service.
Service(f) == IF f.uds \in {"seed", "key"} THEN "security" ELSE f.uds

OpenScan(f, at) == Opened(can.scan[f.id], Distinct(0), at, CanWindow)

ScanAfter(f, at) ==
    IF f.uds = "" THEN can.scan[f.id]
    ELSE Added(OpenScan(f, at), Service(f), CanLimit("svcScan"))

ScanRaised(f, at) == f.uds # "" /\ Raised(OpenScan(f, at), ScanAfter(f, at))

-----------------------------------------------------------------------------
\* The pipeline, one frame.

FeedError(f, at) ==
    /\ f.err
    /\ can' = [can EXCEPT !.errs = CountedBy(@, at, "errBurst")]
    /\ Report(When(RaisedBy(can.errs, at, "errBurst"), "errBurst", "errBurst", "bus"), at)

FeedRemote(f, at) ==
    /\ ~f.err /\ f.rtr
    /\ Report(When(TRUE, "remote", "remote", f.id), at)
    /\ UNCHANGED can

FeedRequest(f, at) ==
    /\ can' = [can EXCEPT
            !.cycle = CycleAfter(f, at),
            !.ids[f.id] = CountedBy(@, at, "idFlood"),
            !.bus = CountedBy(@, at, "busFlood"),
            !.diag[f.id] = CountedBy(@, at, "diagFlood"),
            !.sec[f.id] = SecAfter(f, at),
            !.scan[f.id] = ScanAfter(f, at)]

FeedOther(f, at) ==
    /\ can' = [can EXCEPT
            !.cycle = CycleAfter(f, at),
            !.ids[f.id] = CountedBy(@, at, "idFlood"),
            !.bus = CountedBy(@, at, "busFlood")]

FeedData(f, at) ==
    /\ ~f.err /\ ~f.rtr
    /\ IF f.id \in DiagRequests THEN FeedRequest(f, at) ELSE FeedOther(f, at)
    /\ Report( When(~f.legal, "dlc", "dlc", f.id)
            \o When(Unknown(f), "unknownId", "unknownId", f.id)
            \o When(TooSoon(f, at), "cycle", "cycle", f.id)
            \o When(RaisedBy(can.ids[f.id], at, "idFlood"), "idFlood", "idFlood", f.id)
            \o When(RaisedBy(can.bus, at, "busFlood"), "busFlood", "busFlood", "bus")
            \o (IF f.id \notin DiagRequests THEN <<>> ELSE
                  When(RaisedBy(can.diag[f.id], at, "diagFlood"), "diagFlood", "diagFlood", f.id)
               \o When(SeedsRaised(f, at), "secAccess", "seedFlood", f.id)
               \o When(KeysRaised(f, at), "secAccess", "keyGuess", f.id)
               \o When(ScanRaised(f, at), "svcScan", "svcScan", f.id)),
            at)

\* A record that is no SocketCAN frame is skipped before it gets here.
FeedFrame ==
    \E f \in scenario.inputs, at \in TimeStamps :
        /\ Capture(f, at)
        /\ FeedError(f, at) \/ FeedRemote(f, at) \/ FeedData(f, at)

-----------------------------------------------------------------------------
\* Which frames each alert is about, and the thing that its limit counts, told
\* without windows.
CanCounts(kind, f) ==
    LET data == ~f.err /\ ~f.rtr
        request == data /\ f.id \in DiagRequests
        once(cond, key) == IF cond THEN {key} ELSE {}
    IN  CASE kind = "errBurst"  -> once(f.err, "bus")
          [] kind = "idFlood"   -> once(data, f.id)
          [] kind = "busFlood"  -> once(data, "bus")
          [] kind = "diagFlood" -> once(request, f.id)
          [] kind = "seedFlood" -> once(request /\ f.uds = "seed", f.id)
          [] kind = "keyGuess"  -> once(request /\ f.uds = "key", f.id)
          [] kind = "svcScan"   -> once(request /\ f.uds # "", f.id)
          [] OTHER -> {}
=============================================================================
