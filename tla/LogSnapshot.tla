---------------------------- MODULE LogSnapshot ----------------------------
(***************************************************************************)
(* Upload of log snapshots (log_snapshot.cpp).  A probe's connection       *)
(* thread stages a file as a directory of chunks with a meta.json, the     *)
(* main loop publishes a few chunks in each round, and the MQTT thread     *)
(* takes the cloud's requests for chunks it misses (NACK).                 *)
(*                                                                         *)
(* A transfer is a number: its place in the order of the directory names,  *)
(* which are random.  The text of chunks and messages is left out.         *)
(***************************************************************************)
EXTENDS NodeReports, SequencesExt

CONSTANTS
    Transfers,   \* directory names, by their order
    ChunksOf,    \* number of chunks of each transfer
    PerPump      \* kSnapshotChunksPerPump

ASSUME SnapshotAssumption ==
    /\ Transfers \subseteq Nat /\ IsFiniteSet(Transfers)
    /\ ChunksOf \in [Transfers -> Nat \ {0}]
    /\ PerPump \in Nat \ {0}

VARIABLES
    place,      \* where each transfer's directory is; "staging" and "orphan" have no meta.json
    meta,       \* meta.json of each transfer: meta_sent and next_chunks
    tooOld,     \* transfers staged more than 24 h ago
    queue,      \* the directories pump() has yet to look at
    work,       \* pump's meta
    inPump,     \* chunks pump has published of the transfer it is in
    nack,       \* what onNack is about to write, in a sequence of at most one
    nacks,      \* number of NACKs so far
    owed,       \* history: chunks of the last list that the library has yet to be given
    clashed     \* history: transfers that onNack wrote while pump was in them

disk     == <<place, meta, tooOld>>
pumpVars == <<queue, work, inPump>>
nackVars == <<nack, nacks>>
history  == <<owed, clashed>>
snapVars == <<disk, pumpVars, nackVars, history>>

\* The numbers of a finite set in their order.
Ascending(S) ==
    CHOOSE s \in [1..Cardinality(S) -> S] : \A i, j \in DOMAIN s : i < j => s[i] < s[j]

ChunksIn(t) == 1..ChunksOf[t]
Fresh(t)    == [metaSent |-> FALSE, next |-> [i \in ChunksIn(t) |-> i]]
NoWork      == [metaSent |-> FALSE, next |-> <<>>]

InitSnapshots ==
    /\ place = [t \in Transfers |-> "none"]
    /\ meta = [t \in Transfers |-> Fresh(t)]
    /\ tooOld = {}
    /\ queue = <<>>
    /\ work = NoWork
    /\ inPump = 0
    /\ nack = <<>>
    /\ nacks = 0
    /\ owed = [t \in Transfers |-> {}]
    /\ clashed = {}

-----------------------------------------------------------------------------
\* stageUpload: the directory and its chunks, and meta.json at last.

Moves(t, from, to) == place[t] = from /\ place' = [place EXCEPT ![t] = to]

StageChunks(t) ==
    /\ loop # "down"
    /\ Moves(t, "none", "staging")
    /\ UNCHANGED <<meta, tooOld, history>>

StageMeta(t) ==
    /\ Moves(t, "staging", "pending")
    /\ meta' = [meta EXCEPT ![t] = Fresh(t)]
    /\ owed' = [owed EXCEPT ![t] = ChunksIn(t)]
    /\ UNCHANGED <<tooOld, clashed>>

\* A chunk or meta.json cannot be written: the directory stays.
StageFails(t) ==
    /\ Moves(t, "staging", "orphan")
    /\ UNCHANGED <<meta, tooOld, history>>

\* The transfer's 24 hours are over.
GrowOld(t) ==
    /\ place[t] \in {"pending", "done"} /\ t \notin tooOld
    /\ tooOld' = tooOld \cup {t}
    /\ UNCHANGED <<place, meta, history>>

Stage(t) == StageChunks(t) \/ StageMeta(t) \/ StageFails(t) \/ GrowOld(t)

-----------------------------------------------------------------------------
\* pump.  Returned ends it, whatever is left in the queue.

Quiet == UNCHANGED <<mqtt, cloud, reportTimer, tooOld, nackVars>>

Returned ==
    /\ loop' = "cert"
    /\ queue' = <<>> /\ work' = NoWork /\ inPump' = 0

Now == Head(queue)
Saved(m) == meta' = [meta EXCEPT ![Now] = m]

ListPending ==
    /\ loop = "pump"
    /\ queue' = Ascending({t \in Transfers : place[t] \in {"staging", "orphan", "pending"}})
    /\ loop' = "pumpNext"
    /\ Quiet /\ UNCHANGED <<place, meta, work, inPump, history>>

NonePending ==
    /\ loop = "pumpNext" /\ queue = <<>>
    /\ Returned
    /\ Quiet /\ UNCHANGED <<place, meta, history>>

\* Mutant of SkipUnreadable: a directory without meta.json ends the pump.
StopAtUnreadable ==
    /\ loop = "pumpNext" /\ queue # <<>> /\ place[Now] \in {"staging", "orphan"}
    /\ Returned
    /\ Quiet /\ UNCHANGED <<place, meta, history>>

SkipUnreadable ==
    /\ loop = "pumpNext" /\ queue # <<>> /\ place[Now] \in {"staging", "orphan"}
    /\ queue' = Tail(queue)
    /\ Quiet /\ UNCHANGED <<loop, place, meta, work, inPump, history>>

Expire ==
    /\ loop = "pumpNext" /\ queue # <<>> /\ Now \in tooOld
    /\ Moves(Now, "pending", "expired")
    /\ queue' = Tail(queue)
    /\ Quiet /\ UNCHANGED <<loop, meta, work, inPump, history>>

ReadMeta ==
    /\ loop = "pumpNext" /\ queue # <<>>
    /\ place[Now] = "pending" /\ Now \notin tooOld
    /\ work' = meta[Now]
    /\ inPump' = 0
    /\ loop' = IF work'.metaSent THEN "pumpChunk" ELSE "pumpMeta"
    /\ Quiet /\ UNCHANGED <<place, meta, queue, history>>

PublishMeta ==
    /\ loop = "pumpMeta"
    /\ work' = [work EXCEPT !.metaSent = TRUE]
    /\ loop' = "pumpSave"
    /\ Quiet /\ UNCHANGED <<place, meta, queue, inPump, history>>

SaveMetaSent ==
    /\ loop = "pumpSave"
    /\ Saved(work)
    /\ loop' = "pumpChunk"
    /\ Quiet /\ UNCHANGED <<place, pumpVars, history>>

MoreChunks == work.next # <<>> /\ inPump < PerPump

PublishChunk ==
    /\ loop = "pumpChunk" /\ MoreChunks
    /\ owed' = [owed EXCEPT ![Now] = @ \ {Head(work.next)}]
    /\ work' = [work EXCEPT !.next = Tail(@)]
    /\ inPump' = inPump + 1
    /\ Quiet /\ UNCHANGED <<loop, place, meta, queue, clashed>>

\* Mutant of PublishRefused: the chunk leaves the list before it is published.
RefusedLeavesList ==
    /\ loop = "pumpMeta" \/ (loop = "pumpChunk" /\ MoreChunks)
    /\ Saved(IF loop = "pumpMeta" THEN work ELSE [work EXCEPT !.next = Tail(@)])
    /\ Returned
    /\ Quiet /\ UNCHANGED <<place, history>>

\* Whether meta.json could be saved is not looked at.
PublishRefused ==
    /\ loop = "pumpMeta" \/ (loop = "pumpChunk" /\ MoreChunks)
    /\ Saved(work) \/ UNCHANGED meta
    /\ Returned
    /\ Quiet /\ UNCHANGED <<place, history>>

\* The file of the next chunk cannot be opened: what was published since meta.json
\* was saved will be published again.
ChunkUnreadable ==
    /\ loop = "pumpChunk" /\ MoreChunks
    /\ Returned
    /\ Quiet /\ UNCHANGED <<place, meta, history>>

Finished ==
    /\ loop = "pumpChunk" /\ work.next = <<>>
    /\ IF inPump >= PerPump THEN Returned
       ELSE loop' = "pumpNext" /\ queue' = Tail(queue) /\ work' = NoWork /\ inPump' = 0
    /\ Quiet /\ UNCHANGED <<meta, history>>

AllSent == Finished /\ Moves(Now, "pending", "done")

\* A directory cannot be renamed, which is not looked at: it is published again.
MoveFails ==
    \/ Finished /\ UNCHANGED place
    \/ /\ loop = "pumpNext" /\ queue # <<>> /\ place[Now] = "pending" /\ Now \in tooOld
       /\ queue' = Tail(queue)
       /\ Quiet /\ UNCHANGED <<loop, place, meta, work, inPump, history>>

EnoughSent ==
    /\ loop = "pumpChunk" /\ work.next # <<>> /\ inPump >= PerPump
    /\ Saved(work)
    /\ Returned
    /\ Quiet /\ UNCHANGED <<place, history>>

\* meta.json cannot be written.
SaveMetaFails ==
    /\ loop = "pumpSave" \/ (loop = "pumpChunk" /\ work.next # <<>> /\ inPump >= PerPump)
    /\ Returned
    /\ Quiet /\ UNCHANGED <<place, meta, history>>

Pump ==
    \/ ListPending \/ NonePending \/ SkipUnreadable \/ Expire \/ ReadMeta
    \/ PublishMeta \/ SaveMetaSent \/ PublishChunk \/ AllSent \/ EnoughSent

PumpFails == PublishRefused \/ SaveMetaFails \/ ChunkUnreadable \/ MoveFails

-----------------------------------------------------------------------------
\* onNack, in two steps: meta.json is read, and written.

InTransfer(t) ==
    loop \in {"pumpMeta", "pumpSave", "pumpChunk"} /\ Now = t

\* A request names any chunks; none stands for one that is malformed.  A transfer
\* that was done is moved back before the request is looked at, and also when it is
\* too old to be served.
NackOpen(t, missing) ==
    /\ mqtt = "idle"
    /\ place[t] \in {"pending", "done"}
    /\ place' = [place EXCEPT ![t] = "pending"]
    /\ nacks' = nacks + 1
    /\ IF missing = {} \/ t \in tooOld THEN UNCHANGED <<mqtt, nack>>
       ELSE /\ nack' = <<[of |-> t, missing |-> missing, metaSent |-> meta[t].metaSent]>>
            /\ mqtt' = "nack"
    /\ UNCHANGED <<loop, cloud, reportTimer, meta, tooOld, pumpVars, history>>

\* The list of chunks is replaced.  The write fails when the pump has moved the
\* directory, or for a reason of its own.
NackSave ==
    /\ mqtt = "nack"
    /\ LET n == nack[1] IN
        \/ /\ place[n.of] = "pending"
           /\ meta' = [meta EXCEPT ![n.of] = [metaSent |-> n.metaSent,
                                                    next |-> Ascending(n.missing)]]
           /\ owed' = [owed EXCEPT ![n.of] = n.missing]
           /\ clashed' = IF InTransfer(n.of) THEN clashed \cup {n.of} ELSE clashed \ {n.of}
        \/ UNCHANGED <<meta, history>>
    /\ nack' = <<>>
    /\ mqtt' = "idle"
    /\ UNCHANGED <<loop, cloud, reportTimer, place, tooOld, pumpVars, nacks>>

-----------------------------------------------------------------------------
\* The process is gone.
SnapshotsGone ==
    /\ place' = [t \in Transfers |-> IF place[t] = "staging" THEN "orphan" ELSE place[t]]
    /\ queue' = <<>> /\ work' = NoWork /\ inPump' = 0
    /\ nack' = <<>>
    /\ UNCHANGED <<meta, tooOld, nacks, history>>

-----------------------------------------------------------------------------
\* Properties.

SnapshotsTypeOK ==
    LET IsMeta(m, t) == m.metaSent \in BOOLEAN /\ ToSet(m.next) \subseteq ChunksIn(t) IN
    /\ place \in [Transfers -> {"none", "staging", "orphan", "pending", "done", "expired"}]
    /\ \A t \in Transfers : IsMeta(meta[t], t) /\ owed[t] \subseteq ChunksIn(t)
    /\ work = NoWork \/ IsMeta(work, Now)
    /\ inPump \in 0..PerPump
    /\ ToSet(queue) \subseteq Transfers /\ clashed \subseteq Transfers
    /\ Len(nack) <= 1 /\ (mqtt = "nack" <=> nack # <<>>)

\* A transfer that has moved to done/ owes the cloud nothing: every chunk of its
\* last list, the one it was staged with or the one the cloud asked for again, was
\* given to the MQTT library, over refused publishes, failed writes and renames and
\* crashes anywhere, and wherever the main loop and onNack (log_snapshot.cpp:416)
\* meet; but for a list that was written while pump was in its very transfer.
NothingOwedIsDone ==
    \A t \in Transfers \ clashed : place[t] = "done" => owed[t] = {}

\* Every staged snapshot is uploaded or expires, behind directories of uploads
\* that were never finished and other snapshots.
SnapshotEnds ==
    \A t \in Transfers : place[t] = "pending" ~> place[t] \in {"done", "expired"}
=============================================================================
