----------------------------- MODULE FieldSync ------------------------------
(***************************************************************************)
(* Offline capture and its synchronisation.  A device keeps what it        *)
(* captured, an outbox and the bytes of its photos; drains of the outbox,  *)
(* of which one device may run several, post records and confirm photos;   *)
(* every request is one database transaction under READ COMMITTED; the     *)
(* dashboard aggregator recounts from the events the transactions leave.   *)
(*                                                                         *)
(* A site stands for a site assessment and its location, which go through  *)
(* the same upsert and the same batch.  A row is its version: 0 when there *)
(* is none, 1 as captured, more as edited by other clients of the API.     *)
(* It stands for updated_at and the content written at that time, so a     *)
(* record that comes with a stored version is the one stored, sent again,  *)
(* and classifyBlocked never finds a conflict.                             *)
(***************************************************************************)
EXTENDS Naturals, FiniteSets

CONSTANTS
  Devices,
  Drains,           \* concurrent runs of drainOutbox, on any device
  Slots,            \* requests the server has in progress at a time
  Sites, Photos,
  SiteOf,           \* SiteOf[p]: the site a photo will be taken at
  Nobody,
  Cap,              \* 10: photos of one site
  Editable,         \* bound: the records other clients edit
  MaxVersion,       \* bound: versions of one record
  MaxFaults         \* bound: edits, failed requests, lost replies, closed tabs

Items == Sites \cup Photos

ASSUME ItemsAssumption == /\ Sites \cap Photos = {} /\ IsFiniteSet(Photos)
                          /\ SiteOf \in [Photos -> Sites]
ASSUME BoundAssumption == /\ {Cap, MaxVersion, MaxFaults} \subseteq Nat /\ MaxVersion > 0
                       /\ Editable \subseteq Items
ASSUME NobodyAssumption == Nobody \notin Items \cup Slots \cup Drains \cup Devices

VARIABLES
  taken,    \* taken[x]: the device that captured x
  outbox,   \* outbox[d]: items with an outbox entry
  blobs,    \* blobs[d]: photos whose bytes the device still has
  known,    \* known[d]: sites the device can take photos at
  objects,  \* photos whose bytes are in the bucket
  rows,     \* rows[x]: the committed version
  drain,    \* drain[n]: one run of drainOutbox
  tx,       \* tx[t]: the transaction of a request
  events,   \* photo.upserted events the aggregator has not processed
  stats,    \* stats[s]: the photos location_stats counts for the site
  agg,      \* the aggregator
  faults    \* how many edits and faults happened

deviceVars == <<taken, outbox, blobs, known>>
aggVars    == <<stats, agg>>
vars == <<deviceVars, objects, rows, drain, tx, events, aggVars, faults>>

Resting == [pc |-> "idle", dev |-> Nobody, todo |-> {}, photo |-> Nobody, slot |-> Nobody, result |-> "none"]
Free    == [pc |-> "free", todo |-> {}, item |-> Nobody, version |-> 0, yields |-> FALSE,
            written |-> {}, applied |-> {}, result |-> "none"]
Unused  == [pc |-> "idle", event |-> Nobody, count |-> 0]

Init ==
  /\ taken = [x \in Items |-> Nobody]
  /\ outbox = [d \in Devices |-> {}] /\ blobs = [d \in Devices |-> {}] /\ known = [d \in Devices |-> {}]
  /\ objects = {} /\ rows = [x \in Items |-> 0]
  /\ drain = [n \in Drains |-> Resting] /\ tx = [t \in Slots |-> Free]
  /\ events = {} /\ stats = [s \in Sites |-> 0] /\ agg = Unused
  /\ faults = 0

-----------------------------------------------------------------------------
(* The device: one Dexie transaction per capture.                          *)

Capture(d, x) ==
  /\ taken[x] = Nobody
  /\ x \in Photos => SiteOf[x] \in known[d]
  /\ taken' = [taken EXCEPT ![x] = d]
  /\ outbox' = [outbox EXCEPT ![d] = @ \cup {x}]
  /\ blobs' = [blobs EXCEPT ![d] = @ \cup ({x} \cap Photos)]
  /\ known' = [known EXCEPT ![d] = @ \cup ({x} \cap Sites)]
  /\ UNCHANGED <<objects, rows, drain, tx, events, aggVars, faults>>

\* pullLocation mirrors the server's rows; the outbox and the bytes stay.
Pull(d) ==
  /\ known' = [known EXCEPT ![d] = @ \cup {s \in Sites : rows[s] > 0}]
  /\ known' # known
  /\ UNCHANGED <<taken, outbox, blobs, objects, rows, drain, tx, events, aggVars, faults>>

-----------------------------------------------------------------------------
(* A request: TxRunner.Sync.                                               *)

Begin(t, S, v) ==
  tx' = [tx EXCEPT ![t] = [Free EXCEPT !.pc = "next", !.todo = S, !.version = v]]

\* Another client of the API edits a record it has seen.
Edit(t, x) ==
  /\ tx[t].pc = "free" /\ rows[x] > 0 /\ rows[x] < MaxVersion /\ faults < MaxFaults
  /\ faults' = faults + 1
  /\ Begin(t, {x}, rows[x] + 1)
  /\ UNCHANGED <<deviceVars, objects, rows, drain, events, aggVars>>

PhotosAt(s) == {p \in Photos : SiteOf[p] = s /\ rows[p] > 0}

\* The source SELECT of UpsertPhoto, evaluated on the statement's snapshot; the
\* upserts of locations and sites have a VALUES list instead.
Yields(x) == x \in Photos => rows[x] > 0 \/ Cardinality(PhotosAt(SiteOf[x])) < Cap

\* The next record of the batch: locations and sites come before photos.
NextRecord(t, x) ==
  /\ tx[t].pc = "next" /\ x \in tx[t].todo
  /\ tx' = [tx EXCEPT ![t] = [@ EXCEPT !.pc = "write", !.todo = tx[t].todo \ {x}, !.item = x, !.yields = Yields(x)]]
  /\ UNCHANGED <<deviceVars, objects, rows, drain, events, aggVars, faults>>

\* A row another transaction has written and not committed makes the upsert wait.
Locked(t, x) == \E u \in Slots \ {t} : x \in tx[u].written

Missing(x) == x \in Photos /\ rows[SiteOf[x]] = 0

\* ON CONFLICT DO UPDATE ... WHERE the stored version is older.
Wins(t, x) == tx[t].version > rows[x]

\* On to the next record with this one's outcome.
Finish(t, writes, r) ==
  tx' = [tx EXCEPT ![t] = [@ EXCEPT
    !.pc = "next", !.item = Nobody, !.yields = FALSE, !.result = r,
    !.written = tx[t].written \cup (IF writes THEN {tx[t].item} ELSE {}),
    !.applied = tx[t].applied \cup (IF r = "applied" THEN {tx[t].item} ELSE {})]]

\* The rest of the statement; without its row the outcome needs a second query.
Upsert(t) ==
  LET x == tx[t].item
  IN /\ tx[t].pc = "write" /\ ~Locked(t, x)
     /\ ~(tx[t].yields /\ rows[x] = 0 /\ Missing(x))
     /\ IF tx[t].yields /\ Wins(t, x) THEN Finish(t, TRUE, "applied")
                                      ELSE tx' = [tx EXCEPT ![t].pc = "classify"]
     /\ UNCHANGED <<deviceVars, objects, rows, drain, events, aggVars, faults>>

\* applyPhoto and classifyBlocked: why nothing was written.
Outcome(t, x) ==
  CASE rows[x] = 0             -> "limit_exceeded"
    [] rows[x] > tx[t].version -> "ignored_stale"
    [] OTHER                   -> "applied"

Classify(t) ==
  /\ tx[t].pc = "classify"
  /\ Finish(t, FALSE, Outcome(t, tx[t].item))
  /\ UNCHANGED <<deviceVars, objects, rows, drain, events, aggVars, faults>>

\* The reply reaches the drain that still waits for it.
Reply(t, step, result) ==
  drain' = [n \in Drains |-> IF drain[n].slot = t
                             THEN [drain[n] EXCEPT !.pc = step, !.slot = Nobody, !.result = result]
                             ELSE drain[n]]

\* One event for each record reported as applied.
Published(t) == tx[t].applied

\* Rows and events commit together.
Commit(t) ==
  /\ tx[t].pc = "next" /\ tx[t].todo = {}
  /\ rows' = [x \in Items |-> IF x \in tx[t].written THEN tx[t].version ELSE rows[x]]
  /\ events' = events \cup (Published(t) \cap Photos)
  /\ tx' = [tx EXCEPT ![t] = Free]
  /\ Reply(t, "replied", tx[t].result)
  /\ UNCHANGED <<deviceVars, objects, aggVars, faults>>

\* Mutation: any answer counts as an outcome.
RollbackAnswered(t) == tx' = [tx EXCEPT ![t] = Free] /\ Reply(t, "replied", "none")

\* An answer other than 200 ends the drain; it starts again after the backoff.
Rollback(t) ==
  /\ tx' = [tx EXCEPT ![t] = Free]
  /\ drain' = [n \in Drains |-> IF drain[n].slot = t THEN Resting ELSE drain[n]]

\* The foreign key refuses a photo whose site has not arrived.
RefuseOrphan(t) ==
  LET x == tx[t].item
  IN /\ tx[t].pc = "write" /\ ~Locked(t, x) /\ tx[t].yields /\ rows[x] = 0 /\ Missing(x)
     /\ Rollback(t)
     /\ UNCHANGED <<deviceVars, objects, rows, events, aggVars, faults>>

\* A database error, or the process dies.
FailRequest(t) ==
  /\ tx[t].pc # "free" /\ faults < MaxFaults
  /\ faults' = faults + 1
  /\ Rollback(t)
  /\ UNCHANGED <<deviceVars, objects, rows, events, aggVars>>

-----------------------------------------------------------------------------
(* drainOutbox: records in one batch, then the photos one by one.          *)

\* A tick of startAutoSync, or an online event while one is still running.
StartDrain(n, d) ==
  /\ drain[n].pc = "idle"
  /\ drain' = [drain EXCEPT ![n] = [Resting EXCEPT
       !.dev = d, !.todo = outbox[d] \cap Sites,
       !.pc = IF outbox[d] \cap Sites = {} THEN "list" ELSE "records"]]
  /\ UNCHANGED <<deviceVars, objects, rows, tx, events, aggVars, faults>>

PostRecords(n, t) ==
  /\ drain[n].pc = "records" /\ tx[t].pc = "free"
  /\ Begin(t, drain[n].todo, 1)
  /\ drain' = [drain EXCEPT ![n] = [@ EXCEPT !.pc = "waiting", !.slot = t]]
  /\ UNCHANGED <<deviceVars, objects, rows, events, aggVars, faults>>

\* Any outcome is terminal: bulkDelete of the entries that were sent.
RecordsDone(n) ==
  /\ drain[n].pc = "replied" /\ drain[n].photo = Nobody
  /\ outbox' = [outbox EXCEPT ![drain[n].dev] = @ \ drain[n].todo]
  /\ drain' = [drain EXCEPT ![n] = [@ EXCEPT !.pc = "list", !.todo = {}, !.result = "none"]]
  /\ UNCHANGED <<taken, blobs, known, objects, rows, tx, events, aggVars, faults>>

ListPhotos(n) ==
  /\ drain[n].pc = "list"
  /\ LET queued == outbox[drain[n].dev] \cap Photos
     IN drain' = [drain EXCEPT ![n] = IF queued = {} THEN Resting
                                      ELSE [@ EXCEPT !.pc = "photos", !.todo = queued]]
  /\ UNCHANGED <<deviceVars, objects, rows, tx, events, aggVars, faults>>

\* The drain goes on with the photos it listed, or ends.
AfterPhoto(n, p) ==
  drain' = [drain EXCEPT ![n] = IF @.todo \subseteq {p} THEN Resting
                                ELSE [@ EXCEPT !.pc = "photos", !.todo = drain[n].todo \ {p}, !.photo = Nobody, !.result = "none"]]

\* Without bytes there is nothing left to upload: the entry is dropped.
DropEntry(n, p) ==
  /\ drain[n].pc = "photos" /\ p \in drain[n].todo /\ p \notin blobs[drain[n].dev]
  /\ outbox' = [outbox EXCEPT ![drain[n].dev] = @ \ {p}]
  /\ AfterPhoto(n, p)
  /\ UNCHANGED <<taken, blobs, known, objects, rows, tx, events, aggVars, faults>>

\* presign and PUT.
PutObject(n, p) ==
  /\ drain[n].pc = "photos" /\ p \in drain[n].todo /\ p \in blobs[drain[n].dev]
  /\ objects' = objects \cup {p}
  /\ drain' = [drain EXCEPT ![n] = [@ EXCEPT !.pc = "confirm", !.photo = p]]
  /\ UNCHANGED <<deviceVars, rows, tx, events, aggVars, faults>>

\* confirmHandler: the object is there, so its row goes through Sync.
Confirm(n, t) ==
  /\ drain[n].pc = "confirm" /\ drain[n].photo \in objects /\ tx[t].pc = "free"
  /\ Begin(t, {drain[n].photo}, 1)
  /\ drain' = [drain EXCEPT ![n] = [@ EXCEPT !.pc = "waiting", !.slot = t]]
  /\ UNCHANGED <<deviceVars, objects, rows, events, aggVars, faults>>

\* Mutation: the bytes go whatever the outcome was.
UploadedAnyway(result) == TRUE

Uploaded(result) == result = "applied"

\* photos.update and photoBlobs.delete, when the outcome was applied.
DeleteBlob(n) ==
  /\ drain[n].pc = "replied" /\ drain[n].photo # Nobody
  /\ blobs' = IF Uploaded(drain[n].result)
              THEN [blobs EXCEPT ![drain[n].dev] = @ \ {drain[n].photo}] ELSE blobs
  /\ drain' = [drain EXCEPT ![n] = [@ EXCEPT !.pc = "dequeue"]]
  /\ UNCHANGED <<taken, outbox, known, objects, rows, tx, events, aggVars, faults>>

Dequeue(n) ==
  /\ drain[n].pc = "dequeue"
  /\ outbox' = [outbox EXCEPT ![drain[n].dev] = @ \ {drain[n].photo}]
  /\ AfterPhoto(n, drain[n].photo)
  /\ UNCHANGED <<taken, blobs, known, objects, rows, tx, events, aggVars, faults>>

\* The network fails or the tab closes; a request on its way is still executed.
LoseDrain(n) ==
  /\ drain[n].pc # "idle" /\ faults < MaxFaults
  /\ faults' = faults + 1
  /\ drain' = [drain EXCEPT ![n] = Resting]
  /\ UNCHANGED <<deviceVars, objects, rows, tx, events, aggVars>>

-----------------------------------------------------------------------------
(* dashboardaggregator.Handle, one consumer polling.                       *)

TakeEvent(p) ==
  /\ agg.pc = "idle" /\ p \in events
  /\ agg' = [agg EXCEPT !.pc = "write", !.event = p, !.count = Cardinality(PhotosAt(SiteOf[p]))]
  /\ UNCHANGED <<deviceVars, objects, rows, drain, tx, events, stats, faults>>

WriteStats ==
  /\ agg.pc = "write"
  /\ stats' = [stats EXCEPT ![SiteOf[agg.event]] = agg.count]
  /\ agg' = [agg EXCEPT !.pc = "mark"]
  /\ UNCHANGED <<deviceVars, objects, rows, drain, tx, events, faults>>

\* Mutation: one recount settles all events of the site.
HandledSite(p) == {q \in Photos : SiteOf[q] = SiteOf[p]}

Handled(p) == {p}

MarkProcessed ==
  /\ agg.pc = "mark"
  /\ events' = events \ Handled(agg.event)
  /\ agg' = Unused
  /\ UNCHANGED <<deviceVars, objects, rows, drain, tx, stats, faults>>

-----------------------------------------------------------------------------
Server(t) == (\E x \in Items : NextRecord(t, x)) \/ Upsert(t) \/ Classify(t) \/ Commit(t) \/ RefuseOrphan(t)

Drain(n) ==
  \/ \E d \in Devices : StartDrain(n, d)
  \/ \E t \in Slots : PostRecords(n, t) \/ Confirm(n, t)
  \/ RecordsDone(n) \/ ListPhotos(n) \/ DeleteBlob(n) \/ Dequeue(n)
  \/ \E p \in Photos : DropEntry(n, p) \/ PutObject(n, p)

Aggregate == WriteStats \/ MarkProcessed \/ \E p \in Photos : TakeEvent(p)

Next ==
  \/ \E d \in Devices : Pull(d) \/ \E x \in Items : Capture(d, x)
  \/ \E t \in Slots : Server(t) \/ FailRequest(t) \/ \E x \in Editable : Edit(t, x)
  \/ \E n \in Drains : Drain(n) \/ LoseDrain(n)
  \/ Aggregate

Spec == Init /\ [][Next]_vars

-----------------------------------------------------------------------------
(* Properties.                                                             *)

DrainStep == {"idle", "records", "waiting", "replied", "list", "photos", "confirm", "dequeue"}
Outcomes  == {"none", "applied", "ignored_stale", "limit_exceeded"}

DrainRun == [pc : DrainStep, dev : Devices \cup {Nobody}, todo : SUBSET Items,
             photo : Photos \cup {Nobody}, slot : Slots \cup {Nobody}, result : Outcomes]

Request == [pc : {"free", "next", "write", "classify"}, todo : SUBSET Items,
            item : Items \cup {Nobody}, version : 0 .. MaxVersion, yields : BOOLEAN,
            written : SUBSET Items, applied : SUBSET Items, result : Outcomes]

\* Types: a drain waits just while a request answers to it, what a transaction has
\* written it reports as applied, and nothing of a finished request is left behind.
TypeOK ==
  /\ taken \in [Items -> Devices \cup {Nobody}]
  /\ outbox \in [Devices -> SUBSET Items] /\ blobs \in [Devices -> SUBSET Photos]
  /\ known \in [Devices -> SUBSET Sites]
  /\ objects \subseteq Photos /\ rows \in [Items -> 0 .. MaxVersion]
  /\ drain \in [Drains -> DrainRun] /\ tx \in [Slots -> Request]
  /\ events \subseteq Photos /\ stats \in [Sites -> Nat]
  /\ agg \in [pc : {"idle", "write", "mark"}, event : Photos \cup {Nobody}, count : Nat]
  /\ faults \in Nat
  /\ \A n \in Drains : drain[n].pc = "waiting" <=> drain[n].slot # Nobody
  /\ \A t \in Slots : /\ tx[t].written \subseteq tx[t].applied
                      /\ tx[t].pc = "free" => tx[t] = Free

Full(s)    == Cardinality(PhotosAt(s)) >= Cap
Settled(x) == rows[x] > 0 \/ (x \in Photos /\ Full(SiteOf[x]))

\* syncEngine.ts drainOutbox: an entry leaves the outbox only when the server
\* has the record, or its site has all the photos it may have; lost replies,
\* closed tabs and two drains at once make no difference.
NothingLost == \A x \in Items : taken[x] = Nobody \/ Settled(x) \/ x \in outbox[taken[x]]

\* The bytes of a photo are on its device until they are in the bucket and the
\* row that names them is committed, and no row names bytes that are not there.
BytesKept ==
  \A p \in Photos :
    /\ taken[p] # Nobody => p \in blobs[taken[p]] \/ (p \in objects /\ rows[p] > 0)
    /\ rows[p] > 0 => p \in objects

\* Last write wins, whatever two concurrent transactions read: a committed row
\* is never replaced by an older version.
NoLostUpdate == [][\A x \in Items : rows'[x] >= rows[x]]_vars

\* dashboardaggregator: without unprocessed events the counts are those of the
\* committed photos, however the commits fell between its reads and writes.
StatsFollowPhotos ==
  \A s \in Sites : stats[s] = Cardinality(PhotosAt(s)) \/ \E p \in events : SiteOf[p] = s
=============================================================================
