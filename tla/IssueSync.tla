----------------------------- MODULE IssueSync ------------------------------
(***************************************************************************)
(* Two-way synchronisation of work items with an issue tracker.  Changes   *)
(* of the tracker come in as webhooks, through an inbox, and through a     *)
(* polling extractor; the notes people edit here go out as patches.        *)
(*                                                                         *)
(* Issue i is linked to work item i.  The tracker's fields are abstracted  *)
(* to status, which stands for every external-owned field and is named by  *)
(* the version that set it, notes, the internal-owned field, named by the  *)
(* number of the edit that wrote it (0: written in the tracker), and the   *)
(* tombstone.  A content hash is determined by the version it hashes.      *)
(***************************************************************************)
EXTENDS Naturals, Sequences, FiniteSets

CONSTANTS
  Issues,           \* ids of the tracker: a page orders equal times by id
  NoItem,           \* no row in work_items
  NoCursor,         \* sync_state.next_cursor = ''
  NoPage,           \* the extractor holds no page
  PageSize,
  Overlap,
  MaxAttempts,      \* of one inbox delivery
  MaxReceived,      \* bound: deliveries that get through
  MaxEdits,         \* bound: edits of notes
  MaxOutside,       \* bound: no change is made in the tracker after that many versions
  MaxFaults         \* bound: crashes, lost answers and database errors

ASSUME IssuesAssumption == Issues \subseteq Nat
ASSUME LimitsAssumption == /\ {PageSize, MaxAttempts} \subseteq Nat \ {0}
                           /\ {Overlap, MaxEdits, MaxOutside} \subseteq Nat
ASSUME NullsAssumption ==
  /\ NoItem \notin [status : Nat, notes : Nat, deleted : BOOLEAN]
  /\ NoCursor \notin Nat \X Issues
  /\ NoPage \notin [issues : SUBSET (Issues \X Nat), since : Nat,
                    next : (Nat \X Issues) \cup {NoCursor}, max : Nat]

VARIABLES
  hist,     \* hist[i]: the versions of issue i in the tracker
  clock,    \* the tracker's time of the latest change
  inbox,    \* inbox[i][v]: the delivery of version v of i
  link,     \* link[i]: external_id_map.last_version
  item,     \* item[i]: the row of work_items
  pushed,   \* pushed[i]: sync_pushed.external_version
  events,   \* work_item.updated events the loader has not processed
  edits,    \* how many edits of notes were committed
  loader,   \* the loader's pass over a batch of events
  sync,     \* the sync_state row
  page,     \* the page the extractor holds between its List and its commit
  derailed, \* history: issues one of whose pushes was given up or overtaken
  faults    \* how many faults happened

trackerVars == <<hist, clock>>
itemVars    == <<link, item>>
loaderVars  == <<loader, pushed, derailed>>
pollVars    == <<sync, page>>
vars == <<trackerVars, inbox, itemVars, events, edits, loaderVars, pollVars, faults>>

None      == [by |-> "nobody", issue |-> 0, n |-> 0, notes |-> 0]
Untouched == [status |-> 0, notes |-> 0, deleted |-> FALSE, at |-> 0, by |-> None]
NoRow     == [state |-> "none", attempts |-> 0]
Asleep    == [pc |-> "idle", batch |-> {}, version |-> 0]
Start     == [watermark |-> 0, since |-> 0, cursor |-> NoCursor, max |-> 0]

MaxVersion == MaxOutside + MaxEdits

Init ==
  /\ hist   = [i \in Issues |-> <<>>]
  /\ clock  = 0
  /\ inbox  = [i \in Issues |-> [v \in 1 .. MaxVersion |-> NoRow]]
  /\ link   = [i \in Issues |-> 0]
  /\ item   = [i \in Issues |-> NoItem]
  /\ pushed = [i \in Issues |-> 0]
  /\ events = {} /\ edits = 0
  /\ loader = Asleep
  /\ sync   = Start /\ page = NoPage
  /\ derailed = {} /\ faults = 0

-----------------------------------------------------------------------------
(* The tracker.                                                            *)

Versions(i) == 1 .. Len(hist[i])
Latest(i)   == IF hist[i] = <<>> THEN Untouched ELSE hist[i][Len(hist[i])]

\* create and update: the version moves, and the time, read under the tracker's
\* lock in nanoseconds, so that no two changes share it.
Amend(i, new) ==
  /\ clock' = clock + 1
  /\ hist' = [hist EXCEPT ![i] = Append(@, [new EXCEPT !.at = clock'])]

\* Somebody creates or edits an issue, or deletes it: a tombstone and a version.
ChangeIssue(i) ==
  LET old == [Latest(i) EXCEPT !.by = None]
  IN /\ clock < MaxOutside
     /\ \/ Amend(i, [old EXCEPT !.status = Len(hist[i]) + 1])
        \/ hist[i] # <<>> /\ Amend(i, [old EXCEPT !.notes = 0])
        \/ hist[i] # <<>> /\ Amend(i, [old EXCEPT !.deleted = TRUE])
     /\ UNCHANGED <<inbox, itemVars, events, edits, loaderVars, pollVars, faults>>

-----------------------------------------------------------------------------
(* Applying one version of an issue: the transaction Apply runs in.        *)

\* Mutation: a version not newer than the last applied one is applied.
NewerAnyway(i, v) == v # link[i]

\* AdvanceLinkVersion: the version gate.
Newer(i, v) == v > link[i]

\* Mutation: the incoming notes replace the item's.
MergedTheirs(i, v) ==
  LET in == hist[i][v] IN [status |-> in.status, notes |-> in.notes, deleted |-> in.deleted]

\* Ownership.Merge: status is the tracker's, notes are ours once the item exists.
Merged(i, v) ==
  LET in == hist[i][v]
  IN [status  |-> in.status,
      notes   |-> IF item[i] = NoItem THEN in.notes ELSE item[i].notes,
      deleted |-> in.deleted]

\* The issues of P that change their item, for an event each.
Changing(P) == {i \in Issues : \E v \in Versions(i) : <<i, v>> \in P /\ Newer(i, v) /\ item[i] # Merged(i, v)}

\* publish, with the system as the actor; a deletion has an event type of its own.
Published(P) ==
  {[by |-> "system", issue |-> p[1], n |-> p[2], notes |-> Merged(p[1], p[2]).notes] :
     p \in {q \in P : q[1] \in Changing(P) /\ ~hist[q[1]][q[2]].deleted}}

\* UpsertWorkItem, when the gate let a version through.
Upserted(i, v) == IF v # link[i] THEN Merged(i, v) ELSE item[i]

\* Apply, for every <<issue, version>> in P.
ApplyAll(P) ==
  /\ link' = [i \in Issues |-> IF \E v \in Versions(i) : <<i, v>> \in P /\ Newer(i, v)
                               THEN CHOOSE v \in Versions(i) : <<i, v>> \in P ELSE link[i]]
  /\ item' = [i \in Issues |-> Upserted(i, link'[i])]
  /\ events' = events \cup Published(P)

-----------------------------------------------------------------------------
(* Webhooks.  A delivery may be lost, late, reordered or repeated: version *)
(* v of i is posted at any time, or never, and the inbox row is its only   *)
(* trace, so that a repetition changes nothing.                            *)

\* ClaimInboxRow: neither processed nor dead; a row that another worker has
\* claimed is skipped.
Claimable(i, v) == inbox[i][v].state = "pending"

Received == {p \in Issues \X (1 .. MaxVersion) : inbox[p[1]][p[2]].state # "none"}

\* Every change is queued and posted, by Flush in order, reversed, twice or not at
\* all.
Posted(i) == Versions(i)

Receive(i, v) ==
  /\ Cardinality(Received) < MaxReceived
  /\ v \in Posted(i) /\ inbox[i][v].state = "none"
  /\ inbox' = [inbox EXCEPT ![i][v].state = "pending"]
  /\ UNCHANGED <<trackerVars, itemVars, events, edits, loaderVars, pollVars, faults>>

\* Mutation: everything up to the pushed version is taken for an echo.
EchoUpTo(i, v) == pushed[i] >= v

\* isEcho: the version the loader last wrote, with the content it got back.
Echo(i, v) == pushed[i] = v

\* processOne: claim, apply and mark in one transaction.
ProcessDelivery(i, v) ==
  /\ Claimable(i, v)
  /\ inbox' = [inbox EXCEPT ![i][v].state = "processed"]
  /\ IF Echo(i, v) THEN UNCHANGED <<itemVars, events>> ELSE ApplyAll({<<i, v>>})
  /\ UNCHANGED <<trackerVars, edits, loaderVars, pollVars, faults>>

\* Mutation: one attempt too many.
ExhaustedLate(n) == n > MaxAttempts

Exhausted(n) == n >= MaxAttempts

\* RecordInboxFailure.
Counted(row) == [row EXCEPT !.attempts = @ + 1]

\* A transaction that fails, and recordFailure.
FailDelivery(i, v) ==
  /\ Claimable(i, v) /\ faults < MaxFaults
  /\ faults' = faults + 1
  /\ inbox' = [inbox EXCEPT ![i][v] =
       IF Exhausted(Counted(@).attempts) THEN [Counted(@) EXCEPT !.state = "dead"] ELSE Counted(@)]
  /\ UNCHANGED <<trackerVars, itemVars, events, edits, loaderVars, pollVars>>

-----------------------------------------------------------------------------
(* The extractor, one runner.                                              *)

\* The keyset order of a page: time of the latest change, then id.
Position(i)    == <<Latest(i).at, i>>
Precedes(p, q) == p[1] < q[1] \/ (p[1] = q[1] /\ p[2] < q[2])

\* Run: a stored cursor is resumed, otherwise the run starts behind the watermark.
Since == IF sync.cursor # NoCursor THEN sync.since
         ELSE IF sync.watermark > Overlap THEN sync.watermark - Overlap ELSE 0

Matching == {i \in Issues : /\ hist[i] # <<>> /\ Latest(i).at >= Since
                            /\ sync.cursor = NoCursor \/ Precedes(sync.cursor, Position(i))}

\* List, and the running maximum of the times it returns.
ListPage ==
  /\ page = NoPage
  /\ LET first == {i \in Matching : Cardinality({j \in Matching : Precedes(Position(j), Position(i))}) < PageSize}
         seen  == {Latest(i).at : i \in first} \cup {IF sync.cursor = NoCursor THEN sync.watermark ELSE sync.max}
         last  == CHOOSE i \in first : \A j \in first : i = j \/ Precedes(Position(j), Position(i))
     IN page' = [issues |-> {<<i, Len(hist[i])>> : i \in first},
                 since  |-> Since,
                 next   |-> IF first = Matching THEN NoCursor ELSE Position(last),
                 max    |-> CHOOSE t \in seen : \A u \in seen : u <= t]
  /\ UNCHANGED <<trackerVars, inbox, itemVars, events, edits, loaderVars, sync, faults>>

\* Mutation: the watermark is the time of the commit.
CheckpointNow(p) ==
  IF p.next = NoCursor THEN [Start EXCEPT !.watermark = clock]
  ELSE [watermark |-> sync.watermark, since |-> p.since, cursor |-> p.next, max |-> p.max]

\* checkpoint: a finished run moves the watermark, an unfinished one its cursor.
Checkpoint(p) ==
  IF p.next = NoCursor THEN [Start EXCEPT !.watermark = p.max]
  ELSE [watermark |-> sync.watermark, since |-> p.since, cursor |-> p.next, max |-> p.max]

\* The page and its checkpoint commit together.
CommitPage ==
  /\ page # NoPage
  /\ ApplyAll(page.issues)
  /\ sync' = Checkpoint(page)
  /\ page' = NoPage
  /\ UNCHANGED <<trackerVars, inbox, edits, loaderVars, faults>>

\* A crash or a failed transaction; the next run resumes from sync_state.
LosePage ==
  /\ page # NoPage /\ faults < MaxFaults
  /\ faults' = faults + 1
  /\ page' = NoPage
  /\ UNCHANGED <<trackerVars, inbox, itemVars, events, edits, loaderVars, sync>>

-----------------------------------------------------------------------------
(* Notes, and the loader that pushes them.                                 *)

\* UpdateWorkItemNotes: a missing or deleted item refuses.
Editable(i) == item[i] # NoItem /\ ~item[i].deleted

\* EditNotes: the row and the event commit together.
EditNotes(i) ==
  /\ edits < MaxEdits /\ Editable(i)
  /\ edits' = edits + 1
  /\ item' = [item EXCEPT ![i].notes = edits']
  /\ events' = events \cup {[by |-> "user", issue |-> i, n |-> edits', notes |-> edits']}
  /\ UNCHANGED <<trackerVars, inbox, link, loaderVars, pollVars, faults>>

\* The batch is in order of time; the tracker's own events, no-ops wherever they
\* stand, are taken first.
Follows(d, e) == \/ e.by = "system" /\ d.by = "user"
                 \/ e.by = d.by /\ (e.n < d.n \/ (e.n = d.n /\ e.issue < d.issue))
Oldest(e)     == e \in loader.batch /\ \A d \in loader.batch \ {e} : Follows(d, e)

\* The next event of consume.RunOnce's batch, or the end of it.
Pass(e, step) == [loader EXCEPT !.pc = IF loader.batch = {e} THEN "idle" ELSE step,
                                !.batch = @ \ {e}, !.version = 0]

\* ListUnprocessedEventsForConsumer, oldest first.
LoadBatch ==
  /\ loader.pc = "idle" /\ events # {}
  /\ loader' = [loader EXCEPT !.pc = "push", !.batch = events]
  /\ UNCHANGED <<trackerVars, inbox, itemVars, events, edits, pushed, derailed, pollVars, faults>>

\* The origin filter: an event the tracker caused is not pushed back to it.
Own(e) == e.by = "system"

SkipOwn(e) ==
  /\ loader.pc = "push" /\ Oldest(e) /\ Own(e)
  /\ events' = events \ {e}
  /\ loader' = Pass(e, "push")
  /\ UNCHANGED <<trackerVars, inbox, itemVars, edits, pushed, derailed, pollVars, faults>>

\* Mutation: the tracker forgets the keys it has seen.
AnswerForgotten(e) == {}

\* The version a repeated Idempotency-Key is answered with.
Answer(e) == {v \in Versions(e.issue) : hist[e.issue][v].by = e}

\* PATCH with the event's id as its Idempotency-Key; the answer may be lost.
Push(e) ==
  /\ loader.pc = "push" /\ Oldest(e) /\ ~Own(e)
  /\ IF Answer(e) # {} THEN UNCHANGED trackerVars
     ELSE Amend(e.issue, [Latest(e.issue) EXCEPT !.notes = e.notes, !.by = e])
  /\ \/ /\ loader' = [loader EXCEPT !.pc = "record",
                        !.version = CHOOSE v \in 1 .. Len(hist'[e.issue]) : hist'[e.issue][v].by = e]
        /\ UNCHANGED faults
     \/ /\ faults < MaxFaults /\ faults' = faults + 1
        /\ UNCHANGED loader
  /\ UNCHANGED <<inbox, itemVars, events, edits, pushed, derailed, pollVars>>

\* UpsertSyncPushed keeps the newest version.
Remembered(i, v) == IF v > pushed[i] THEN v ELSE pushed[i]

\* The echo memory.
RecordPush(e) ==
  /\ loader.pc = "record" /\ Oldest(e)
  /\ pushed' = [pushed EXCEPT ![e.issue] = Remembered(e.issue, loader.version)]
  /\ loader' = [loader EXCEPT !.pc = "mark"]
  /\ UNCHANGED <<trackerVars, inbox, itemVars, events, edits, derailed, pollVars, faults>>

MarkEvent(e) ==
  /\ loader.pc = "mark" /\ Oldest(e)
  /\ events' = events \ {e}
  /\ loader' = Pass(e, "push")
  /\ UNCHANGED <<trackerVars, inbox, itemVars, edits, pushed, derailed, pollVars, faults>>

\* Retries exhausted or a permanent answer: the event is dead-lettered.
DeadLetter(e) ==
  /\ loader.pc = "push" /\ Oldest(e) /\ ~Own(e) /\ faults < MaxFaults
  /\ faults' = faults + 1
  /\ loader' = [loader EXCEPT !.pc = "mark"]
  /\ derailed' = derailed \cup {e.issue}
  /\ UNCHANGED <<trackerVars, inbox, itemVars, events, edits, pushed, pollVars>>

\* A database error before the patch or after it: the event stays unprocessed
\* and the batch goes on.  Before the patch, a newer push may overtake it.
LeaveEvent(e) ==
  /\ loader.pc \in {"push", "record"} /\ Oldest(e) /\ ~Own(e) /\ faults < MaxFaults
  /\ faults' = faults + 1
  /\ loader' = Pass(e, "push")
  /\ derailed' = IF Answer(e) = {} THEN derailed \cup {e.issue} ELSE derailed
  /\ UNCHANGED <<trackerVars, inbox, itemVars, events, edits, pushed, pollVars>>

\* A crash, or a mark that fails and ends the pass.
StopLoader ==
  /\ loader.pc # "idle" /\ faults < MaxFaults
  /\ faults' = faults + 1
  /\ loader' = Asleep
  /\ UNCHANGED <<trackerVars, inbox, itemVars, events, edits, pushed, derailed, pollVars>>

-----------------------------------------------------------------------------
Load == LoadBatch \/ StopLoader \/ \E e \in loader.batch :
          SkipOwn(e) \/ Push(e) \/ RecordPush(e) \/ MarkEvent(e) \/ DeadLetter(e) \/ LeaveEvent(e)

Next ==
  \/ \E i \in Issues : ChangeIssue(i) \/ EditNotes(i)
  \/ \E i \in Issues, v \in 1 .. MaxVersion : Receive(i, v) \/ ProcessDelivery(i, v) \/ FailDelivery(i, v)
  \/ ListPage \/ CommitPage \/ LosePage
  \/ Load

Spec == Init /\ [][Next]_vars

\* The extractor and the worker run on tickers for ever.
FairSpec == Spec /\ WF_vars(ListPage \/ CommitPage)

-----------------------------------------------------------------------------
(* Properties.                                                             *)

Event   == [by : {"nobody", "user", "system"}, issue : Nat, n : Nat, notes : Nat]
Version == [status : Nat, notes : Nat, deleted : BOOLEAN, at : Nat, by : Event]
Item    == [status : Nat, notes : Nat, deleted : BOOLEAN]
Cursors == (Nat \X Issues) \cup {NoCursor}
Pages   == [issues : SUBSET (Issues \X Nat), since : Nat, next : Cursors, max : Nat]

\* Every value has the type of its column or field; a delivery is of a version
\* that exists and is retried only while it has attempts left.
TypeOK ==
  /\ hist \in [Issues -> Seq(Version)] /\ clock \in Nat
  /\ inbox \in [Issues -> [1 .. MaxVersion ->
                 [state : {"none", "pending", "processed", "dead"}, attempts : 0 .. MaxAttempts]]]
  /\ link \in [Issues -> Nat] /\ item \in [Issues -> Item \cup {NoItem}]
  /\ pushed \in [Issues -> Nat]
  /\ events \subseteq Event /\ edits \in Nat
  /\ loader \in [pc : {"idle", "push", "record", "mark"}, batch : SUBSET Event, version : Nat]
  /\ sync \in [watermark : Nat, since : Nat, cursor : Cursors, max : Nat]
  /\ page \in Pages \cup {NoPage}
  /\ derailed \subseteq Issues /\ faults \in Nat
  /\ \A i \in Issues : \A v \in 1 .. MaxVersion :
       /\ inbox[i][v].state \in {"none", "pending"} => inbox[i][v].attempts < MaxAttempts
       /\ inbox[i][v].state # "none" => v <= Len(hist[i])

\* apply.go Apply: whatever mixture of webhooks, late webhooks and pages arrives,
\* an item never goes back to older external-owned fields, and never comes back
\* from a deletion.
NeverBackwards ==
  [][\A i \in Issues :
       item[i] # NoItem => /\ item'[i] # NoItem
                           /\ item'[i].status >= item[i].status
                           /\ item[i].deleted => item'[i].deleted]_vars

\* isEcho: a processed delivery was applied, or is superseded, or is a push of
\* our own; no change made in the tracker is ever dropped as an echo.
ProcessedIsApplied ==
  \A i \in Issues : \A v \in 1 .. MaxVersion :
    inbox[i][v].state = "processed" => v <= link[i] \/ hist[i][v].by # None

\* loader.go Handle: however often a push is retried, each event of a user makes
\* at most one version, and no event the tracker caused makes one.
PushesAreEdits ==
  \A i \in Issues : \A v \in Versions(i) :
    hist[i][v].by # None =>
      /\ hist[i][v].by.by = "user" /\ hist[i][v].by.issue = i
      /\ \A w \in Versions(i) : hist[i][w].by = hist[i][v].by => w = v

\* EditNotes and Loader: once every event of an item is processed the tracker
\* shows its notes, unless the tracker's users wrote theirs over them or a push
\* was dead-lettered or left behind.
NotesArrive ==
  \A i \in Issues \ derailed :
    item[i] # NoItem /\ (\A e \in events : e.issue = i => Own(e)) =>
      Latest(i).notes \in {item[i].notes, 0}

\* extractor.go: what was not applied is still ahead of the next run, although
\* issues change while their pages are read and any page may be lost.
NothingBehindWatermark ==
  \A i \in Issues :
    hist[i] # <<>> => link[i] = Len(hist[i]) \/ hist[i][Len(hist[i])].at >= sync.watermark

\* The poll repairs whatever webhooks were dropped, dead-lettered or taken for
\* an echo: once the tracker is quiet every issue's newest version is applied.
PollCatchesUp == <>[](\A i \in Issues : link[i] = Len(hist[i]))
=============================================================================
