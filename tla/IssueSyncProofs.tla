-------------------------- MODULE IssueSyncProofs ---------------------------
(***************************************************************************)
(* Proofs about IssueSync for any issues, page size, overlap and bounds:   *)
(* types, no item goes backwards, nothing is taken for an echo that is not *)
(* one, each edit is pushed at most once, notes arrive, and no issue is    *)
(* left behind the watermark.                                              *)
(***************************************************************************)
EXTENDS IssueSync, TLAPS, FiniteSetTheorems, WellFoundedInduction

-----------------------------------------------------------------------------
(* Why they hold: the inductive invariant, named by what its parts relate. *)

\* The tracker: later versions have later external-owned fields, no two issues
\* changed last at the same time, and nobody changes a missing issue's notes.
VersionFits(i, v) ==
  /\ hist[i][v].status <= v /\ hist[i][v].at \in 1 .. clock /\ hist[i][v].notes <= edits
  /\ item[i] = NoItem => hist[i][v].notes = 0

Advances(i, v, w) ==
  hist[i][v].status <= hist[i][w].status /\ (hist[i][v].deleted => hist[i][w].deleted)

HistoryFits ==
  /\ \A i \in Issues : \A v \in Versions(i) : VersionFits(i, v)
  /\ \A i \in Issues : \A v, w \in Versions(i) : v <= w => Advances(i, v, w)
  /\ \A i, j \in Issues :
       i # j /\ hist[i] # <<>> /\ hist[j] # <<>> => Latest(i).at # Latest(j).at

\* An item is its linked version, but for the notes.
LinksFit ==
  \A i \in Issues :
    /\ link[i] \in 0 .. Len(hist[i])
    /\ item[i] = NoItem <=> link[i] = 0
    /\ item[i] # NoItem => /\ item[i].status = hist[i][link[i]].status
                           /\ item[i].deleted = hist[i][link[i]].deleted
                           /\ item[i].notes <= edits

\* An event is of an issue; a user's is of an item, and its notes are named by
\* the edit, as are those of the version it made.
EventFits(e) ==
  /\ e.by \in {"user", "system"} /\ e.issue \in Issues
  /\ e.by = "user" => e.n \in 1 .. edits /\ e.notes = e.n /\ item[e.issue] # NoItem

EventsFit ==
  /\ loader.batch \subseteq events /\ \A e \in events : EventFits(e)
  /\ \A i \in Issues : \A v \in Versions(i) :
       hist[i][v].by # None => EventFits(hist[i][v].by) /\ hist[i][v].notes = hist[i][v].by.n

\* The echo memory names pushes, and the loader is about to remember one.
EchoesFit ==
  /\ \A i \in Issues : pushed[i] # 0 => pushed[i] \in Versions(i) /\ hist[i][pushed[i]].by # None
  /\ \A e \in loader.batch :
       /\ loader.pc \in {"record", "mark"} /\ Oldest(e) =>
            ~Own(e) /\ (Answer(e) # {} \/ (loader.pc = "mark" /\ e.issue \in derailed))
       /\ loader.pc = "record" /\ Oldest(e) => loader.version \in Answer(e)

\* Edits that have not reached the tracker.
Unpushed(i) == {e \in events : e.issue = i /\ ~Own(e) /\ Answer(e) = {}}

\* Pushes are in the order of the edits; what was not pushed is newer than what was;
\* it will be pushed in order; and the item's notes are the newest edit's.
NotesRise(i) ==
  \A v, w \in Versions(i) : v < w => hist[i][w].notes = 0 \/ hist[i][v].notes <= hist[i][w].notes

NotesBehind(i) ==
  \A v \in Versions(i) : /\ hist[i][v].notes <= item[i].notes
                         /\ \A e \in Unpushed(i) : hist[i][v].notes < e.n

EditsQueued(i) ==
  /\ \A e \in Unpushed(i) : e.n <= item[i].notes
  /\ \A e \in Unpushed(i) \ loader.batch : \A d \in loader.batch : d.issue = i /\ ~Own(d) => d.n < e.n

NewestEdit(i) ==
  \/ item[i].notes = 0
  \/ \E e \in Unpushed(i) : e.n = item[i].notes
  \/ \E v \in Versions(i) : hist[i][v].notes = item[i].notes

NotesFit ==
  \A i \in Issues \ derailed :
    item[i] # NoItem => NotesRise(i) /\ NotesBehind(i) /\ EditsQueued(i) /\ NewestEdit(i)

\* Whose newest version was not applied is ahead of the watermark, behind the stored
\* cursor, or on the page and behind its own.
Applied(i) == link[i] = Len(hist[i])

SyncFits ==
  /\ sync.watermark <= clock /\ sync.max <= clock
  /\ sync.cursor # NoCursor => sync.since <= sync.watermark /\ sync.cursor[1] <= clock
  /\ \A i \in Issues : hist[i] # <<>> => Applied(i) \/
       /\ Latest(i).at >= sync.watermark
       /\ sync.cursor = NoCursor \/ Precedes(sync.cursor, Position(i))

PageFits ==
  page # NoPage =>
    /\ page.max <= clock /\ page.since <= sync.watermark
    /\ page.next # NoCursor => page.next[1] <= clock
    /\ \A p \in page.issues : p[2] \in Versions(p[1])
    /\ \A p, q \in page.issues : p[1] = q[1] => p = q
    /\ \A i \in Issues : hist[i] # <<>> =>
         \/ Applied(i) \/ <<i, Len(hist[i])>> \in page.issues
         \/ /\ page.next = NoCursor => Latest(i).at >= page.max
            /\ page.next # NoCursor => Precedes(page.next, Position(i))

IInv == /\ TypeOK /\ HistoryFits /\ LinksFit /\ EventsFit /\ PushesAreEdits /\ EchoesFit
        /\ ProcessedIsApplied /\ NotesFit /\ SyncFits /\ PageFits

-----------------------------------------------------------------------------
(* The operators.                                                          *)

\* A nonempty set of times or ids has a least element.
LEMMA LeastOf ==
  ASSUME NEW S \in SUBSET Nat, S # {}
  PROVE  \E x \in S : \A y \in S : x <= y
<1>1. IsWellFoundedOn(OpToRel(<, Nat), Nat)
  BY NatLessThanWellFounded
<1>2. PICK x \in S : \A y \in S : <<y, x>> \notin OpToRel(<, Nat)
  <2> HIDE DEF OpToRel
  <2> QED BY <1>1, WFMin
<1>3. \A y \in S : ~(y < x)
  BY <1>2 DEF OpToRel
<1> QED
  BY <1>3

\* And a greatest one if it is bounded.
LEMMA GreatestOf ==
  ASSUME NEW S \in SUBSET Nat, S # {}, NEW n \in Nat, \A x \in S : x <= n
  PROVE  \E x \in S : \A y \in S : y <= x
<1> DEFINE R == {n - x : x \in S}
<1>1. R \in SUBSET Nat /\ R # {}
  <2>1. \A x \in S : n - x \in Nat
    OBVIOUS
  <2> QED BY <2>1
<1>2. PICK r \in R : \A q \in R : r <= q
  BY <1>1, LeastOf
<1>3. PICK x \in S : r = n - x
  OBVIOUS
<1>4. ASSUME NEW y \in S PROVE y <= x
  <2>1. n - y \in R
    OBVIOUS
  <2> QED BY <2>1, <1>2, <1>3
<1> QED
  BY <1>4

\* Amend adds one version and changes no other.
LEMMA AmendEffect ==
  ASSUME TypeOK, NEW i \in Issues, NEW new \in Version, Amend(i, new)
  PROVE  /\ clock' = clock + 1 /\ clock' \in Nat
         /\ hist' \in [Issues -> Seq(Version)]
         /\ Len(hist[i]) \in Nat /\ Len(hist'[i]) = Len(hist[i]) + 1
         /\ Versions(i)' = Versions(i) \cup {Len(hist[i]) + 1}
         /\ \A v \in Versions(i) : hist'[i][v] = hist[i][v]
         /\ hist'[i][Len(hist[i]) + 1] = [new EXCEPT !.at = clock + 1]
         /\ hist'[i] # <<>> /\ Latest(i)' = [new EXCEPT !.at = clock + 1]
         /\ \A j \in Issues \ {i} : hist'[j] = hist[j] /\ Versions(j)' = Versions(j) /\ Latest(j)' = Latest(j)
<1>1. hist[i] \in Seq(Version) /\ clock \in Nat
  BY DEF TypeOK
<1> DEFINE x == [new EXCEPT !.at = clock + 1]
<1>2. x \in Version
  BY <1>1 DEF Version
<1>3. hist'[i] = Append(hist[i], x) /\ clock' = clock + 1
  BY DEF Amend, TypeOK
<1>4. \A j \in Issues \ {i} : hist'[j] = hist[j]
  BY DEF Amend, TypeOK
<1>5. hist' \in [Issues -> Seq(Version)]
  <2>1. Append(hist[i], x) \in Seq(Version)
    BY <1>1, <1>2
  <2> HIDE DEF x
  <2> QED BY <2>1, <1>3 DEF Amend, TypeOK, x
<1> HIDE DEF x
<1>6. /\ Len(hist[i]) \in Nat /\ Len(hist'[i]) = Len(hist[i]) + 1
      /\ \A v \in 1 .. Len(hist[i]) : hist'[i][v] = hist[i][v]
      /\ hist'[i][Len(hist[i]) + 1] = x
  BY <1>1, <1>2, <1>3
<1>7. hist'[i] # <<>>
  BY <1>6
<1> QED
  BY <1>1, <1>3, <1>4, <1>5, <1>6, <1>7 DEF Versions, Latest, x

\* At most one version of each issue, and one that exists.
Applicable(P) == /\ P \subseteq Issues \X Nat
                 /\ \A p \in P : p[2] \in Versions(p[1])
                 /\ \A p, q \in P : p[1] = q[1] => p = q

LEMMA MergedTyped ==
  ASSUME TypeOK, NEW i \in Issues, NEW v \in Versions(i)
  PROVE  /\ hist[i][v] \in Version /\ Merged(i, v) \in Item
         /\ Merged(i, v).status = hist[i][v].status /\ Merged(i, v).deleted = hist[i][v].deleted
         /\ item[i] = NoItem => Merged(i, v).notes = hist[i][v].notes
         /\ item[i] # NoItem => Merged(i, v).notes = item[i].notes
<1>1. hist[i] \in Seq(Version) /\ v \in 1 .. Len(hist[i])
  BY DEF TypeOK, Versions
<1>2. hist[i][v] \in Version
  BY <1>1
<1>3. item[i] \in Item \cup {NoItem}
  BY DEF TypeOK
<1> QED
  BY <1>2, <1>3 DEF Merged, Item, Version

\* ApplyAll: an issue's item is left alone or becomes a newer version of P, and
\* the events it writes are the system's own.
LEMMA ApplyEffect ==
  ASSUME TypeOK, NEW P, Applicable(P), ApplyAll(P)
  PROVE  /\ link' \in [Issues -> Nat] /\ item' \in [Issues -> Item \cup {NoItem}]
         /\ \A i \in Issues :
              \/ /\ link'[i] = link[i] /\ item'[i] = item[i]
                 /\ \A v \in Versions(i) : <<i, v>> \in P => v <= link[i]
              \/ \E v \in Versions(i) : /\ <<i, v>> \in P /\ v > link[i]
                                       /\ link'[i] = v /\ item'[i] = Merged(i, v)
         /\ events \subseteq events'
         /\ \A e \in events' \ events : e \in Event /\ e.by = "system" /\ e.issue \in Issues
<1>1. \A i \in Issues : link[i] \in Nat /\ item[i] \in Item \cup {NoItem} /\ Versions(i) \subseteq Nat
  BY DEF TypeOK, Versions
<1>2. ASSUME NEW i \in Issues
      PROVE  \/ /\ link'[i] = link[i] /\ item'[i] = item[i]
                /\ \A v \in Versions(i) : <<i, v>> \in P => v <= link[i]
             \/ \E v \in Versions(i) : /\ <<i, v>> \in P /\ v > link[i]
                                      /\ link'[i] = v /\ item'[i] = Merged(i, v)
  <2>1. CASE \E v \in Versions(i) : <<i, v>> \in P /\ Newer(i, v)
    <3>1. PICK v \in Versions(i) : <<i, v>> \in P /\ Newer(i, v)
      BY <2>1
    <3>2. \A w \in Versions(i) : <<i, w>> \in P => w = v
      BY <3>1 DEF Applicable
    <3>3. (CHOOSE w \in Versions(i) : <<i, w>> \in P) = v
      BY <3>1, <3>2
    <3>4. link'[i] = v
      BY <2>1, <3>3 DEF ApplyAll
    <3>5. v > link[i] /\ v # link[i]
      BY <3>1, <1>1 DEF Newer
    <3>6. item'[i] = Merged(i, v)
      BY <3>4, <3>5 DEF ApplyAll, Upserted
    <3> QED BY <3>1, <3>4, <3>5, <3>6
  <2>2. CASE ~ \E v \in Versions(i) : <<i, v>> \in P /\ Newer(i, v)
    <3>1. link'[i] = link[i]
      BY <2>2 DEF ApplyAll
    <3>2. item'[i] = item[i]
      BY <3>1 DEF ApplyAll, Upserted
    <3>3. \A v \in Versions(i) : <<i, v>> \in P => v <= link[i]
      BY <2>2, <1>1 DEF Newer
    <3> QED BY <3>1, <3>2, <3>3
  <2> QED BY <2>1, <2>2
<1>3. \A i \in Issues : link'[i] \in Nat /\ item'[i] \in Item \cup {NoItem}
  BY <1>1, <1>2, MergedTyped
<1>4. link' \in [Issues -> Nat] /\ item' \in [Issues -> Item \cup {NoItem}]
  BY <1>3 DEF ApplyAll
<1>5. ASSUME NEW e \in Published(P)
      PROVE  e \in Event /\ e.by = "system" /\ e.issue \in Issues
  <2>1. PICK p \in P : e = [by |-> "system", issue |-> p[1], n |-> p[2], notes |-> Merged(p[1], p[2]).notes]
    BY DEF Published
  <2>2. p[1] \in Issues /\ p[2] \in Nat /\ p[2] \in Versions(p[1]) /\ p[1] \in Nat
    BY IssuesAssumption DEF Applicable
  <2>3. Merged(p[1], p[2]).notes \in Nat
    BY <2>2, MergedTyped DEF Item
  <2> QED BY <2>1, <2>2, <2>3 DEF Event
<1>6. events' = events \cup Published(P)
  BY DEF ApplyAll
<1> QED
  BY <1>2, <1>4, <1>5, <1>6

-----------------------------------------------------------------------------
(* A new version in the tracker.                                           *)

\* What a change made there and a push have in common.
Amends(i, new) ==
  /\ new \in Version /\ Amend(i, new)
  /\ Latest(i).status <= new.status /\ new.status <= Len(hist[i]) + 1
  /\ Latest(i).deleted => new.deleted
  /\ new.notes <= edits /\ (item[i] = NoItem => new.notes = 0)
  /\ UNCHANGED <<inbox, itemVars, edits, sync, page>>

LEMMA HistTyped ==
  ASSUME TypeOK, NEW i \in Issues
  PROVE  /\ hist[i] \in Seq(Version) /\ Len(hist[i]) \in Nat /\ Versions(i) = 1 .. Len(hist[i])
         /\ \A v \in Versions(i) : /\ hist[i][v] \in Version /\ v \in Nat
                                   /\ hist[i][v].status \in Nat /\ hist[i][v].notes \in Nat
                                   /\ hist[i][v].at \in Nat /\ hist[i][v].deleted \in BOOLEAN
         /\ Latest(i).status \in Nat /\ Latest(i).notes \in Nat /\ Latest(i).at \in Nat
         /\ Latest(i).deleted \in BOOLEAN
         /\ hist[i] # <<>> => Latest(i) = hist[i][Len(hist[i])] /\ Len(hist[i]) \in Versions(i)
         /\ hist[i] = <<>> => Latest(i) = Untouched /\ Versions(i) = {}
<1>1. hist[i] \in Seq(Version) /\ Len(hist[i]) \in Nat /\ Versions(i) = 1 .. Len(hist[i])
  BY DEF TypeOK, Versions
<1>2. \A v \in Versions(i) : hist[i][v] \in Version /\ v \in Nat
  BY <1>1
<1>3. hist[i] # <<>> => Latest(i) = hist[i][Len(hist[i])] /\ Len(hist[i]) \in Versions(i)
  BY <1>1 DEF Latest
<1>4. hist[i] = <<>> => Latest(i) = Untouched /\ Versions(i) = {}
  BY <1>1 DEF Latest
<1>5. Untouched.status = 0 /\ Untouched.notes = 0 /\ Untouched.at = 0 /\ Untouched.deleted = FALSE
  BY DEF Untouched
<1> QED
  BY <1>1, <1>2, <1>3, <1>4, <1>5 DEF Version

LEMMA AmendHistory ==
  ASSUME IInv, NEW i \in Issues, NEW new, Amends(i, new)
  PROVE  HistoryFits'
<1> USE DEF IInv
<1> DEFINE n == Len(hist[i])
           x == [new EXCEPT !.at = clock + 1]
<1>1. /\ clock' = clock + 1 /\ clock \in Nat /\ n \in Nat /\ Len(hist'[i]) = n + 1
      /\ Versions(i)' = Versions(i) \cup {n + 1}
      /\ \A v \in Versions(i) : hist'[i][v] = hist[i][v]
      /\ hist'[i][n + 1] = x /\ hist'[i] # <<>> /\ Latest(i)' = x
      /\ \A j \in Issues \ {i} : hist'[j] = hist[j] /\ Versions(j)' = Versions(j) /\ Latest(j)' = Latest(j)
  BY AmendEffect DEF Amends, TypeOK
<1>2. /\ x.at = clock + 1 /\ x.status = new.status /\ x.deleted = new.deleted /\ x.notes = new.notes
      /\ new.status \in Nat /\ new.notes \in Nat /\ new.deleted \in BOOLEAN
  BY DEF Amends, Version
<1> HIDE DEF x
<1>3. edits' = edits /\ item' = item /\ edits \in Nat
  BY DEF Amends, itemVars, TypeOK
<1>4. ASSUME NEW v \in Versions(i)
      PROVE  hist[i][v].status <= new.status /\ (hist[i][v].deleted => new.deleted)
  <2>1. hist[i] # <<>> /\ n \in Versions(i) /\ v <= n /\ Latest(i) = hist[i][n]
    BY HistTyped
  <2>2. Advances(i, v, n)
    BY <2>1 DEF HistoryFits
  <2>3. hist[i][v].deleted => new.deleted
    BY <2>1, <2>2 DEF Amends, Advances
  <2>4. hist[i][v].status <= new.status
    BY <2>1, <2>2, <1>2, HistTyped DEF Amends, Advances
  <2> QED BY <2>3, <2>4
<1>5. ASSUME NEW j \in Issues, NEW v \in Versions(j)' PROVE VersionFits(j, v)'
  <2>1. CASE j = i /\ v = n + 1
    BY <2>1, <1>1, <1>2, <1>3 DEF Amends, VersionFits
  <2>2. CASE v \in Versions(j) /\ hist'[j][v] = hist[j][v]
    <3>1. VersionFits(j, v)
      BY <2>2 DEF HistoryFits
    <3> QED BY <2>2, <3>1, <1>1, <1>3 DEF VersionFits
  <2> QED BY <2>1, <2>2, <1>1
<1>7. ASSUME NEW j \in Issues, NEW v \in Versions(j)', NEW w \in Versions(j)', v <= w
      PROVE  Advances(j, v, w)'
  <2>1. CASE j = i /\ v = n + 1
    <3>1. w = n + 1
      BY <1>7, <2>1, <1>1, HistTyped
    <3> QED BY <2>1, <3>1, <1>1, <1>2 DEF Advances
  <2>2. CASE j = i /\ v \in Versions(i) /\ w = n + 1
    BY <2>2, <1>1, <1>2, <1>4 DEF Advances
  <2>3. CASE v \in Versions(j) /\ w \in Versions(j)
    <3>1. Advances(j, v, w)
      BY <2>3, <1>7 DEF HistoryFits
    <3>2. hist'[j][v] = hist[j][v] /\ hist'[j][w] = hist[j][w]
      BY <2>3, <1>1
    <3> QED BY <3>1, <3>2 DEF Advances
  <2> QED BY <2>1, <2>2, <2>3, <1>1
<1>6. ASSUME NEW j \in Issues, NEW k \in Issues \ {j}, hist'[j] # <<>>, hist'[k] # <<>>
      PROVE  Latest(j)' .at # Latest(k)' .at
  <2>1. \A l \in Issues \ {i} : hist[l] # <<>> => Latest(l).at <= clock /\ Latest(l).at \in Nat
    BY HistTyped DEF HistoryFits, VersionFits
  <2>2. CASE j = i
    BY <2>1, <2>2, <1>1, <1>2, <1>6
  <2>3. CASE k = i
    BY <2>1, <2>3, <1>1, <1>2, <1>6
  <2>4. CASE j # i /\ k # i
    BY <2>4, <1>1, <1>6 DEF HistoryFits
  <2> QED BY <2>2, <2>3, <2>4
<1> QED
  BY <1>5, <1>6, <1>7 DEF HistoryFits

LEMMA AmendLinks ==
  ASSUME IInv, NEW i \in Issues, NEW new, Amends(i, new)
  PROVE  LinksFit' /\ ProcessedIsApplied'
<1> USE DEF IInv
<1>1. /\ Len(hist'[i]) = Len(hist[i]) + 1 /\ \A v \in Versions(i) : hist'[i][v] = hist[i][v]
      /\ \A j \in Issues \ {i} : hist'[j] = hist[j]
  BY AmendEffect DEF Amends, TypeOK
<1>2. link' = link /\ item' = item /\ edits' = edits /\ inbox' = inbox
  BY DEF Amends, itemVars
<1>3. ASSUME NEW j \in Issues
      PROVE  Len(hist[j]) <= Len(hist'[j]) /\ \A v \in 1 .. Len(hist[j]) : hist'[j][v] = hist[j][v]
  BY <1>1, HistTyped
<1>4. LinksFit'
  <2> SUFFICES ASSUME NEW j \in Issues
               PROVE  /\ link[j] \in 0 .. Len(hist'[j])
                      /\ item[j] = NoItem <=> link[j] = 0
                      /\ item[j] # NoItem => /\ item[j].status = hist'[j][link[j]].status
                                             /\ item[j].deleted = hist'[j][link[j]].deleted
                                             /\ item[j].notes <= edits
    BY <1>2 DEF LinksFit
  <2>1. /\ link[j] \in 0 .. Len(hist[j])
        /\ item[j] = NoItem <=> link[j] = 0
        /\ item[j] # NoItem => /\ item[j].status = hist[j][link[j]].status
                               /\ item[j].deleted = hist[j][link[j]].deleted
                               /\ item[j].notes <= edits
    BY DEF LinksFit
  <2>2. item[j] # NoItem => hist'[j][link[j]] = hist[j][link[j]]
    BY <2>1, <1>3, HistTyped
  <2>3. link[j] \in 0 .. Len(hist'[j])
    BY <2>1, <1>1, HistTyped
  <2> QED BY <2>1, <2>2, <2>3
<1>5. ProcessedIsApplied'
  <2> SUFFICES ASSUME NEW j \in Issues, NEW v \in 1 .. MaxVersion, inbox[j][v].state = "processed"
               PROVE  v <= link[j] \/ hist'[j][v].by # None
    BY <1>2 DEF ProcessedIsApplied
  <2>1. v <= link[j] \/ hist[j][v].by # None
    BY DEF ProcessedIsApplied
  <2>2. v <= Len(hist[j])
    BY DEF TypeOK
  <2>3. hist'[j][v] = hist[j][v]
    BY <2>2, <1>3, HistTyped
  <2> QED BY <2>1, <2>3
<1> QED
  BY <1>4, <1>5

\* A change is ahead of every watermark, every cursor and every page.
LEMMA AmendPolls ==
  ASSUME IInv, NEW i \in Issues, NEW new, Amends(i, new)
  PROVE  SyncFits' /\ PageFits'
<1> USE DEF IInv
<1>1. /\ clock' = clock + 1 /\ clock \in Nat /\ hist'[i] # <<>>
      /\ Len(hist'[i]) = Len(hist[i]) + 1 /\ \A v \in Versions(i) : hist'[i][v] = hist[i][v]
      /\ Latest(i)' = [new EXCEPT !.at = clock + 1]
      /\ Versions(i)' = Versions(i) \cup {Len(hist[i]) + 1}
      /\ \A j \in Issues \ {i} : hist'[j] = hist[j] /\ Versions(j)' = Versions(j) /\ Latest(j)' = Latest(j)
  BY AmendEffect DEF Amends, TypeOK
<1>2. Latest(i)'.at = clock + 1
  BY <1>1 DEF Amends, Version
<1>3. link' = link /\ sync' = sync /\ page' = page
  BY DEF Amends, itemVars
<1>4. /\ sync.watermark \in Nat /\ sync.max \in Nat /\ sync.cursor \in Cursors
      /\ page \in Pages \cup {NoPage}
  BY DEF TypeOK
<1>5. \A c \in Cursors : c = NoCursor \/ c[1] \in Nat
  BY DEF Cursors
<1>6. ASSUME NEW c, c[1] <= clock, c[1] \in Nat PROVE Precedes(c, Position(i)')
  BY <1>1, <1>2, <1>6 DEF Precedes, Position
<1>7. \A j \in Issues \ {i} : (Applied(j) => Applied(j)') /\ Position(j)' = Position(j)
  BY <1>1, <1>3 DEF Applied, Position
<1>8. SyncFits'
  <2>1. /\ sync.watermark <= clock' /\ sync.max <= clock'
        /\ sync.cursor # NoCursor => sync.since <= sync.watermark /\ sync.cursor[1] <= clock'
    BY <1>1, <1>4, <1>5 DEF SyncFits
  <2>2. ASSUME NEW j \in Issues, hist'[j] # <<>>
        PROVE  \/ Applied(j)'
               \/ /\ Latest(j)'.at >= sync.watermark
                  /\ sync.cursor = NoCursor \/ Precedes(sync.cursor, Position(j)')
    <3>1. CASE j = i
      BY <3>1, <1>1, <1>2, <1>4, <1>5, <1>6 DEF SyncFits
    <3>2. CASE j # i
      <4>1. hist[j] # <<>>
        BY <2>2, <3>2, <1>1
      <4>2. \/ Applied(j)
            \/ /\ Latest(j).at >= sync.watermark
               /\ sync.cursor = NoCursor \/ Precedes(sync.cursor, Position(j))
        BY <4>1 DEF SyncFits
      <4> QED BY <3>2, <4>2, <1>1, <1>7
    <3> QED BY <3>1, <3>2
  <2> QED BY <2>1, <2>2, <1>3 DEF SyncFits
<1>9. PageFits'
  <2> SUFFICES ASSUME page # NoPage PROVE PageFits'
    BY <1>3 DEF PageFits
  <2>1. page \in Pages /\ page.next \in Cursors /\ page.max \in Nat /\ page.issues \subseteq Issues \X Nat
    BY <1>4 DEF Pages
  <2>2. /\ page.max <= clock /\ page.since <= sync.watermark
        /\ page.next # NoCursor => page.next[1] <= clock
        /\ \A p \in page.issues : p[2] \in Versions(p[1])
        /\ \A p, q \in page.issues : p[1] = q[1] => p = q
    BY DEF PageFits
  <2>3. page.max <= clock' /\ (page.next # NoCursor => page.next[1] <= clock')
    BY <1>1, <1>5, <2>1, <2>2
  <2>4. \A p \in page.issues : p[2] \in Versions(p[1])'
    BY <1>1, <2>1, <2>2
  <2>5. ASSUME NEW j \in Issues, hist'[j] # <<>>
        PROVE  \/ Applied(j)' \/ <<j, Len(hist'[j])>> \in page.issues
               \/ /\ page.next = NoCursor => Latest(j)'.at >= page.max
                  /\ page.next # NoCursor => Precedes(page.next, Position(j)')
    <3>1. CASE j = i
      BY <3>1, <1>1, <1>2, <1>5, <1>6, <2>1, <2>2
    <3>2. CASE j # i
      <4>1. hist[j] # <<>>
        BY <2>5, <3>2, <1>1
      <4>2. \/ Applied(j) \/ <<j, Len(hist[j])>> \in page.issues
            \/ /\ page.next = NoCursor => Latest(j).at >= page.max
               /\ page.next # NoCursor => Precedes(page.next, Position(j))
        BY <4>1 DEF PageFits
      <4> QED BY <3>2, <4>2, <1>1, <1>7
    <3> QED BY <3>1, <3>2
  <2> QED BY <2>2, <2>3, <2>4, <2>5, <1>3 DEF PageFits
<1> QED
  BY <1>8, <1>9

LEMMA LatestFits ==
  ASSUME TypeOK, HistoryFits, NEW i \in Issues
  PROVE  /\ Latest(i) \in [status : Nat, notes : Nat, deleted : BOOLEAN, at : Nat, by : Event]
         /\ Latest(i).status <= Len(hist[i]) /\ Latest(i).notes <= edits
         /\ item[i] = NoItem => Latest(i).notes = 0
         /\ hist[i] # <<>> => Latest(i).at <= clock
<1>1. CASE hist[i] = <<>>
  <2>1. Latest(i) = Untouched /\ Len(hist[i]) \in Nat /\ edits \in Nat
    BY <1>1, HistTyped DEF TypeOK
  <2>2. Len(hist[i]) >= 0 /\ edits >= 0
    BY <2>1
  <2> QED BY <1>1, <2>1, <2>2 DEF Untouched, None, Event
<1>2. CASE hist[i] # <<>>
  <2>1. VersionFits(i, Len(hist[i])) /\ Latest(i) = hist[i][Len(hist[i])] /\ Len(hist[i]) \in Versions(i)
    BY <1>2, HistTyped DEF HistoryFits
  <2>2. clock \in Nat
    BY DEF TypeOK
  <2> QED BY <2>1, <2>2, HistTyped DEF VersionFits, Version
<1> QED
  BY <1>1, <1>2

LEMMA ChangeAmends ==
  ASSUME IInv, NEW i \in Issues, ChangeIssue(i)
  PROVE  \E new : Amends(i, new) /\ new.by = None /\ new.notes \in {0, Latest(i).notes}
<1> USE DEF IInv
<1> DEFINE old == [Latest(i) EXCEPT !.by = None]
           n   == Len(hist[i])
<1>1. None \in Event
  BY DEF None, Event
<1>2. /\ old \in Version /\ old.by = None /\ old.status = Latest(i).status
      /\ old.notes = Latest(i).notes /\ old.deleted = Latest(i).deleted
  BY <1>1, LatestFits DEF Version
<1>3. n \in Nat /\ edits \in Nat /\ Latest(i).status \in Nat /\ Latest(i).notes \in Nat
      /\ Latest(i).status <= n /\ Latest(i).notes <= edits /\ (item[i] = NoItem => Latest(i).notes = 0)
  BY LatestFits, HistTyped DEF TypeOK
<1>4. UNCHANGED <<inbox, itemVars, edits, sync, page>>
  BY DEF ChangeIssue, pollVars
<1>5. PICK new : /\ Amend(i, new)
                 /\ new \in {[old EXCEPT !.status = n + 1], [old EXCEPT !.notes = 0], [old EXCEPT !.deleted = TRUE]}
  BY DEF ChangeIssue
<1>6. /\ new \in Version /\ new.by = None
      /\ new.status \in {Latest(i).status, n + 1} /\ new.notes \in {0, Latest(i).notes}
      /\ new.deleted \in {TRUE, Latest(i).deleted}
  <2> HIDE DEF old
  <2>1. n + 1 \in Nat /\ TRUE \in BOOLEAN
    BY <1>3
  <2>2. CASE new = [old EXCEPT !.status = n + 1]
    BY <1>2, <2>1, <2>2 DEF Version
  <2>3. CASE new = [old EXCEPT !.notes = 0]
    BY <1>2, <2>1, <2>3 DEF Version
  <2>4. CASE new = [old EXCEPT !.deleted = TRUE]
    BY <1>2, <2>1, <2>4 DEF Version
  <2> QED BY <1>5, <2>2, <2>3, <2>4
<1>7. Latest(i).status <= new.status /\ new.status <= n + 1
      /\ new.notes <= edits /\ (item[i] = NoItem => new.notes = 0)
  BY <1>3, <1>6
<1>8. Latest(i).deleted => new.deleted
  BY <1>6
<1> QED
  BY <1>4, <1>5, <1>6, <1>7, <1>8 DEF Amends

LEMMA AnswersAfter ==
  ASSUME TypeOK, NEW i \in Issues, NEW new \in Version, Amend(i, new), NEW d, d.issue \in Issues
  PROVE  /\ Answer(d) \subseteq Answer(d)'
         /\ d.issue # i \/ d # new.by => Answer(d)' = Answer(d)
         /\ d.issue = i /\ d = new.by => Len(hist[i]) + 1 \in Answer(d)'
<1>1. /\ Versions(i)' = Versions(i) \cup {Len(hist[i]) + 1}
      /\ \A v \in Versions(i) : hist'[i][v] = hist[i][v]
      /\ hist'[i][Len(hist[i]) + 1] = [new EXCEPT !.at = clock + 1]
      /\ \A j \in Issues \ {i} : hist'[j] = hist[j] /\ Versions(j)' = Versions(j)
  BY AmendEffect
<1>2. [new EXCEPT !.at = clock + 1].by = new.by
  BY DEF Version
<1>3. CASE d.issue # i
  <2>1. Answer(d)' = Answer(d)
    BY <1>1, <1>3 DEF Answer
  <2> QED BY <1>3, <2>1
<1>4. CASE d.issue = i
  <2>1. Answer(d)' = {v \in Versions(i)' : hist'[i][v].by = d}
    BY <1>4 DEF Answer
  <2>2. Answer(d) = {v \in Versions(i) : hist[i][v].by = d}
    BY <1>4 DEF Answer
  <2>3. Answer(d)' = Answer(d) \cup {v \in {Len(hist[i]) + 1} : new.by = d}
    BY <1>1, <1>2, <2>1, <2>2
  <2> QED BY <1>4, <2>3
<1> QED
  BY <1>3, <1>4

LEMMA EventTyped ==
  ASSUME TypeOK, NEW e \in events, EventFits(e)
  PROVE  /\ e \in Event /\ e.n \in Nat /\ e.notes \in Nat /\ e.issue \in Issues /\ e.issue \in Nat
         /\ e # None /\ (Own(e) <=> e.by # "user")
<1>1. e \in Event
  BY DEF TypeOK
<1>2. None.by = "nobody"
  BY DEF None
<1> QED
  BY <1>1, <1>2, IssuesAssumption DEF Event, EventFits, Own

\* A change made in the tracker leaves pushes and edits alone.
LEMMA ChangeNotes ==
  ASSUME IInv, NEW i \in Issues, ChangeIssue(i)
  PROVE  EventsFit' /\ PushesAreEdits' /\ EchoesFit' /\ NotesFit'
<1> USE DEF IInv
<1>1. PICK new : Amends(i, new) /\ new.by = None /\ new.notes \in {0, Latest(i).notes}
  BY ChangeAmends
<1> DEFINE n == Len(hist[i])
           x == [new EXCEPT !.at = clock + 1]
<1>2. /\ n \in Nat /\ Versions(i)' = Versions(i) \cup {n + 1}
      /\ \A v \in Versions(i) : hist'[i][v] = hist[i][v]
      /\ hist'[i][n + 1] = x
      /\ \A j \in Issues \ {i} : hist'[j] = hist[j] /\ Versions(j)' = Versions(j)
  BY <1>1, AmendEffect DEF Amends
<1>3. x.by = None /\ x.notes = new.notes
  BY <1>1 DEF Amends, Version
<1> HIDE DEF x
<1>4. UNCHANGED <<events, edits, loader, pushed, derailed, item>>
  BY DEF ChangeIssue, loaderVars, itemVars
<1>5. \A e \in events : EventFits(e) /\ e # None /\ e.issue \in Issues
  BY EventTyped DEF EventsFit
<1>6. \A e \in events : Answer(e)' = Answer(e)
  BY <1>1, <1>5, AnswersAfter DEF Amends
<1>7. \A e : EventFits(e) => EventFits(e)'
  BY <1>4 DEF EventFits
<1>8. EventsFit'
  <2>1. \A e \in events' : EventFits(e)'
    BY <1>4, <1>7 DEF EventsFit
  <2>2. ASSUME NEW j \in Issues, NEW v \in Versions(j)', hist'[j][v].by # None
        PROVE  EventFits(hist[j][v].by)' /\ hist'[j][v] = hist[j][v] /\ hist[j][v].notes = hist[j][v].by.n
    <3>1. v \in Versions(j) /\ hist'[j][v] = hist[j][v]
      BY <2>2, <1>2, <1>3
    <3> QED BY <2>2, <3>1, <1>7 DEF EventsFit
  <2> QED BY <2>1, <2>2, <1>4 DEF EventsFit
<1>9. PushesAreEdits'
  <2> SUFFICES ASSUME NEW j \in Issues, NEW v \in Versions(j)', hist'[j][v].by # None
               PROVE  /\ hist'[j][v].by.by = "user" /\ hist'[j][v].by.issue = j
                      /\ \A w \in Versions(j)' : hist'[j][w].by = hist'[j][v].by => w = v
    BY DEF PushesAreEdits
  <2>1. v \in Versions(j) /\ hist'[j][v] = hist[j][v]
    BY <1>2, <1>3
  <2>2. \A w \in Versions(j)' : hist'[j][w].by = hist'[j][v].by => w \in Versions(j) /\ hist'[j][w] = hist[j][w]
    BY <1>2, <1>3
  <2> QED BY <2>1, <2>2 DEF PushesAreEdits
<1>10. EchoesFit'
  <2>1. \A j \in Issues : pushed[j] # 0 => pushed[j] \in Versions(j)' /\ hist'[j][pushed[j]].by # None
    BY <1>2 DEF EchoesFit
  <2>2. \A e \in loader.batch : Oldest(e)' = Oldest(e) /\ Answer(e)' = Answer(e)
    BY <1>4, <1>6 DEF Oldest, EventsFit
  <2> QED BY <2>1, <2>2, <1>4 DEF EchoesFit
<1>11. \A j \in Issues : Unpushed(j)' = Unpushed(j)
  BY <1>4, <1>6 DEF Unpushed
<1>12. ASSUME NEW j \in Issues \ derailed, item[j] # NoItem
       PROVE  NotesRise(j)' /\ NotesBehind(j)' /\ EditsQueued(j)' /\ NewestEdit(j)'
  <2>1. NotesRise(j) /\ NotesBehind(j) /\ EditsQueued(j) /\ NewestEdit(j)
    BY <1>12 DEF NotesFit
  <2>2. \A v \in Versions(j) : v \in Versions(j)' /\ hist'[j][v] = hist[j][v]
    BY <1>2
  <2>3. EditsQueued(j)'
    BY <2>1, <1>4, <1>11 DEF EditsQueued
  <2>4. NewestEdit(j)'
    BY <2>1, <2>2, <1>4, <1>11 DEF NewestEdit
  <2>5. CASE j # i
    <3>1. hist'[j] = hist[j] /\ Versions(j)' = Versions(j)
      BY <2>5, <1>2
    <3> QED BY <3>1, <2>1, <2>3, <2>4, <1>4, <1>11 DEF NotesRise, NotesBehind
  <2>6. CASE j = i
    <3>1. /\ \A v \in Versions(i) : v \in Nat /\ v <= n /\ hist[i][v].notes \in Nat
          /\ Latest(i).notes \in Nat
          /\ hist[i] # <<>> => Latest(i) = hist[i][n] /\ n \in Versions(i)
          /\ hist[i] = <<>> => Latest(i).notes = 0 /\ Versions(i) = {}
      BY HistTyped DEF Untouched
    <3>2. ASSUME NEW v \in Versions(i) PROVE x.notes = 0 \/ hist[i][v].notes <= x.notes
      <4>1. v = n \/ hist[i][n].notes = 0 \/ hist[i][v].notes <= hist[i][n].notes
        BY <2>1, <2>6, <3>1 DEF NotesRise
      <4> QED BY <4>1, <3>1, <1>1, <1>3
    <3>3. NotesRise(i)'
      <4>1. ASSUME NEW v \in Versions(i)', NEW w \in Versions(i)', v < w
            PROVE  hist'[i][w].notes = 0 \/ hist'[i][v].notes <= hist'[i][w].notes
        <5>1. v \in Versions(i) /\ hist'[i][v] = hist[i][v]
          BY <4>1, <1>2, <3>1
        <5>2. CASE w = n + 1
          BY <5>1, <5>2, <3>2, <1>2
        <5>3. CASE w \in Versions(i)
          BY <5>1, <5>3, <4>1, <2>1, <2>6, <1>2 DEF NotesRise
        <5> QED BY <5>2, <5>3, <1>2
      <4> QED BY <4>1 DEF NotesRise
    <3>4. x.notes <= item[i].notes
      <4>1. item[i].notes \in Nat
        BY <1>12, <2>6 DEF TypeOK, Item
      <4>2. CASE hist[i] # <<>>
        BY <4>1, <4>2, <3>1, <2>1, <2>6, <1>1, <1>3 DEF NotesBehind
      <4>3. CASE hist[i] = <<>>
        BY <4>1, <4>3, <3>1, <1>1, <1>3
      <4> QED BY <4>2, <4>3
    <3>5. ASSUME NEW e \in Unpushed(i) PROVE x.notes < e.n
      <4>1. e \in events /\ ~Own(e) /\ EventFits(e)
        BY <1>5 DEF Unpushed
      <4>2. e.n \in Nat /\ 0 < e.n
        <5>1. e.by = "user" /\ e.n \in Nat /\ edits \in Nat
          BY <4>1, EventTyped DEF TypeOK
        <5> QED BY <4>1, <5>1 DEF EventFits
      <4>3. CASE hist[i] # <<>>
        BY <4>2, <4>3, <3>1, <2>1, <2>6, <1>1, <1>3 DEF NotesBehind
      <4>4. CASE hist[i] = <<>>
        BY <4>2, <4>4, <3>1, <1>1, <1>3
      <4> QED BY <4>3, <4>4
    <3>6. NotesBehind(i)'
      BY <3>4, <3>5, <2>1, <2>6, <1>2, <1>4, <1>11 DEF NotesBehind
    <3> QED BY <2>6, <2>3, <2>4, <3>3, <3>6
  <2> QED BY <2>5, <2>6
<1>13. NotesFit'
  BY <1>4, <1>12 DEF NotesFit
<1> QED
  BY <1>8, <1>9, <1>10, <1>13

LEMMA AmendTyped ==
  ASSUME TypeOK, NEW i \in Issues, NEW new, Amends(i, new),
         UNCHANGED <<events, pushed, derailed>>, faults' \in Nat,
         loader' \in [pc : {"idle", "push", "record", "mark"}, batch : SUBSET Event, version : Nat]
  PROVE  TypeOK'
<1>1. /\ clock' \in Nat /\ hist' \in [Issues -> Seq(Version)]
      /\ Len(hist'[i]) = Len(hist[i]) + 1 /\ Len(hist[i]) \in Nat
      /\ \A j \in Issues \ {i} : hist'[j] = hist[j]
  BY AmendEffect DEF Amends
<1>2. inbox' = inbox /\ link' = link /\ item' = item /\ edits' = edits /\ sync' = sync /\ page' = page
  BY DEF Amends, itemVars
<1>3. ASSUME NEW j \in Issues, NEW v \in 1 .. MaxVersion
      PROVE  /\ inbox'[j][v].state \in {"none", "pending"} => inbox'[j][v].attempts < MaxAttempts
             /\ inbox'[j][v].state # "none" => v <= Len(hist'[j])
  <2>1. /\ inbox[j][v].state \in {"none", "pending"} => inbox[j][v].attempts < MaxAttempts
        /\ inbox[j][v].state # "none" => v <= Len(hist[j])
    BY DEF TypeOK
  <2>2. v \in Nat
    BY DEF MaxVersion
  <2>3. Len(hist[j]) \in Nat /\ Len(hist'[j]) \in {Len(hist[j]), Len(hist[j]) + 1}
    BY <1>1, HistTyped
  <2> QED BY <2>1, <2>2, <2>3, <1>2
<1> QED
  BY <1>1, <1>2, <1>3 DEF TypeOK

\* No two events of a batch are both the next one.
LEMMA OldestIsOne ==
  ASSUME TypeOK, EventsFit, NEW d \in loader.batch, NEW e \in loader.batch, Oldest(d), Oldest(e)
  PROVE  d = e
<1>1. /\ d \in events /\ e \in events /\ EventFits(d) /\ EventFits(e)
  BY DEF EventsFit
<1>2. /\ d \in Event /\ e \in Event /\ d.n \in Nat /\ e.n \in Nat /\ d.issue \in Nat /\ e.issue \in Nat
      /\ d.by \in {"user", "system"} /\ e.by \in {"user", "system"}
  BY <1>1, EventTyped DEF EventFits
<1>3. CASE d # e
  <2>1. Follows(d, e) /\ Follows(e, d)
    BY <1>3 DEF Oldest
  <2> QED BY <2>1, <1>2 DEF Follows
<1> QED
  BY <1>3

-----------------------------------------------------------------------------
(* A push.                                                                 *)

LEMMA PushAmends ==
  ASSUME IInv, NEW e \in loader.batch, Push(e), Answer(e) = {}
  PROVE  /\ e \in events /\ EventFits(e) /\ e.by = "user" /\ e.issue \in Issues
         /\ e.n \in Nat /\ e.notes = e.n /\ item[e.issue] # NoItem /\ e \in Unpushed(e.issue)
         /\ \E new : Amends(e.issue, new) /\ new.by = e /\ new.notes = e.n
<1> USE DEF IInv
<1>1. e \in events /\ EventFits(e) /\ ~Own(e)
  BY DEF Push, EventsFit
<1>2. /\ e \in Event /\ e.n \in Nat /\ e.notes \in Nat /\ e.issue \in Issues /\ e.by = "user"
  BY <1>1, EventTyped
<1>3. e.n \in 1 .. edits /\ e.notes = e.n /\ item[e.issue] # NoItem
  BY <1>1, <1>2 DEF EventFits
<1> DEFINE i == e.issue
           new == [Latest(i) EXCEPT !.notes = e.notes, !.by = e]
<1>4. /\ new \in Version /\ new.by = e /\ new.notes = e.n
      /\ new.status = Latest(i).status /\ new.deleted = Latest(i).deleted
  BY <1>2, <1>3, LatestFits DEF Version
<1>5. Amend(i, new)
  BY DEF Push
<1> HIDE DEF new
<1>6. Latest(i).status <= new.status /\ new.status <= Len(hist[i]) + 1
  BY <1>2, <1>4, LatestFits, HistTyped
<1>7. new.notes <= edits /\ (item[i] = NoItem => new.notes = 0)
  BY <1>3, <1>4
<1>8. UNCHANGED <<inbox, itemVars, edits, sync, page>>
  BY DEF Push, pollVars
<1>9. Latest(i).deleted => new.deleted
  BY <1>4
<1>10. Amends(i, new)
  BY <1>4, <1>5, <1>6, <1>7, <1>8, <1>9 DEF Amends
<1> QED
  BY <1>1, <1>2, <1>3, <1>4, <1>10 DEF Unpushed

LEMMA PushKeeps ==
  ASSUME IInv, NEW e \in loader.batch, Push(e), Answer(e) = {}
  PROVE  IInv'
<1> USE DEF IInv
<1> DEFINE i == e.issue
           n == Len(hist[i])
<1>1. /\ e \in events /\ EventFits(e) /\ e.by = "user" /\ i \in Issues
      /\ e.n \in Nat /\ e.notes = e.n /\ item[i] # NoItem /\ e \in Unpushed(i)
  BY PushAmends
<1>2. PICK new : Amends(i, new) /\ new.by = e /\ new.notes = e.n
  BY PushAmends
<1> DEFINE x == [new EXCEPT !.at = clock + 1]
<1> HIDE DEF i
<1>3. /\ n \in Nat /\ Len(hist'[i]) = n + 1 /\ Versions(i)' = Versions(i) \cup {n + 1}
      /\ hist' \in [Issues -> Seq(Version)]
      /\ \A v \in Versions(i) : hist'[i][v] = hist[i][v]
      /\ hist'[i][n + 1] = x
      /\ \A j \in Issues \ {i} : hist'[j] = hist[j] /\ Versions(j)' = Versions(j)
  BY <1>1, <1>2, AmendEffect DEF Amends
<1>4. x.by = e /\ x.notes = e.n
  BY <1>2 DEF Amends, Version
<1> HIDE DEF x
<1>5. /\ UNCHANGED <<events, edits, pushed, derailed, item>> /\ loader.pc = "push" /\ Oldest(e)
      /\ loader'.batch = loader.batch
  BY DEF Push, itemVars, TypeOK
<1>6. \A d \in events : d \in Event /\ EventFits(d) /\ d # None /\ d.issue \in Issues /\ d.n \in Nat
  BY EventTyped DEF EventsFit
<1>7. /\ \A d \in events : Answer(d) \subseteq Answer(d)'
      /\ \A d \in events \ {e} : Answer(d)' = Answer(d)
      /\ n + 1 \in Answer(e)'
  BY <1>1, <1>2, <1>6, AnswersAfter DEF Amends, i
<1>8. \A d : EventFits(d) => EventFits(d)'
  BY <1>5 DEF EventFits
<1>9. loader' = loader \/ (loader'.pc = "record" /\ loader'.batch = loader.batch /\ loader'.version \in Answer(e)')
  <2>1. CASE loader' = loader
    BY <2>1
  <2>2. CASE loader' = [loader EXCEPT !.pc = "record",
                          !.version = CHOOSE v \in 1 .. Len(hist'[i]) : hist'[i][v].by = e]
    <3> DEFINE w == CHOOSE v \in 1 .. Len(hist'[i]) : hist'[i][v].by = e
    <3>1. n + 1 \in 1 .. Len(hist'[i]) /\ hist'[i][n + 1].by = e
      BY <1>3, <1>4
    <3>2. w \in 1 .. Len(hist'[i]) /\ hist'[i][w].by = e
      BY <3>1
    <3>3. w \in Answer(e)'
      BY <3>2 DEF Answer, Versions, i
    <3> HIDE DEF w
    <3>4. loader'.pc = "record" /\ loader'.version = w
      BY <2>2, <1>5 DEF TypeOK, w
    <3> QED BY <3>3, <3>4, <1>5
  <2> QED BY <2>1, <2>2 DEF Push, i
<1>10. TypeOK'
  <2>1. Answer(e)' \subseteq Nat
    BY <1>1, <1>3 DEF Answer, Versions, i
  <2>2. loader' \in [pc : {"idle", "push", "record", "mark"}, batch : SUBSET Event, version : Nat]
    <3>1. CASE loader' = loader
      BY <3>1 DEF TypeOK
    <3>2. CASE loader' # loader
      <4>1. loader' = [loader EXCEPT !.pc = "record",
                         !.version = CHOOSE v \in 1 .. Len(hist'[i]) : hist'[i][v].by = e]
        BY <3>2 DEF Push, i
      <4>2. loader'.version \in Nat
        BY <3>2, <1>9, <2>1
      <4>3. loader' = [loader EXCEPT !.pc = "record", !.version = loader'.version]
        BY <4>1 DEF TypeOK
      <4> QED BY <4>2, <4>3 DEF TypeOK
    <3> QED BY <3>1, <3>2
  <2>3. faults' \in Nat
    BY DEF Push, TypeOK
  <2> QED BY <1>1, <1>2, <1>5, <2>2, <2>3, AmendTyped
<1>11. HistoryFits' /\ LinksFit' /\ ProcessedIsApplied' /\ SyncFits' /\ PageFits'
  BY <1>1, <1>2, AmendHistory, AmendLinks, AmendPolls
<1>12. EventsFit'
  <2>1. \A d \in events' : EventFits(d)'
    BY <1>5, <1>8 DEF EventsFit
  <2>2. ASSUME NEW j \in Issues, NEW v \in Versions(j)', hist'[j][v].by # None
        PROVE  EventFits(hist[j][v].by)' /\ hist'[j][v].notes = hist'[j][v].by.n
    <3>1. CASE v \in Versions(j) /\ hist'[j][v] = hist[j][v]
      BY <2>2, <3>1, <1>8 DEF EventsFit
    <3>2. CASE j = i /\ v = n + 1
      BY <3>2, <1>1, <1>3, <1>4, <1>8
    <3> QED BY <3>1, <3>2, <1>3
  <2> QED BY <2>1, <2>2, <1>5 DEF EventsFit
<1>13. PushesAreEdits'
  <2>1. \A j \in Issues : \A v \in Versions(j) : hist[j][v].by # None => hist[j][v].by.issue = j
    BY DEF PushesAreEdits
  <2>2. \A j \in Issues : \A v \in Versions(j) : hist[j][v].by # e
    BY <1>1, <1>6, <2>1 DEF Answer, Unpushed
  <2>3. ASSUME NEW j \in Issues, NEW v \in Versions(j)', hist'[j][v].by # None
        PROVE  /\ hist'[j][v].by.by = "user" /\ hist'[j][v].by.issue = j
               /\ \A w \in Versions(j)' : hist'[j][w].by = hist'[j][v].by => w = v
    <3>1. CASE v \in Versions(j) /\ hist'[j][v] = hist[j][v]
      <4>1. \A w \in Versions(j)' : hist'[j][w].by = hist'[j][v].by => w \in Versions(j) /\ hist'[j][w] = hist[j][w]
        BY <3>1, <1>3, <1>4, <2>2
      <4> QED BY <2>3, <3>1, <4>1 DEF PushesAreEdits
    <3>2. CASE j = i /\ v = n + 1
      <4>1. \A w \in Versions(i)' : hist'[i][w].by = e => w = n + 1
        BY <1>1, <1>3, <2>2
      <4> QED BY <3>2, <4>1, <1>1, <1>3, <1>4 DEF i
    <3> QED BY <3>1, <3>2, <1>3
  <2> QED BY <2>3 DEF PushesAreEdits
<1>14. EchoesFit'
  <2>1. \A j \in Issues : pushed[j] # 0 => pushed[j] \in Versions(j)' /\ hist'[j][pushed[j]].by # None
    BY <1>1, <1>3 DEF EchoesFit
  <2>2. CASE loader' = loader
    BY <2>1, <2>2, <1>5 DEF EchoesFit
  <2>3. CASE loader'.pc = "record" /\ loader'.version \in Answer(e)'
    <3>1. \A d \in loader.batch : Oldest(d)' => d = e
      BY <1>5, OldestIsOne DEF Oldest
    <3> QED BY <2>1, <2>3, <3>1, <1>1, <1>5 DEF EchoesFit, Own
  <2> QED BY <2>2, <2>3, <1>9
<1>15. \A j \in Issues : Unpushed(j)' \subseteq Unpushed(j) \ {e} /\ Unpushed(j) \subseteq Unpushed(j)' \cup {e}
  BY <1>1, <1>5, <1>7 DEF Unpushed
<1>16. NotesFit'
  <2> SUFFICES ASSUME NEW j \in Issues \ derailed, item[j] # NoItem
               PROVE  NotesRise(j)' /\ NotesBehind(j)' /\ EditsQueued(j)' /\ NewestEdit(j)'
    BY <1>5 DEF NotesFit
  <2>1. NotesRise(j) /\ NotesBehind(j) /\ EditsQueued(j) /\ NewestEdit(j)
    BY DEF NotesFit
  <2>2. EditsQueued(j)'
    BY <2>1, <1>5, <1>15 DEF EditsQueued, Own
  <2>3. CASE j # i
    <3>1. hist'[j] = hist[j] /\ Versions(j)' = Versions(j) /\ e \notin Unpushed(j)
      BY <2>3, <1>3 DEF Unpushed, i
    <3>2. NotesRise(j)' /\ NotesBehind(j)' /\ NewestEdit(j)'
      BY <3>1, <2>1, <1>5, <1>15 DEF NotesRise, NotesBehind, NewestEdit
    <3> QED BY <2>2, <3>2
  <2>4. CASE j = i
    <3>1. \A v \in Versions(i) : v \in Nat /\ v <= n /\ hist[i][v].notes \in Nat /\ hist[i][v].notes < e.n
      BY <2>1, <2>4, <1>1, HistTyped DEF NotesBehind
    <3>2. NotesRise(i)'
      <4>1. ASSUME NEW v \in Versions(i)', NEW w \in Versions(i)', v < w
            PROVE  hist'[i][w].notes = 0 \/ hist'[i][v].notes <= hist'[i][w].notes
        <5>1. v \in Versions(i) /\ hist'[i][v] = hist[i][v]
          BY <4>1, <1>3, <3>1
        <5>2. CASE w = n + 1
          <6>1. hist[i][v].notes \in Nat /\ hist[i][v].notes < e.n
            BY <5>1, <3>1
          <6>2. hist'[i][w].notes = e.n
            BY <5>2, <1>3, <1>4
          <6> QED BY <5>1, <6>1, <6>2, <1>1
        <5>3. CASE w \in Versions(i)
          BY <5>1, <5>3, <4>1, <2>1, <2>4, <1>3 DEF NotesRise
        <5> QED BY <5>2, <5>3, <1>3
      <4> QED BY <4>1 DEF NotesRise
    <3>3. e.n <= item[i].notes
      BY <2>1, <2>4, <1>1 DEF EditsQueued
    <3>4. ASSUME NEW d \in Unpushed(i), d # e PROVE e.n < d.n
      <4>1. d \in events /\ d.issue = i /\ d.by = "user" /\ d.n \in Nat /\ d.issue \in Nat
        BY <1>6, EventTyped DEF Unpushed
      <4>2. CASE d \in loader.batch
        BY <4>1, <4>2, <3>4, <1>1, <1>5 DEF Oldest, Follows, i
      <4>3. CASE d \notin loader.batch
        BY <4>3, <3>4, <2>1, <2>4, <1>1 DEF EditsQueued, Own, i
      <4> QED BY <4>2, <4>3
    <3>5. NotesBehind(i)'
      <4>1. ASSUME NEW v \in Versions(i)'
            PROVE  hist'[i][v].notes <= item[i].notes /\ \A d \in Unpushed(i)' : hist'[i][v].notes < d.n
        <5>1. CASE v = n + 1
          BY <5>1, <3>3, <3>4, <1>3, <1>4, <1>15, <1>1
        <5>2. CASE v \in Versions(i)
          BY <5>2, <2>1, <2>4, <1>3, <1>15, <1>1 DEF NotesBehind
        <5> QED BY <5>1, <5>2, <1>3
      <4> QED BY <4>1, <1>5 DEF NotesBehind
    <3>6. NewestEdit(i)'
      <4>1. CASE item[i].notes = 0
        BY <4>1, <1>5 DEF NewestEdit
      <4>2. CASE \E d \in Unpushed(i) : d.n = item[i].notes
        <5>1. PICK d \in Unpushed(i) : d.n = item[i].notes
          BY <4>2
        <5>2. CASE d = e
          <6>1. n + 1 \in Versions(i)' /\ hist'[i][n + 1].notes = item[i].notes
            BY <5>1, <5>2, <1>3, <1>4
          <6> QED BY <6>1, <1>5 DEF NewestEdit
        <5>3. CASE d # e
          BY <5>1, <5>3, <1>5, <1>15, <1>1 DEF NewestEdit
        <5> QED BY <5>2, <5>3
      <4>3. CASE \E v \in Versions(i) : hist[i][v].notes = item[i].notes
        BY <4>3, <1>3, <1>5 DEF NewestEdit
      <4> QED BY <4>1, <4>2, <4>3, <2>1, <2>4 DEF NewestEdit
    <3> QED BY <2>2, <2>4, <3>2, <3>5, <3>6
  <2> QED BY <2>3, <2>4
<1> QED
  BY <1>10, <1>11, <1>12, <1>13, <1>14, <1>16

-----------------------------------------------------------------------------
(* The other steps of the loader.                                          *)

\* A step of the loader that makes no version: what leaves the events was pushed or
\* given up, and what it leaves for the next batch is newer than the rest of this one.
LEMMA LoaderKeeps ==
  ASSUME IInv, UNCHANGED <<trackerVars, inbox, itemVars, edits, pollVars>>, TypeOK', EchoesFit',
         events' \subseteq events, loader'.batch \subseteq events', derailed \subseteq derailed',
         \A e \in events \ events' : Own(e) \/ Answer(e) # {} \/ e.issue \in derailed',
         \A e \in events' \ loader'.batch : \A d \in loader'.batch :
           \/ e \in events \ loader.batch /\ d \in loader.batch
           \/ Own(e) \/ Answer(e) # {} \/ e.issue \in derailed'
  PROVE  IInv'
<1> USE DEF IInv
<1>1. UNCHANGED <<hist, clock, inbox, link, item, edits, sync, page>>
  BY DEF trackerVars, itemVars, pollVars
<1>2. HistoryFits' /\ LinksFit' /\ PushesAreEdits' /\ ProcessedIsApplied' /\ SyncFits' /\ PageFits'
  <2>1. HistoryFits'
    BY <1>1 DEF HistoryFits, VersionFits, Advances, Versions, Latest
  <2>2. LinksFit' /\ PushesAreEdits' /\ ProcessedIsApplied'
    BY <1>1 DEF LinksFit, PushesAreEdits, ProcessedIsApplied, Versions
  <2>3. SyncFits' /\ PageFits'
    BY <1>1 DEF SyncFits, PageFits, Applied, Versions, Latest, Position
  <2> QED BY <2>1, <2>2, <2>3
<1>3. EventsFit'
  BY <1>1 DEF EventsFit, EventFits, Versions
<1>4. \A e : Answer(e)' = Answer(e)
  BY <1>1 DEF Answer, Versions
<1>5. \A i \in Issues : Unpushed(i)' = Unpushed(i) \cap events'
  BY <1>4 DEF Unpushed
<1>6. NotesFit'
  <2> SUFFICES ASSUME NEW i \in Issues \ derailed', item[i] # NoItem
               PROVE  NotesRise(i)' /\ NotesBehind(i)' /\ EditsQueued(i)' /\ NewestEdit(i)'
    BY <1>1 DEF NotesFit
  <2>1. NotesRise(i) /\ NotesBehind(i) /\ EditsQueued(i) /\ NewestEdit(i)
    BY DEF NotesFit
  <2>2. Unpushed(i)' = Unpushed(i)
    BY <1>5 DEF Unpushed
  <2>3. NotesRise(i)' /\ NotesBehind(i)' /\ NewestEdit(i)'
    BY <2>1, <2>2, <1>1 DEF NotesRise, NotesBehind, NewestEdit, Versions
  <2>4. EditsQueued(i)'
    <3>1. ASSUME NEW e \in Unpushed(i)' \ loader'.batch, NEW d \in loader'.batch, d.issue = i, ~Own(d)
          PROVE  d.n < e.n
      <4>1. e \in Unpushed(i) /\ e \in events' \ loader'.batch
        BY <3>1, <1>5
      <4>2. ~Own(e) /\ Answer(e) = {} /\ e.issue \notin derailed'
        BY <4>1 DEF Unpushed
      <4>3. e \in events \ loader.batch /\ d \in loader.batch
        BY <4>1, <4>2
      <4> QED BY <3>1, <4>1, <4>3, <2>1 DEF EditsQueued
    <3>2. \A e \in Unpushed(i) : e.n <= item[i].notes
      BY <2>1 DEF EditsQueued
    <3> QED BY <3>1, <3>2, <2>2, <1>1 DEF EditsQueued, Own
  <2> QED BY <2>3, <2>4
<1> QED
  BY <1>2, <1>3, <1>6

LEMMA LoadKeeps ==
  ASSUME IInv, Load
  PROVE  IInv'
<1> USE DEF IInv
<1>1. /\ loader.batch \subseteq events /\ events \subseteq Event /\ loader.batch \subseteq Event
      /\ loader.pc \in {"idle", "push", "record", "mark"} /\ loader.version \in Nat
      /\ loader = [pc |-> loader.pc, batch |-> loader.batch, version |-> loader.version]
      /\ faults \in Nat /\ derailed \subseteq Issues
  BY DEF EventsFit, TypeOK
<1>2. \A e \in events : e \in Event /\ e.issue \in Issues
  BY EventTyped DEF EventsFit
<1>3. \A i \in Issues : pushed[i] # 0 => pushed[i] \in Versions(i) /\ hist[i][pushed[i]].by # None
  BY DEF EchoesFit
\* A step to no event, or to the next one, leaves nothing to be remembered.
<1>4. ASSUME UNCHANGED <<trackerVars, pushed>>, loader'.pc \in {"idle", "push"}
      PROVE  EchoesFit'
  BY <1>3, <1>4 DEF EchoesFit, trackerVars, Versions
<1>5. ASSUME NEW e \in loader.batch
      PROVE  /\ Pass(e, "push").pc \in {"idle", "push"} /\ Pass(e, "push").batch = loader.batch \ {e}
             /\ Pass(e, "push").version = 0
             /\ Pass(e, "push") \in [pc : {"idle", "push", "record", "mark"}, batch : SUBSET Event, version : Nat]
  <2>1. PICK pc \in {"idle", "push"} :
          Pass(e, "push") = [loader EXCEPT !.pc = pc, !.batch = @ \ {e}, !.version = 0]
    BY DEF Pass
  <2>2. Pass(e, "push") = [pc |-> pc, batch |-> loader.batch \ {e}, version |-> 0]
    BY <1>1, <2>1
  <2>3. loader.batch \ {e} \in SUBSET Event
    BY <1>1
  <2> QED BY <2>2, <2>3
<1>6. CASE LoadBatch
  <2>1. loader'.batch = events /\ loader'.pc = "push" /\ UNCHANGED <<events, pushed, derailed, faults>>
    BY <1>1, <1>6 DEF LoadBatch
  <2>2. TypeOK'
    BY <1>1, <1>6 DEF LoadBatch, TypeOK, trackerVars, itemVars, pollVars
  <2>3. EchoesFit'
    BY <1>4, <1>6, <2>1 DEF LoadBatch
  <2> QED BY <1>6, <2>1, <2>2, <2>3, LoaderKeeps DEF LoadBatch
<1>7. CASE StopLoader
  <2>1. loader'.batch = {} /\ loader'.pc = "idle" /\ UNCHANGED <<events, pushed, derailed>>
    BY <1>7 DEF StopLoader, Asleep
  <2>2. TypeOK'
    BY <1>1, <1>7 DEF StopLoader, Asleep, TypeOK, trackerVars, itemVars, pollVars
  <2>3. EchoesFit'
    BY <1>4, <1>7, <2>1 DEF StopLoader
  <2> QED BY <1>7, <2>1, <2>2, <2>3, LoaderKeeps DEF StopLoader
<1>8. ASSUME NEW e \in loader.batch, SkipOwn(e) PROVE IInv'
  <2>1. /\ loader'.batch = loader.batch \ {e} /\ loader'.pc \in {"idle", "push"}
        /\ UNCHANGED <<pushed, derailed>> /\ events' = events \ {e} /\ Own(e)
    BY <1>5, <1>8 DEF SkipOwn
  <2>2. TypeOK'
    BY <1>1, <1>5, <1>8 DEF SkipOwn, TypeOK, trackerVars, itemVars, pollVars
  <2>3. EchoesFit'
    BY <1>4, <1>8, <2>1 DEF SkipOwn
  <2>4. loader'.batch \subseteq events' /\ \A d \in events \ events' : d = e
    BY <1>1, <2>1
  <2>5. UNCHANGED <<trackerVars, inbox, itemVars, edits, pollVars>>
    BY <1>8 DEF SkipOwn
  <2>6. \A d \in events' \ loader'.batch : d \in events \ loader.batch
    BY <2>1
  <2>7. loader'.batch \subseteq loader.batch /\ events' \subseteq events
    BY <2>1
  <2> QED BY <2>1, <2>2, <2>3, <2>4, <2>5, <2>6, <2>7, LoaderKeeps
<1>9. ASSUME NEW e \in loader.batch, Push(e) PROVE IInv'
  <2>1. CASE Answer(e) = {}
    BY <1>9, <2>1, PushKeeps
  <2>2. CASE Answer(e) # {}
    <3>1. /\ UNCHANGED <<trackerVars, inbox, itemVars, edits, pollVars, events, pushed, derailed>>
          /\ loader.pc = "push" /\ Oldest(e) /\ ~Own(e) /\ faults' \in Nat
      BY <1>1, <1>9, <2>2 DEF Push
    <3>2. hist' = hist /\ (\A d : Answer(d)' = Answer(d)) /\ e.issue \in Issues
      BY <1>1, <1>2, <3>1 DEF trackerVars, Answer, Versions
    <3>3. CASE loader' = loader
      <4>1. TypeOK'
        BY <1>1, <3>1, <3>3 DEF TypeOK, trackerVars, itemVars, pollVars
      <4>2. EchoesFit'
        BY <1>4, <3>1, <3>3
      <4> QED BY <3>1, <3>3, <4>1, <4>2, <1>1, LoaderKeeps
    <3>4. CASE loader' # loader
      <4> DEFINE w == CHOOSE v \in 1 .. Len(hist'[e.issue]) : hist'[e.issue][v].by = e
      <4>1. loader' = [loader EXCEPT !.pc = "record", !.version = w]
        BY <1>9, <3>4 DEF Push
      <4>2. w \in Answer(e)
        <5>1. \E v \in 1 .. Len(hist'[e.issue]) : hist'[e.issue][v].by = e
          BY <2>2, <3>2 DEF Answer, Versions
        <5> QED BY <5>1, <3>2 DEF Answer, Versions
      <4>3. w \in Nat
        BY <4>2, <3>2, HistTyped DEF Answer
      <4> HIDE DEF w
      <4>4. loader'.pc = "record" /\ loader'.batch = loader.batch /\ loader'.version = w
        BY <1>1, <4>1
      <4>5. loader' \in [pc : {"idle", "push", "record", "mark"}, batch : SUBSET Event, version : Nat]
        BY <1>1, <4>1, <4>3
      <4>6. TypeOK'
        BY <3>1, <4>5 DEF TypeOK, trackerVars, itemVars, pollVars
      <4>7. \A d \in loader.batch : Oldest(d)' => d = e
        BY <3>1, <4>4, OldestIsOne DEF Oldest
      <4>8. EchoesFit'
        <5>1. \A i \in Issues : pushed'[i] # 0 => pushed'[i] \in Versions(i)' /\ hist'[i][pushed'[i]].by # None
          BY <1>3, <3>1, <3>2 DEF Versions
        <5>2. ASSUME NEW d \in loader'.batch, Oldest(d)'
              PROVE  ~Own(d) /\ Answer(d)' # {} /\ loader'.version \in Answer(d)'
          BY <5>2, <4>2, <4>4, <4>7, <3>1, <3>2
        <5> QED BY <5>1, <5>2, <4>4 DEF EchoesFit, Own
      <4>9. loader'.batch \subseteq events' /\ events' = events
        BY <1>1, <3>1, <4>4
      <4> QED BY <3>1, <4>4, <4>6, <4>8, <4>9, LoaderKeeps
    <3> QED BY <3>3, <3>4
  <2> QED BY <2>1, <2>2
<1>10. ASSUME NEW e \in loader.batch, RecordPush(e) PROVE IInv'
  <2>1. /\ UNCHANGED <<trackerVars, inbox, itemVars, edits, pollVars, events, derailed, faults>>
        /\ loader.pc = "record" /\ Oldest(e) /\ loader' = [loader EXCEPT !.pc = "mark"]
        /\ pushed' = [pushed EXCEPT ![e.issue] = Remembered(e.issue, loader.version)]
    BY <1>10 DEF RecordPush
  <2>2. loader'.pc = "mark" /\ loader'.batch = loader.batch /\ e.issue \in Issues
    BY <1>1, <1>2, <2>1
  <2>3. hist' = hist /\ (\A d : Answer(d)' = Answer(d)) /\ (\A d : Oldest(d)' = Oldest(d))
    BY <2>1, <2>2 DEF trackerVars, Answer, Versions, Oldest
  <2>4. ~Own(e) /\ Answer(e) # {} /\ loader.version \in Answer(e)
    BY <2>1 DEF EchoesFit
  <2>5. loader.version \in Versions(e.issue) /\ hist[e.issue][loader.version].by = e /\ e # None
    BY <1>1, <2>4, EventTyped DEF Answer, EventsFit
  <2>6. TypeOK'
    <3>1. Remembered(e.issue, loader.version) \in Nat
      BY <1>1, <2>2 DEF Remembered, TypeOK
    <3>2. loader' \in [pc : {"idle", "push", "record", "mark"}, batch : SUBSET Event, version : Nat]
      BY <1>1, <2>1
    <3>3. pushed' \in [Issues -> Nat]
      BY <2>1, <3>1 DEF TypeOK
    <3> QED BY <1>1, <2>1, <3>2, <3>3 DEF TypeOK, trackerVars, itemVars, pollVars
  <2>7. EchoesFit'
    <3>1. ASSUME NEW i \in Issues, pushed'[i] # 0
          PROVE  pushed'[i] \in Versions(i)' /\ hist'[i][pushed'[i]].by # None
      <4>1. pushed'[i] = pushed[i] \/ (i = e.issue /\ pushed'[i] = loader.version)
        BY <2>1, <2>2 DEF Remembered, TypeOK
      <4> QED BY <1>3, <2>3, <2>5, <3>1, <4>1 DEF Versions
    <3>2. ASSUME NEW d \in loader.batch, Oldest(d) PROVE ~Own(d) /\ Answer(d) # {}
      BY <2>1, <3>2 DEF EchoesFit
    <3> QED BY <2>2, <2>3, <3>1, <3>2 DEF EchoesFit, Own
  <2>8. loader'.batch \subseteq events' /\ events' = events /\ derailed' = derailed
    BY <1>1, <2>1, <2>2
  <2> QED BY <2>1, <2>2, <2>6, <2>7, <2>8, LoaderKeeps
<1>11. ASSUME NEW e \in loader.batch, MarkEvent(e) PROVE IInv'
  <2>1. /\ loader.pc = "mark" /\ Oldest(e) /\ loader'.batch = loader.batch \ {e}
        /\ loader'.pc \in {"idle", "push"}
        /\ UNCHANGED <<pushed, derailed>> /\ events' = events \ {e}
        /\ UNCHANGED <<trackerVars, inbox, itemVars, edits, pollVars>>
    BY <1>5, <1>11 DEF MarkEvent
  <2>2. TypeOK'
    BY <1>1, <1>5, <1>11 DEF MarkEvent, TypeOK, trackerVars, itemVars, pollVars
  <2>3. EchoesFit'
    BY <1>4, <2>1
  <2>4. Answer(e) # {} \/ e.issue \in derailed
    BY <2>1 DEF EchoesFit
  <2>5. loader'.batch \subseteq events' /\ \A d \in events \ events' : d = e
    BY <1>1, <2>1
  <2>6. \A d \in events' \ loader'.batch : d \in events \ loader.batch
    BY <2>1
  <2>7. loader'.batch \subseteq loader.batch /\ events' \subseteq events
    BY <2>1
  <2> QED BY <2>1, <2>2, <2>3, <2>4, <2>5, <2>6, <2>7, LoaderKeeps
<1>12. ASSUME NEW e \in loader.batch, DeadLetter(e) PROVE IInv'
  <2>1. /\ UNCHANGED <<trackerVars, inbox, itemVars, edits, pollVars, events, pushed>>
        /\ Oldest(e) /\ ~Own(e) /\ loader' = [loader EXCEPT !.pc = "mark"]
        /\ derailed' = derailed \cup {e.issue} /\ faults' \in Nat
    BY <1>1, <1>12 DEF DeadLetter
  <2>2. loader'.pc = "mark" /\ loader'.batch = loader.batch /\ e.issue \in Issues
    BY <1>1, <1>2, <2>1
  <2>3. TypeOK'
    <3>1. loader' \in [pc : {"idle", "push", "record", "mark"}, batch : SUBSET Event, version : Nat]
      BY <1>1, <2>1
    <3>2. derailed' \subseteq Issues
      BY <1>1, <2>1, <2>2
    <3> QED BY <2>1, <3>1, <3>2 DEF TypeOK, trackerVars, itemVars, pollVars
  <2>4. EchoesFit'
    <3>1. \A i \in Issues : pushed'[i] # 0 => pushed'[i] \in Versions(i)' /\ hist'[i][pushed'[i]].by # None
      BY <1>3, <2>1 DEF trackerVars, Versions
    <3>2. \A d \in loader.batch : Oldest(d)' => d = e
      BY <2>1, <2>2, OldestIsOne DEF Oldest
    <3> QED BY <2>1, <2>2, <3>1, <3>2 DEF EchoesFit, Own
  <2>5. loader'.batch \subseteq events' /\ events' = events /\ derailed \subseteq derailed'
    BY <1>1, <2>1, <2>2
  <2> QED BY <2>1, <2>2, <2>3, <2>4, <2>5, LoaderKeeps
<1>13. ASSUME NEW e \in loader.batch, LeaveEvent(e) PROVE IInv'
  <2>1. /\ UNCHANGED <<trackerVars, inbox, itemVars, edits, pollVars, events, pushed>>
        /\ loader'.batch = loader.batch \ {e} /\ loader'.pc \in {"idle", "push"}
        /\ derailed' = IF Answer(e) = {} THEN derailed \cup {e.issue} ELSE derailed
    BY <1>5, <1>13 DEF LeaveEvent
  <2>2. TypeOK'
    <3>1. loader' \in [pc : {"idle", "push", "record", "mark"}, batch : SUBSET Event, version : Nat]
      BY <1>5, <1>13 DEF LeaveEvent
    <3>2. derailed' \subseteq Issues
      BY <1>1, <1>2, <2>1
    <3>3. faults' \in Nat
      BY <1>1, <1>13 DEF LeaveEvent
    <3> QED BY <2>1, <3>1, <3>2, <3>3 DEF TypeOK, trackerVars, itemVars, pollVars
  <2>3. EchoesFit'
    BY <1>4, <2>1
  <2>4. Answer(e) # {} \/ e.issue \in derailed'
    BY <2>1
  <2>5. \A d \in events' \ loader'.batch : d \in events \ loader.batch \/ d = e
    BY <2>1
  <2>6. loader'.batch \subseteq loader.batch /\ events' = events /\ derailed \subseteq derailed'
        /\ loader'.batch \subseteq events'
    BY <1>1, <2>1
  <2> QED BY <2>1, <2>2, <2>3, <2>4, <2>5, <2>6, LoaderKeeps
<1> QED
  BY <1>6, <1>7, <1>8, <1>9, <1>10, <1>11, <1>12, <1>13 DEF Load

-----------------------------------------------------------------------------
(* Applying versions.                                                      *)

LEMMA ApplyKeeps ==
  ASSUME IInv, NEW P, Applicable(P), ApplyAll(P), UNCHANGED <<trackerVars, edits, loaderVars>>
  PROVE  /\ HistoryFits' /\ LinksFit' /\ EventsFit' /\ EchoesFit' /\ NotesFit' /\ PushesAreEdits'
         /\ link' \in [Issues -> Nat] /\ item' \in [Issues -> Item \cup {NoItem}] /\ events' \subseteq Event
         /\ \A i \in Issues : link[i] <= link'[i] /\ link'[i] <= Len(hist[i])
         /\ \A p \in P : p[2] <= link'[p[1]]
         /\ \A i \in Issues : item[i] # NoItem => /\ item'[i] # NoItem
                                                  /\ item'[i].status >= item[i].status
                                                  /\ item[i].deleted => item'[i].deleted
<1> USE DEF IInv
<1>1. UNCHANGED <<hist, clock, edits, loader, pushed, derailed>>
  BY DEF trackerVars, loaderVars
<1>2. /\ link' \in [Issues -> Nat] /\ item' \in [Issues -> Item \cup {NoItem}]
      /\ events \subseteq events'
      /\ \A e \in events' \ events : e \in Event /\ e.by = "system" /\ e.issue \in Issues
  BY ApplyEffect
<1>3. ASSUME NEW i \in Issues
      PROVE  \/ /\ link'[i] = link[i] /\ item'[i] = item[i]
                /\ \A v \in Versions(i) : <<i, v>> \in P => v <= link[i]
             \/ \E v \in Versions(i) : /\ <<i, v>> \in P /\ v > link[i]
                                      /\ link'[i] = v /\ item'[i] = Merged(i, v)
  BY ApplyEffect
<1>4. ASSUME NEW i \in Issues
      PROVE  /\ link[i] \in 0 .. Len(hist[i]) /\ link[i] \in Nat
             /\ item[i] = NoItem <=> link[i] = 0
             /\ item[i] # NoItem => /\ item[i].status = hist[i][link[i]].status
                                    /\ item[i].deleted = hist[i][link[i]].deleted
                                    /\ item[i].notes <= edits /\ link[i] \in Versions(i)
             /\ Versions(i) = 1 .. Len(hist[i]) /\ Len(hist[i]) \in Nat
  BY HistTyped DEF LinksFit
\* What a version that passes the gate does to an item.
<1>5. ASSUME NEW i \in Issues, NEW v \in Versions(i), v > link[i], item'[i] = Merged(i, v)
      PROVE  /\ item'[i] # NoItem
             /\ item'[i].status = hist[i][v].status /\ item'[i].deleted = hist[i][v].deleted
             /\ item'[i].notes <= edits
             /\ item[i] # NoItem => /\ item'[i].notes = item[i].notes
                                    /\ item'[i].status >= item[i].status
                                    /\ item[i].deleted => item'[i].deleted
             /\ item[i] = NoItem => item'[i].notes = 0
  <2>1. /\ Merged(i, v) \in Item
        /\ item'[i].status = hist[i][v].status /\ item'[i].deleted = hist[i][v].deleted
        /\ item[i] = NoItem => item'[i].notes = hist[i][v].notes
        /\ item[i] # NoItem => item'[i].notes = item[i].notes
    BY <1>5, MergedTyped
  <2>2. item'[i] # NoItem
    BY <1>5, <2>1, NullsAssumption DEF Item
  <2>3. VersionFits(i, v)
    BY DEF HistoryFits
  <2>4. item[i] = NoItem => item'[i].notes = 0
    BY <2>1, <2>3 DEF VersionFits
  <2>5. item'[i].notes <= edits
    BY <2>1, <2>3, <1>4 DEF VersionFits
  <2>6. item[i] # NoItem => Advances(i, link[i], v)
    BY <1>4, <1>5 DEF HistoryFits
  <2>7. item[i] # NoItem => hist[i][link[i]].status \in Nat /\ hist[i][v].status \in Nat
    BY <1>4, HistTyped
  <2>8. item[i] # NoItem => item'[i].status >= item[i].status
    BY <2>1, <2>6, <2>7, <1>4 DEF Advances
  <2>9. item[i] # NoItem => (item[i].deleted => item'[i].deleted)
    BY <2>1, <2>6, <1>4 DEF Advances
  <2> QED BY <2>1, <2>2, <2>4, <2>5, <2>8, <2>9
<1>6. ASSUME NEW i \in Issues
      PROVE  /\ link[i] <= link'[i] /\ link'[i] <= Len(hist[i])
             /\ item'[i] = NoItem <=> link'[i] = 0
             /\ item[i] # NoItem => item'[i] # NoItem
             /\ \A v \in Versions(i) : <<i, v>> \in P => v <= link'[i]
  <2>1. CASE /\ link'[i] = link[i] /\ item'[i] = item[i]
             /\ \A v \in Versions(i) : <<i, v>> \in P => v <= link[i]
    BY <2>1, <1>4
  <2>2. CASE \E v \in Versions(i) : <<i, v>> \in P /\ v > link[i] /\ link'[i] = v /\ item'[i] = Merged(i, v)
    <3>1. PICK v \in Versions(i) : <<i, v>> \in P /\ v > link[i] /\ link'[i] = v /\ item'[i] = Merged(i, v)
      BY <2>2
    <3>2. \A w \in Versions(i) : <<i, w>> \in P => w = v
      BY <3>1 DEF Applicable
    <3> QED BY <3>1, <3>2, <1>4, <1>5
  <2> QED BY <2>1, <2>2, <1>3
<1>7. HistoryFits'
  <2>1. ASSUME NEW i \in Issues, NEW v \in Versions(i) PROVE VersionFits(i, v)'
    <3>1. VersionFits(i, v)
      BY DEF HistoryFits
    <3> QED BY <3>1, <1>1, <1>6 DEF VersionFits
  <2> QED BY <2>1, <1>1 DEF HistoryFits, Versions, Advances, Latest
<1>8. LinksFit'
  <2> SUFFICES ASSUME NEW i \in Issues
               PROVE  /\ link'[i] \in 0 .. Len(hist[i])
                      /\ item'[i] = NoItem <=> link'[i] = 0
                      /\ item'[i] # NoItem => /\ item'[i].status = hist[i][link'[i]].status
                                              /\ item'[i].deleted = hist[i][link'[i]].deleted
                                              /\ item'[i].notes <= edits
    BY <1>1 DEF LinksFit
  <2>1. link'[i] \in 0 .. Len(hist[i])
    BY <1>2, <1>4, <1>6
  <2>2. CASE link'[i] = link[i] /\ item'[i] = item[i]
    BY <2>1, <2>2, <1>4
  <2>3. ASSUME NEW v \in Versions(i), v > link[i], link'[i] = v, item'[i] = Merged(i, v)
        PROVE  /\ item'[i].status = hist[i][link'[i]].status
               /\ item'[i].deleted = hist[i][link'[i]].deleted
               /\ item'[i].notes <= edits
    BY <2>3, <1>5
  <2> QED BY <2>1, <2>2, <2>3, <1>3, <1>6
<1>9. EventsFit'
  <2>1. \A e : EventFits(e) => EventFits(e)'
    BY <1>1, <1>6 DEF EventFits
  <2>2. \A e \in events' \ events : EventFits(e)'
    BY <1>2 DEF EventFits
  <2> QED BY <1>1, <1>2, <2>1, <2>2 DEF EventsFit, Versions
<1>10. EchoesFit' /\ PushesAreEdits'
  BY <1>1 DEF EchoesFit, PushesAreEdits, Oldest, Answer, Versions
<1>11. \A i \in Issues : Unpushed(i)' = Unpushed(i)
  BY <1>1, <1>2 DEF Unpushed, Own, Answer, Versions
<1>12. NotesFit'
  <2> SUFFICES ASSUME NEW i \in Issues \ derailed, item'[i] # NoItem
               PROVE  NotesRise(i)' /\ NotesBehind(i)' /\ EditsQueued(i)' /\ NewestEdit(i)'
    BY <1>1 DEF NotesFit
  <2>1. CASE item[i] # NoItem
    <3>1. item'[i].notes = item[i].notes
      BY <2>1, <1>3, <1>5
    <3>2. NotesRise(i) /\ NotesBehind(i) /\ EditsQueued(i) /\ NewestEdit(i)
      BY <2>1 DEF NotesFit
    <3> QED BY <3>1, <3>2, <1>1, <1>11 DEF NotesRise, NotesBehind, EditsQueued, NewestEdit, Versions
  <2>2. CASE item[i] = NoItem
    <3>1. item'[i].notes = 0
      BY <2>2, <1>3, <1>5
    <3>2. \A v \in Versions(i) : hist[i][v].notes = 0
      BY <2>2 DEF HistoryFits, VersionFits
    <3>3. Unpushed(i) = {}
      BY <2>2, EventTyped DEF Unpushed, EventsFit, EventFits
    <3> QED BY <3>1, <3>2, <3>3, <1>1, <1>11 DEF NotesRise, NotesBehind, EditsQueued, NewestEdit, Versions
  <2> QED BY <2>1, <2>2
<1>13. \A i \in Issues : item[i] # NoItem => /\ item'[i] # NoItem
                                             /\ item'[i].status >= item[i].status
                                             /\ item[i].deleted => item'[i].deleted
  <2> SUFFICES ASSUME NEW i \in Issues, item[i] # NoItem
               PROVE  /\ item'[i].status >= item[i].status
                      /\ item[i].deleted => item'[i].deleted
    BY <1>6
  <2>1. item[i].status \in Nat
    BY DEF TypeOK, Item
  <2>2. CASE item'[i] = item[i]
    BY <2>1, <2>2
  <2>3. ASSUME NEW v \in Versions(i), v > link[i], item'[i] = Merged(i, v)
        PROVE  /\ item'[i].status >= item[i].status
               /\ item[i].deleted => item'[i].deleted
    BY <2>3, <1>5
  <2> QED BY <2>2, <2>3, <1>3
<1>14. \A p \in P : p[2] <= link'[p[1]]
  <2> SUFFICES ASSUME NEW p \in P PROVE p[2] <= link'[p[1]]
    OBVIOUS
  <2>1. p[1] \in Issues /\ p[2] \in Versions(p[1]) /\ p = <<p[1], p[2]>>
    BY DEF Applicable
  <2> QED BY <2>1, <1>6
<1> QED
  BY <1>2, <1>6, <1>7, <1>8, <1>9, <1>10, <1>12, <1>13, <1>14 DEF TypeOK

Rows == [state : {"none", "pending", "processed", "dead"}, attempts : 0 .. MaxAttempts]

LEMMA RowTyped ==
  ASSUME TypeOK
  PROVE  /\ inbox \in [Issues -> [1 .. MaxVersion -> Rows]]
         /\ \A i \in Issues, v \in 1 .. MaxVersion : inbox[i][v] \in Rows
<1>1. inbox \in [Issues -> [1 .. MaxVersion -> Rows]]
  BY DEF TypeOK, Rows
<1> HIDE DEF Rows
<1> QED
  BY <1>1

\* One row of the inbox is rewritten.
Rewrites(i, v, row) == inbox' = [inbox EXCEPT ![i][v] = row]

LEMMA RowChange ==
  ASSUME TypeOK, NEW i \in Issues, NEW v \in 1 .. MaxVersion, NEW row \in Rows, Rewrites(i, v, row)
  PROVE  /\ inbox' \in [Issues -> [1 .. MaxVersion -> Rows]] /\ inbox'[i][v] = row
         /\ \A j \in Issues, w \in 1 .. MaxVersion : j # i \/ w # v => inbox'[j][w] = inbox[j][w]
  BY RowTyped DEF Rewrites

LEMMA ProcessKeeps ==
  ASSUME IInv, NEW i \in Issues, NEW v \in 1 .. MaxVersion, ProcessDelivery(i, v)
  PROVE  IInv'
<1> USE DEF IInv
<1>1. /\ inbox[i][v].state = "pending" /\ v \in Versions(i) /\ v # 0 /\ v \in Nat
      /\ inbox' = [inbox EXCEPT ![i][v].state = "processed"]
      /\ UNCHANGED <<trackerVars, edits, loaderVars, pollVars, faults>>
  <2>1. inbox[i][v].state = "pending"
    BY DEF ProcessDelivery, Claimable
  <2>2. v \in Nat /\ v # 0
    BY DEF MaxVersion
  <2>3. v <= Len(hist[i])
    BY <2>1 DEF TypeOK
  <2>4. v \in Versions(i)
    BY <2>2, <2>3, HistTyped
  <2> QED BY <2>1, <2>2, <2>4 DEF ProcessDelivery
<1>2. UNCHANGED <<hist, clock, edits, loader, pushed, derailed, sync, page, faults>>
  BY <1>1 DEF trackerVars, loaderVars, pollVars
<1>3. /\ HistoryFits' /\ LinksFit' /\ EventsFit' /\ EchoesFit' /\ NotesFit' /\ PushesAreEdits'
      /\ link' \in [Issues -> Nat] /\ item' \in [Issues -> Item \cup {NoItem}] /\ events' \subseteq Event
      /\ \A j \in Issues : link[j] <= link'[j] /\ link'[j] <= Len(hist[j])
      /\ v <= link'[i] \/ hist[i][v].by # None
  <2>1. CASE Echo(i, v)
    <3>1. link' = link /\ item' = item /\ events' = events
      BY <2>1 DEF ProcessDelivery, itemVars
    <3>2. /\ HistoryFits' /\ LinksFit' /\ EventsFit' /\ EchoesFit' /\ NotesFit' /\ PushesAreEdits'
      <4>0. HistoryFits'
        BY <3>1, <1>2 DEF HistoryFits, VersionFits, Advances, Versions, Latest
      <4>1. LinksFit' /\ PushesAreEdits'
        BY <3>1, <1>2 DEF LinksFit, PushesAreEdits, Versions
      <4>2. EventsFit' /\ EchoesFit'
        BY <3>1, <1>2 DEF EventsFit, EventFits, EchoesFit, Oldest, Answer, Versions
      <4>3. \A j : Unpushed(j)' = Unpushed(j)
        BY <3>1, <1>2 DEF Unpushed, Answer, Versions
      <4>4. NotesFit'
        BY <4>3, <3>1, <1>2 DEF NotesFit, NotesRise, NotesBehind, EditsQueued, NewestEdit, Versions
      <4> QED BY <4>0, <4>1, <4>2, <4>4
    <3>3. hist[i][v].by # None
      BY <2>1, <1>1 DEF Echo, EchoesFit
    <3>4. \A j \in Issues : link[j] \in Nat /\ link[j] <= Len(hist[j])
      BY DEF LinksFit, TypeOK
    <3> QED BY <3>1, <3>2, <3>3, <3>4 DEF TypeOK
  <2>2. CASE ~Echo(i, v)
    <3>1. ApplyAll({<<i, v>>})
      BY <2>2 DEF ProcessDelivery
    <3>2. Applicable({<<i, v>>})
      BY <1>1 DEF Applicable
    <3>3. UNCHANGED <<trackerVars, edits, loaderVars>>
      BY <1>1
    <3>4. \A p \in {<<i, v>>} : p[2] <= link'[p[1]]
      BY <3>1, <3>2, <3>3, ApplyKeeps
    <3>5. v <= link'[i]
      BY <3>4
    <3> HIDE DEF IInv
    <3>6. /\ HistoryFits' /\ LinksFit' /\ EventsFit' /\ EchoesFit' /\ NotesFit' /\ PushesAreEdits'
          /\ link' \in [Issues -> Nat] /\ item' \in [Issues -> Item \cup {NoItem}] /\ events' \subseteq Event
          /\ \A j \in Issues : link[j] <= link'[j] /\ link'[j] <= Len(hist[j])
      BY <3>1, <3>2, <3>3, ApplyKeeps
    <3> QED BY <3>5, <3>6
  <2> QED BY <2>1, <2>2
<1>4. TypeOK'
  <2> DEFINE row == [inbox[i][v] EXCEPT !.state = "processed"]
  <2>3. TypeOK
    OBVIOUS
  <2> HIDE DEF IInv
  <2>0. row \in Rows /\ row.state = "processed" /\ Rewrites(i, v, row)
    <3>1. inbox[i][v] \in Rows
      BY <2>3, RowTyped
    <3>2. row \in Rows /\ row.state = "processed"
      BY <3>1 DEF Rows
    <3>3. Rewrites(i, v, row)
      BY <1>1 DEF Rewrites
    <3> QED BY <3>2, <3>3
  <2> HIDE DEF row
  <2>1. /\ inbox' \in [Issues -> [1 .. MaxVersion -> Rows]] /\ inbox'[i][v] = row
        /\ \A j \in Issues, w \in 1 .. MaxVersion : j # i \/ w # v => inbox'[j][w] = inbox[j][w]
    BY <2>0, <2>3, RowChange
  <2>2. ASSUME NEW j \in Issues, NEW w \in 1 .. MaxVersion
        PROVE  /\ inbox'[j][w].state \in {"none", "pending"} => inbox'[j][w].attempts < MaxAttempts
               /\ inbox'[j][w].state # "none" => w <= Len(hist[j])
    <3>1. CASE j = i /\ w = v
      <4>1. inbox'[i][v].state = "processed"
        BY <2>0, <2>1
      <4> QED BY <3>1, <4>1, <1>1, <2>3, HistTyped
    <3>2. CASE j # i \/ w # v
      <4>1. inbox'[j][w] = inbox[j][w]
        BY <3>2, <2>1
      <4> QED BY <4>1, <2>3 DEF TypeOK
    <3> QED BY <3>1, <3>2
  <2> QED BY <2>1, <2>2, <2>3, <1>2, <1>3 DEF TypeOK, Rows
<1>5. ProcessedIsApplied'
  <2> SUFFICES ASSUME NEW j \in Issues, NEW w \in 1 .. MaxVersion, inbox'[j][w].state = "processed"
               PROVE  w <= link'[j] \/ hist[j][w].by # None
    BY <1>2 DEF ProcessedIsApplied
  <2>1. CASE j = i /\ w = v
    BY <2>1, <1>3
  <2>2. CASE j # i \/ w # v
    <3>1. inbox[j][w].state = "processed"
      BY <2>2, <1>1 DEF TypeOK
    <3>2. w <= link[j] \/ hist[j][w].by # None
      BY <3>1 DEF ProcessedIsApplied
    <3>3. link[j] <= link'[j] /\ link[j] \in Nat /\ link'[j] \in Nat /\ w \in Nat
      BY <1>3 DEF TypeOK, MaxVersion
    <3> QED BY <3>2, <3>3
  <2> QED BY <2>1, <2>2
<1>6. ASSUME NEW j \in Issues, Applied(j) PROVE Applied(j)'
  BY <1>2, <1>3, <1>6, HistTyped DEF Applied, TypeOK
<1>7. SyncFits' /\ PageFits'
  <2>1. \A j \in Issues : Latest(j)' = Latest(j) /\ Position(j)' = Position(j) /\ Versions(j)' = Versions(j)
    BY <1>2 DEF Latest, Position, Versions
  <2>2. SyncFits'
    BY <2>1, <1>2, <1>6 DEF SyncFits
  <2>3. PageFits'
    BY <2>1, <1>2, <1>6 DEF PageFits, Versions
  <2> QED BY <2>2, <2>3
<1> QED
  BY <1>3, <1>4, <1>5, <1>7

LEMMA CommitKeeps ==
  ASSUME IInv, CommitPage
  PROVE  IInv'
<1> USE DEF IInv
<1>1. /\ page \in Pages /\ ApplyAll(page.issues) /\ sync' = Checkpoint(page) /\ page' = NoPage
      /\ UNCHANGED <<trackerVars, inbox, edits, loaderVars, faults>>
  BY DEF CommitPage, TypeOK
<1>2. UNCHANGED <<hist, clock, inbox, edits, loader, pushed, derailed, faults>>
  BY <1>1 DEF trackerVars, loaderVars
<1>3. page # NoPage
  BY DEF CommitPage
<1>4. /\ page.max <= clock /\ page.since <= sync.watermark
      /\ page.next # NoCursor => page.next[1] <= clock
      /\ \A p \in page.issues : p[2] \in Versions(p[1])
      /\ \A p, q \in page.issues : p[1] = q[1] => p = q
      /\ \A i \in Issues : hist[i] # <<>> =>
           \/ Applied(i) \/ <<i, Len(hist[i])>> \in page.issues
           \/ /\ page.next = NoCursor => Latest(i).at >= page.max
              /\ page.next # NoCursor => Precedes(page.next, Position(i))
  BY <1>3 DEF PageFits
<1>5. Applicable(page.issues)
  BY <1>1, <1>4 DEF Applicable, Pages
<1>6. /\ HistoryFits' /\ LinksFit' /\ EventsFit' /\ EchoesFit' /\ NotesFit' /\ PushesAreEdits'
      /\ link' \in [Issues -> Nat] /\ item' \in [Issues -> Item \cup {NoItem}] /\ events' \subseteq Event
      /\ \A i \in Issues : link[i] <= link'[i] /\ link'[i] <= Len(hist[i])
      /\ \A p \in page.issues : p[2] <= link'[p[1]]
  <2> HIDE DEF IInv
  <2> QED BY <1>1, <1>5, ApplyKeeps
<1>7. /\ page.max \in Nat /\ page.since \in Nat /\ page.next \in Cursors /\ clock \in Nat
      /\ sync.watermark \in Nat
  BY <1>1 DEF Pages, TypeOK
<1>8. /\ page.next = NoCursor  => sync'.watermark = page.max /\ sync'.max = 0 /\ sync'.cursor = NoCursor
      /\ page.next # NoCursor => /\ sync'.watermark = sync.watermark /\ sync'.since = page.since
                                 /\ sync'.cursor = page.next /\ sync'.max = page.max
      /\ sync' \in [watermark : Nat, since : Nat, cursor : Cursors, max : Nat]
  <2>1. CASE page.next = NoCursor
    BY <2>1, <1>1, <1>7 DEF Checkpoint, Start, Cursors
  <2>2. CASE page.next # NoCursor
    BY <2>2, <1>1, <1>7 DEF Checkpoint, Cursors
  <2> QED BY <2>1, <2>2
<1>9. TypeOK'
  <2>1. page' \in Pages \cup {NoPage}
    BY <1>1
  <2> QED BY <1>2, <1>6, <1>8, <2>1 DEF TypeOK
<1>10. ASSUME NEW i \in Issues, Applied(i) \/ <<i, Len(hist[i])>> \in page.issues PROVE Applied(i)'
  <2>1. link[i] <= link'[i] /\ link'[i] <= Len(hist[i]) /\ Len(hist[i]) \in Nat
        /\ link[i] \in Nat /\ link'[i] \in Nat
    BY <1>6, HistTyped DEF TypeOK
  <2>2. link'[i] = Len(hist[i])
    <3>1. CASE Applied(i)
      BY <3>1, <2>1 DEF Applied
    <3>2. CASE <<i, Len(hist[i])>> \in page.issues
      <4>1. <<i, Len(hist[i])>>[2] <= link'[<<i, Len(hist[i])>>[1]]
        BY <3>2, <1>6
      <4> QED BY <4>1, <2>1
    <3> QED BY <3>1, <3>2, <1>10
  <2> QED BY <2>2, <1>2 DEF Applied
<1>11. ProcessedIsApplied'
  <2> SUFFICES ASSUME NEW i \in Issues, NEW v \in 1 .. MaxVersion, inbox[i][v].state = "processed"
               PROVE  v <= link'[i] \/ hist[i][v].by # None
    BY <1>2 DEF ProcessedIsApplied
  <2>1. v <= link[i] \/ hist[i][v].by # None
    BY DEF ProcessedIsApplied
  <2>2. link[i] <= link'[i] /\ link[i] \in Nat /\ link'[i] \in Nat /\ v \in Nat
    BY <1>6 DEF TypeOK, MaxVersion
  <2> QED BY <2>1, <2>2
<1>12. SyncFits'
  <2>1. /\ sync'.watermark <= clock /\ sync'.max <= clock
        /\ sync'.cursor # NoCursor => sync'.since <= sync'.watermark /\ sync'.cursor[1] <= clock
    BY <1>4, <1>7, <1>8 DEF SyncFits
  <2>2. ASSUME NEW i \in Issues, hist[i] # <<>>, ~Applied(i)'
        PROVE  /\ Latest(i).at >= sync'.watermark
               /\ sync'.cursor = NoCursor \/ Precedes(sync'.cursor, Position(i))
    <3>1. /\ ~Applied(i)
          /\ page.next = NoCursor => Latest(i).at >= page.max
          /\ page.next # NoCursor => Precedes(page.next, Position(i))
      BY <1>4, <1>10, <2>2
    <3>2. Latest(i).at >= sync.watermark
      BY <2>2, <3>1 DEF SyncFits
    <3> QED BY <3>1, <3>2, <1>8
  <2>3. \A i \in Issues : Latest(i)' = Latest(i) /\ Position(i)' = Position(i)
    BY <1>2 DEF Latest, Position
  <2> QED BY <2>1, <2>2, <2>3, <1>2 DEF SyncFits
<1>13. PageFits'
  BY <1>1 DEF PageFits
<1> QED
  BY <1>6, <1>9, <1>11, <1>12, <1>13

-----------------------------------------------------------------------------
(* A page.                                                                 *)

\* Times identify the issues that have a version.
LEMMA MatchingFinite ==
  ASSUME IInv
  PROVE  /\ IsFiniteSet(Matching)
         /\ \A i \in Matching : i \in Issues /\ hist[i] # <<>> /\ Latest(i).at \in 1 .. clock
         /\ \A i, j \in Matching : i = j \/ Precedes(Position(i), Position(j)) \/ Precedes(Position(j), Position(i))
<1> USE DEF IInv
<1>1. \A i \in Matching : i \in Issues /\ hist[i] # <<>> /\ Latest(i).at \in 1 .. clock
  BY HistTyped DEF Matching, HistoryFits, VersionFits
<1>2. \A i, j \in Matching : i # j => Latest(i).at # Latest(j).at
  BY <1>1 DEF HistoryFits
<1> DEFINE f == [i \in Matching |-> Latest(i).at]
<1>3. f \in Injection(Matching, 1 .. clock)
  <2>1. f \in [Matching -> 1 .. clock]
    BY <1>1
  <2>2. \A i, j \in Matching : f[i] = f[j] => i = j
    BY <1>2
  <2> HIDE DEF f
  <2> QED BY <2>1, <2>2 DEF Injection, IsInjective
<1>4. IsFiniteSet(1 .. clock)
  BY FS_Interval DEF TypeOK
<1>5. IsFiniteSet(Matching)
  <2> HIDE DEF f
  <2> QED BY <1>3, <1>4, FS_Injection
<1>6. \A i, j \in Matching : i = j \/ Precedes(Position(i), Position(j)) \/ Precedes(Position(j), Position(i))
  BY <1>1, <1>2 DEF Precedes, Position, TypeOK
<1> QED
  BY <1>1, <1>5, <1>6

\* Of some matching issues one is first and one is last.
LEMMA FirstAndLast ==
  ASSUME IInv, NEW S \in SUBSET Matching, S # {}
  PROVE  /\ \E i \in S : \A j \in S : ~Precedes(Position(j), Position(i))
         /\ \E i \in S : \A j \in S : i = j \/ Precedes(Position(j), Position(i))
<1> DEFINE T == {Latest(i).at : i \in S}
<1>1. /\ \A i \in Matching : i \in Issues /\ i \in Nat /\ hist[i] # <<>> /\ Latest(i).at \in 1 .. clock
      /\ \A i, j \in Matching : i = j \/ Precedes(Position(i), Position(j)) \/ Precedes(Position(j), Position(i))
      /\ clock \in Nat
  BY MatchingFinite, IssuesAssumption DEF IInv, TypeOK
<1>2. T \in SUBSET Nat /\ T # {} /\ \A t \in T : t <= clock
  BY <1>1
<1>3. PICK t \in T : \A u \in T : t <= u
  BY <1>2, LeastOf
<1>4. PICK m \in T : \A u \in T : u <= m
  BY <1>1, <1>2, GreatestOf
<1>5. PICK i \in S : Latest(i).at = t
  OBVIOUS
<1>6. PICK k \in S : Latest(k).at = m
  OBVIOUS
<1>7. \A i1, j1 \in S : Latest(i1).at = Latest(j1).at => i1 = j1
  BY <1>1 DEF IInv, HistoryFits
<1>8. ASSUME NEW j \in S PROVE ~Precedes(Position(j), Position(i))
  <2>1. t <= Latest(j).at /\ Latest(j).at \in Nat /\ t \in Nat /\ j \in Nat
    BY <1>1, <1>2, <1>3
  <2>2. CASE Latest(j).at = t
    <3>1. j = i
      BY <2>2, <1>5, <1>7
    <3> QED BY <3>1, <2>1, <1>5 DEF Precedes, Position
  <2>3. CASE Latest(j).at # t
    BY <2>1, <2>3, <1>5 DEF Precedes, Position
  <2> QED BY <2>2, <2>3
<1>9. ASSUME NEW j \in S PROVE k = j \/ Precedes(Position(j), Position(k))
  <2>1. Latest(j).at <= m /\ Latest(j).at \in Nat /\ m \in Nat
    BY <1>1, <1>2, <1>4
  <2>2. CASE Latest(j).at = m
    BY <2>2, <1>6, <1>7
  <2>3. CASE Latest(j).at # m
    BY <2>1, <2>3, <1>6 DEF Precedes, Position
  <2> QED BY <2>2, <2>3
<1> QED
  BY <1>8, <1>9

LEMMA PrecedesTransitive ==
  ASSUME TypeOK, NEW i \in Issues, NEW j \in Issues, NEW k \in Issues,
         Precedes(Position(i), Position(j)), Precedes(Position(j), Position(k))
  PROVE  Precedes(Position(i), Position(k))
<1>1. \A l \in Issues : Latest(l).at \in Nat /\ l \in Nat
  BY HistTyped, IssuesAssumption
<1> QED
  BY <1>1 DEF Precedes, Position

LEMMA ListKeeps ==
  ASSUME IInv, ListPage
  PROVE  IInv'
<1> USE DEF IInv
<1> DEFINE before(i) == {j \in Matching : Precedes(Position(j), Position(i))}
           first == {i \in Matching : Cardinality(before(i)) < PageSize}
           seen  == {Latest(i).at : i \in first} \cup {IF sync.cursor = NoCursor THEN sync.watermark ELSE sync.max}
           last  == CHOOSE i \in first : \A j \in first : i = j \/ Precedes(Position(j), Position(i))
           max   == CHOOSE t \in seen : \A u \in seen : u <= t
           next  == IF first = Matching THEN NoCursor ELSE Position(last)
<1>1. /\ IsFiniteSet(Matching)
      /\ \A i \in Matching : i \in Issues /\ hist[i] # <<>> /\ Latest(i).at \in 1 .. clock
      /\ \A i, j \in Matching : i = j \/ Precedes(Position(i), Position(j)) \/ Precedes(Position(j), Position(i))
  BY MatchingFinite
<1>2. /\ page' = [issues |-> {<<i, Len(hist[i])>> : i \in first}, since |-> Since, next |-> next, max |-> max]
      /\ UNCHANGED <<trackerVars, inbox, itemVars, events, edits, loaderVars, sync, faults>>
  BY DEF ListPage
<1>3. UNCHANGED <<hist, clock, inbox, link, item, events, edits, loader, pushed, derailed, sync, faults>>
  BY <1>2 DEF trackerVars, itemVars, loaderVars
<1>4. /\ clock \in Nat /\ sync.watermark \in Nat /\ sync.since \in Nat /\ sync.max \in Nat
      /\ sync.watermark <= clock /\ sync.max <= clock
      /\ sync.cursor # NoCursor => sync.since <= sync.watermark
      /\ Overlap \in Nat /\ PageSize \in Nat /\ 0 < PageSize
  BY LimitsAssumption DEF TypeOK, SyncFits
<1>5. Since \in Nat /\ Since <= sync.watermark
  BY <1>4 DEF Since
<1>6. max \in Nat /\ max <= clock
  <2>1. seen \in SUBSET Nat /\ seen # {} /\ \A t \in seen : t <= clock
    <3>1. \A i \in first : Latest(i).at \in Nat /\ Latest(i).at <= clock
      BY <1>1
    <3> HIDE DEF first
    <3> QED BY <3>1, <1>4
  <2>2. \E t \in seen : \A u \in seen : u <= t
    <3> HIDE DEF seen
    <3> QED BY <2>1, <1>4, GreatestOf
  <2>3. max \in seen
    BY <2>2
  <2> QED BY <2>1, <2>3
<1>7. ASSUME first # Matching
      PROVE  last \in first /\ \A j \in first : last = j \/ Precedes(Position(j), Position(last))
  <2>1. Matching # {}
    BY <1>7
  <2>2. PICK i \in Matching : \A j \in Matching : ~Precedes(Position(j), Position(i))
    BY <2>1, FirstAndLast
  <2>3. before(i) = {}
    BY <2>2
  <2>4. i \in first
    BY <2>3, <1>4, FS_EmptySet
  <2>5. first \in SUBSET Matching /\ first # {}
    BY <2>4
  <2>6. \E k \in first : \A j \in first : k = j \/ Precedes(Position(j), Position(k))
    <3> HIDE DEF first
    <3> QED BY <2>5, FirstAndLast
  <2> HIDE DEF first
  <2> QED BY <2>6
\* Whatever matches and is not on the page comes after its last issue.
<1>8. ASSUME first # Matching, NEW i \in Matching, i \notin first PROVE Precedes(Position(last), Position(i))
  <2>1. last \in first /\ i # last /\ last \in Matching
    BY <1>7, <1>8
  <2>2. CASE Precedes(Position(i), Position(last))
    <3>1. before(i) \subseteq before(last)
      <4>1. ASSUME NEW j \in before(i) PROVE Precedes(Position(j), Position(last))
        <5>1. j \in Issues /\ i \in Issues /\ last \in Issues /\ Precedes(Position(j), Position(i))
          BY <4>1, <2>1, <1>1
        <5> HIDE DEF last
        <5> QED BY <5>1, <2>2, PrecedesTransitive
      <4> QED BY <4>1
    <3>2. IsFiniteSet(before(last)) /\ before(last) \subseteq Matching
      BY <1>1, FS_Subset
    <3>3. Cardinality(before(i)) <= Cardinality(before(last)) /\ IsFiniteSet(before(i))
      BY <3>1, <3>2, FS_Subset
    <3>4. Cardinality(before(i)) \in Nat /\ Cardinality(before(last)) \in Nat
      BY <3>2, <3>3, FS_CardinalityType
    <3>5. Cardinality(before(last)) < PageSize
      BY <2>1
    <3>6. Cardinality(before(i)) < PageSize
      <4> HIDE DEF before, last
      <4> QED BY <3>3, <3>4, <3>5, <1>4
    <3> QED BY <3>6, <1>8
  <2> QED BY <2>1, <2>2, <1>1, <1>8
<1>9. /\ next \in Cursors /\ (next # NoCursor => next[1] <= clock)
      /\ next = NoCursor <=> first = Matching
      /\ next # NoCursor => next = Position(last)
  <2>1. CASE first = Matching
    BY <2>1 DEF Cursors
  <2>2. CASE first # Matching
    <3>1. last \in Issues /\ Latest(last).at \in 1 .. clock
      BY <2>2, <1>1, <1>7
    <3> HIDE DEF last, first
    <3>2. Position(last) \in Nat \X Issues /\ Position(last)[1] <= clock
      BY <3>1 DEF Position
    <3> QED BY <2>2, <3>2, NullsAssumption DEF Cursors
  <2> QED BY <2>1, <2>2
<1> DEFINE issues == {<<i, Len(hist[i])>> : i \in first}
<1>10. /\ issues \subseteq Issues \X Nat /\ \A p \in issues : p[2] \in Versions(p[1])
       /\ \A p, q \in issues : p[1] = q[1] => p = q
  <2>1. \A i \in first : i \in Issues /\ Len(hist[i]) \in Nat /\ Len(hist[i]) \in Versions(i)
    BY <1>1, HistTyped
  <2> HIDE DEF first
  <2> QED BY <2>1
<1>11. ASSUME NEW i \in Issues, hist[i] # <<>>, ~Applied(i), i \notin first
       PROVE  next # NoCursor /\ Precedes(next, Position(i))
  <2>1. Latest(i).at >= sync.watermark /\ (sync.cursor = NoCursor \/ Precedes(sync.cursor, Position(i)))
    BY <1>11 DEF SyncFits
  <2>2. Latest(i).at \in Nat
    BY HistTyped
  <2>3. i \in Matching
    BY <2>1, <2>2, <1>4, <1>5, <1>11 DEF Matching
  <2>4. first # Matching
    BY <2>3, <1>11
  <2> HIDE DEF first, last, next
  <2> QED BY <2>3, <2>4, <1>8, <1>9, <1>11
<1> HIDE DEF next, max, issues
<1>12. /\ page'.issues = issues /\ page'.since = Since /\ page'.next = next /\ page'.max = max
       /\ page' \in Pages
  BY <1>2, <1>5, <1>6, <1>9, <1>10 DEF Pages, issues
<1>13. PageFits'
  <2>1. ASSUME NEW i \in Issues, hist[i] # <<>>, ~Applied(i), <<i, Len(hist[i])>> \notin issues
        PROVE  next # NoCursor /\ Precedes(next, Position(i))
    <3>1. i \notin first
      BY <2>1 DEF issues
    <3> HIDE DEF first
    <3> QED BY <3>1, <2>1, <1>11
  <2>2. \A i \in Issues : Position(i)' = Position(i) /\ (Applied(i) => Applied(i)')
    BY <1>3 DEF Position, Latest, Applied
  <2>3. \A i \in Issues : Versions(i)' = Versions(i) /\ hist'[i] = hist[i]
    BY <1>3 DEF Versions
  <2>4. \A p \in issues : p[1] \in Issues
    BY <1>10
  <2>5. page'.max <= clock' /\ page'.since <= sync'.watermark
        /\ (page'.next # NoCursor => page'.next[1] <= clock')
    BY <1>3, <1>5, <1>6, <1>9, <1>12
  <2>6. \A p \in page'.issues : p[2] \in Versions(p[1])'
    BY <2>3, <2>4, <1>10, <1>12
  <2>7. \A p, q \in page'.issues : p[1] = q[1] => p = q
    BY <1>10, <1>12
  <2>8. \A i \in Issues : hist'[i] # <<>> =>
          \/ Applied(i)' \/ <<i, Len(hist'[i])>> \in page'.issues
          \/ /\ page'.next = NoCursor => Latest(i)'.at >= page'.max
             /\ page'.next # NoCursor => Precedes(page'.next, Position(i)')
    BY <2>1, <2>2, <2>3, <1>12
  <2> QED BY <2>5, <2>6, <2>7, <2>8 DEF PageFits
<1>14. HistoryFits' /\ LinksFit' /\ EventsFit' /\ PushesAreEdits' /\ EchoesFit' /\ ProcessedIsApplied'
  <2>1. HistoryFits' /\ LinksFit'
    BY <1>3 DEF HistoryFits, VersionFits, Advances, Versions, Latest, LinksFit
  <2>2. EventsFit' /\ PushesAreEdits' /\ ProcessedIsApplied'
    BY <1>3 DEF EventsFit, EventFits, PushesAreEdits, ProcessedIsApplied, Versions
  <2>3. EchoesFit'
    BY <1>3 DEF EchoesFit, Oldest, Answer, Versions
  <2> QED BY <2>1, <2>2, <2>3
<1>15. NotesFit'
  <2>1. \A i : Unpushed(i)' = Unpushed(i)
    BY <1>3 DEF Unpushed, Answer, Versions
  <2> QED BY <2>1, <1>3 DEF NotesFit, NotesRise, NotesBehind, EditsQueued, NewestEdit, Versions
<1>16. SyncFits'
  BY <1>3 DEF SyncFits, Applied, Latest, Position
<1>17. TypeOK'
  BY <1>3, <1>12 DEF TypeOK
<1> QED
  BY <1>13, <1>14, <1>15, <1>16, <1>17

-----------------------------------------------------------------------------
(* The remaining steps.                                                    *)

LEMMA EditKeeps ==
  ASSUME IInv, NEW i \in Issues, EditNotes(i)
  PROVE  IInv'
<1> USE DEF IInv
<1>a. PICK n \in Nat : n = edits + 1
  BY DEF TypeOK
<1>b. PICK new : new = [by |-> "user", issue |-> i, n |-> n, notes |-> n]
  OBVIOUS
<1>1. /\ item[i] # NoItem /\ edits' = n /\ item' = [item EXCEPT ![i].notes = n]
      /\ events' = events \cup {new}
      /\ UNCHANGED <<trackerVars, inbox, link, loaderVars, pollVars, faults>>
  BY <1>a, <1>b DEF EditNotes, Editable
<1>2. UNCHANGED <<hist, clock, inbox, link, loader, pushed, derailed, sync, page, faults>>
  BY <1>1 DEF trackerVars, loaderVars, pollVars
<1>3. /\ edits \in Nat /\ n \in Nat /\ item[i] \in Item /\ i \in Nat
      /\ new.by = "user" /\ new.issue = i /\ new.n = n /\ new.notes = n /\ new \in Event
  BY <1>1, <1>b, IssuesAssumption DEF TypeOK, Event
<1>4. /\ item' \in [Issues -> Item \cup {NoItem}] /\ item'[i] # NoItem
      /\ item'[i].notes = n /\ item'[i].status = item[i].status /\ item'[i].deleted = item[i].deleted
      /\ \A j \in Issues \ {i} : item'[j] = item[j]
  <2> DEFINE x == [item[i] EXCEPT !.notes = n]
  <2>1. x \in Item /\ x.notes = n /\ x.status = item[i].status /\ x.deleted = item[i].deleted
    BY <1>3 DEF Item
  <2>2. item' = [item EXCEPT ![i] = x] /\ item \in [Issues -> Item \cup {NoItem}]
    BY <1>1 DEF TypeOK
  <2>3. x # NoItem
    BY <2>1, NullsAssumption DEF Item
  <2> HIDE DEF x
  <2> QED BY <2>1, <2>2, <2>3
<1>5. \A j \in Issues : item'[j] = NoItem <=> item[j] = NoItem
  BY <1>1, <1>4
<1>6. TypeOK'
  BY <1>1, <1>2, <1>3, <1>4 DEF TypeOK
<1>7. HistoryFits'
  <2>1. ASSUME NEW j \in Issues, NEW v \in Versions(j) PROVE VersionFits(j, v)'
    <3>1. VersionFits(j, v) /\ hist[j][v].notes \in Nat
      BY HistTyped DEF HistoryFits
    <3> QED BY <1>a, <3>1, <1>1, <1>2, <1>3, <1>5 DEF VersionFits
  <2> QED BY <2>1, <1>2 DEF HistoryFits, Advances, Versions, Latest
<1>8. LinksFit'
  <2> SUFFICES ASSUME NEW j \in Issues
               PROVE  /\ link[j] \in 0 .. Len(hist[j])
                      /\ item'[j] = NoItem <=> link[j] = 0
                      /\ item'[j] # NoItem => /\ item'[j].status = hist[j][link[j]].status
                                              /\ item'[j].deleted = hist[j][link[j]].deleted
                                              /\ item'[j].notes <= edits'
    BY <1>2 DEF LinksFit
  <2>1. /\ link[j] \in 0 .. Len(hist[j])
        /\ item[j] = NoItem <=> link[j] = 0
        /\ item[j] # NoItem => /\ item[j].status = hist[j][link[j]].status
                               /\ item[j].deleted = hist[j][link[j]].deleted
                               /\ item[j].notes <= edits /\ item[j].notes \in Nat
    BY DEF LinksFit, TypeOK, Item
  <2>2. CASE j = i
    BY <2>1, <2>2, <1>1, <1>3, <1>4
  <2>3. CASE j # i
    BY <1>a, <2>1, <2>3, <1>1, <1>3, <1>4
  <2> QED BY <2>2, <2>3
<1>9. \A e \in events : EventFits(e) /\ e \in Event /\ e.issue \in Issues /\ e.n \in Nat /\ (Own(e) <=> e.by # "user")
  BY EventTyped DEF EventsFit
<1>10. \A e \in events : ~Own(e) => e.n < n
  BY <1>a, <1>3, <1>9 DEF EventFits
<1>11. EventsFit'
  <2>1. \A e : EventFits(e) => EventFits(e)'
    BY <1>a, <1>1, <1>3, <1>5 DEF EventFits
  <2>2. EventFits(new)'
    <3>1. n \in 1 .. n
      BY <1>a, <1>3
    <3> QED BY <3>1, <1>1, <1>3, <1>4 DEF EventFits
  <2> QED BY <2>1, <2>2, <1>1, <1>2 DEF EventsFit, Versions
<1>12. PushesAreEdits' /\ EchoesFit'
  BY <1>2 DEF PushesAreEdits, EchoesFit, Oldest, Answer, Versions
<1>13. ProcessedIsApplied' /\ SyncFits' /\ PageFits'
  BY <1>2 DEF ProcessedIsApplied, SyncFits, PageFits, Applied, Versions, Latest, Position
\* The edit has not been pushed and is newer than every other.
<1>14. Answer(new) = {}
  <2>1. ASSUME NEW v \in Versions(i), hist[i][v].by = new PROVE FALSE
    <3>1. new # None
      BY <1>3 DEF None
    <3>2. EventFits(new)
      BY <2>1, <3>1 DEF EventsFit
    <3> QED BY <1>a, <3>2, <1>3 DEF EventFits
  <2> QED BY <2>1, <1>3 DEF Answer
<1>15. /\ \A e : Answer(e)' = Answer(e)
       /\ \A j \in Issues \ {i} : Unpushed(j)' = Unpushed(j)
       /\ Unpushed(i)' = Unpushed(i) \cup {new}
  <2>1. \A e : Answer(e)' = Answer(e)
    BY <1>2 DEF Answer, Versions
  <2>2. ~Own(new)
    BY <1>3 DEF Own
  <2> QED BY <2>1, <2>2, <1>1, <1>3, <1>14 DEF Unpushed
<1>16. NotesFit'
  <2> SUFFICES ASSUME NEW j \in Issues \ derailed, item'[j] # NoItem
               PROVE  NotesRise(j)' /\ NotesBehind(j)' /\ EditsQueued(j)' /\ NewestEdit(j)'
    BY <1>2 DEF NotesFit
  <2>1. NotesRise(j) /\ NotesBehind(j) /\ EditsQueued(j) /\ NewestEdit(j)
    BY <1>5 DEF NotesFit
  <2>2. NotesRise(j)'
    BY <2>1, <1>2 DEF NotesRise, Versions
  <2>3. CASE j # i
    <3>1. item'[j] = item[j] /\ Unpushed(j)' = Unpushed(j)
      BY <2>3, <1>4, <1>15
    <3> QED BY <3>1, <2>1, <2>2, <1>2 DEF NotesBehind, EditsQueued, NewestEdit, Versions
  <2>4. CASE j = i
    <3>1. \A v \in Versions(i) : hist[i][v].notes < n /\ hist[i][v].notes <= n
      <4>1. ASSUME NEW v \in Versions(i) PROVE hist[i][v].notes <= edits /\ hist[i][v].notes \in Nat
        <5>1. VersionFits(i, v)
          BY DEF HistoryFits
        <5> QED BY <5>1, HistTyped DEF VersionFits
      <4> QED BY <1>a, <4>1, <1>3
    <3>2. NotesBehind(i)'
      BY <3>1, <2>1, <2>4, <1>2, <1>3, <1>4, <1>15 DEF NotesBehind, Versions
    <3>3. \A e \in Unpushed(i) : e.n < n /\ e.n <= n /\ e.n \in Nat
      BY <1>3, <1>9, <1>10 DEF Unpushed
    <3>4. \A d \in loader.batch : ~Own(d) => d.n < n
      BY <1>10 DEF EventsFit
    <3>5. EditsQueued(i)'
      <4>1. \A e \in Unpushed(i)' : e.n <= item'[i].notes
        BY <3>3, <1>3, <1>4, <1>15
      <4>2. ASSUME NEW e \in Unpushed(i)' \ loader.batch, NEW d \in loader.batch, d.issue = i, ~Own(d)
            PROVE  d.n < e.n
        <5>1. CASE e = new
          BY <5>1, <4>2, <3>4, <1>3
        <5>2. CASE e \in Unpushed(i)
          BY <5>2, <4>2, <2>1, <2>4 DEF EditsQueued
        <5> QED BY <5>1, <5>2, <1>15
      <4> QED BY <4>1, <4>2, <1>2 DEF EditsQueued, Own
    <3>6. NewestEdit(i)'
      BY <1>3, <1>4, <1>15 DEF NewestEdit
    <3> QED BY <2>2, <2>4, <3>2, <3>5, <3>6
  <2> QED BY <2>3, <2>4
<1> QED
  BY <1>6, <1>7, <1>8, <1>11, <1>12, <1>13, <1>16

\* A step of the inbox alone.
LEMMA InboxKeeps ==
  ASSUME IInv, NEW i \in Issues, NEW v \in 1 .. MaxVersion, NEW row \in Rows, Rewrites(i, v, row),
         UNCHANGED <<trackerVars, itemVars, events, edits, loaderVars, pollVars>>, faults' \in Nat,
         row.state # "none" => v <= Len(hist[i]),
         row.state \in {"none", "pending"} => row.attempts < MaxAttempts, row.state # "processed"
  PROVE  IInv'
<1> USE DEF IInv
<1>1. UNCHANGED <<hist, clock, link, item, events, edits, loader, pushed, derailed, sync, page>>
  BY DEF trackerVars, itemVars, loaderVars, pollVars
<1>2. /\ inbox' \in [Issues -> [1 .. MaxVersion -> Rows]] /\ inbox'[i][v] = row
      /\ \A j \in Issues, w \in 1 .. MaxVersion : j # i \/ w # v => inbox'[j][w] = inbox[j][w]
  BY RowChange
<1>3. TypeOK'
  <2>1. ASSUME NEW j \in Issues, NEW w \in 1 .. MaxVersion
        PROVE  /\ inbox'[j][w].state \in {"none", "pending"} => inbox'[j][w].attempts < MaxAttempts
               /\ inbox'[j][w].state # "none" => w <= Len(hist[j])
    <3>1. CASE j = i /\ w = v
      BY <3>1, <1>2
    <3>2. CASE j # i \/ w # v
      <4>1. inbox'[j][w] = inbox[j][w]
        BY <3>2, <1>2
      <4> QED BY <4>1 DEF TypeOK
    <3> QED BY <3>1, <3>2
  <2> QED BY <2>1, <1>1, <1>2 DEF TypeOK, Rows
<1>4. ProcessedIsApplied'
  <2> SUFFICES ASSUME NEW j \in Issues, NEW w \in 1 .. MaxVersion, inbox'[j][w].state = "processed"
               PROVE  w <= link[j] \/ hist[j][w].by # None
    BY <1>1 DEF ProcessedIsApplied
  <2>1. inbox'[j][w] = inbox[j][w]
    BY <1>2
  <2> QED BY <2>1 DEF ProcessedIsApplied
<1>5. HistoryFits' /\ LinksFit'
  BY <1>1 DEF HistoryFits, VersionFits, Advances, Versions, Latest, LinksFit
<1>6. EventsFit' /\ PushesAreEdits' /\ EchoesFit'
  BY <1>1 DEF EventsFit, EventFits, PushesAreEdits, EchoesFit, Oldest, Answer, Versions
<1>7. NotesFit'
  <2>1. \A j : Unpushed(j)' = Unpushed(j)
    BY <1>1 DEF Unpushed, Answer, Versions
  <2> QED BY <2>1, <1>1 DEF NotesFit, NotesRise, NotesBehind, EditsQueued, NewestEdit, Versions
<1>8. SyncFits' /\ PageFits'
  BY <1>1 DEF SyncFits, PageFits, Applied, Versions, Latest, Position
<1> QED
  BY <1>3, <1>4, <1>5, <1>6, <1>7, <1>8

LEMMA DeliveryKeeps ==
  ASSUME IInv, NEW i \in Issues, NEW v \in 1 .. MaxVersion, Receive(i, v) \/ FailDelivery(i, v)
  PROVE  IInv'
<1>0. TypeOK /\ inbox[i][v] \in Rows /\ v \in Nat
  BY RowTyped DEF IInv, MaxVersion
<1>1. CASE Receive(i, v)
  <2> DEFINE row == [inbox[i][v] EXCEPT !.state = "pending"]
  <2>1. /\ Rewrites(i, v, row) /\ v <= Len(hist[i]) /\ inbox[i][v].state = "none"
        /\ UNCHANGED <<trackerVars, itemVars, events, edits, loaderVars, pollVars>> /\ faults' \in Nat
    BY <1>0, <1>1 DEF Receive, Rewrites, Posted, Versions, TypeOK
  <2>2. row \in Rows /\ row.state = "pending" /\ row.attempts = inbox[i][v].attempts
    BY <1>0 DEF Rows
  <2>3. row.attempts < MaxAttempts
    BY <1>0, <2>1, <2>2 DEF TypeOK
  <2> HIDE DEF row
  <2> QED BY <2>1, <2>2, <2>3, InboxKeeps
<1>2. CASE FailDelivery(i, v)
  <2> DEFINE old == inbox[i][v]
             row == IF Exhausted(Counted(old).attempts) THEN [Counted(old) EXCEPT !.state = "dead"] ELSE Counted(old)
  <2>1. /\ Rewrites(i, v, row) /\ old.state = "pending"
        /\ UNCHANGED <<trackerVars, itemVars, events, edits, loaderVars, pollVars>> /\ faults' \in Nat
    BY <1>0, <1>2 DEF FailDelivery, Rewrites, Claimable, TypeOK
  <2>2. old.attempts \in Nat /\ old.attempts < MaxAttempts /\ v <= Len(hist[i]) /\ MaxAttempts \in Nat
    <3>1. MaxAttempts \in Nat
      BY LimitsAssumption
    <3>2. old.attempts \in Nat
      BY <1>0 DEF Rows
    <3>3. /\ old.state \in {"none", "pending"} => old.attempts < MaxAttempts
          /\ old.state # "none" => v <= Len(hist[i])
      BY <1>0 DEF TypeOK
    <3> QED BY <2>1, <3>1, <3>2, <3>3
  <2>3. Counted(old) = [state |-> "pending", attempts |-> old.attempts + 1]
    BY <1>0, <2>1 DEF Counted, Rows
  <2>4. /\ row \in Rows /\ row.state \in {"pending", "dead"}
        /\ row.state = "pending" => row.attempts < MaxAttempts
    <3>1. CASE Exhausted(Counted(old).attempts)
      BY <3>1, <2>2, <2>3 DEF Rows
    <3>2. CASE ~Exhausted(Counted(old).attempts)
      <4>1. Counted(old).attempts = old.attempts + 1 /\ Counted(old).state = "pending"
        BY <2>3
      <4>2. row = Counted(old)
        BY <3>2
      <4> HIDE DEF row, old
      <4>3. old.attempts + 1 < MaxAttempts
        BY <2>2, <3>2, <4>1 DEF Exhausted
      <4>4. old.attempts + 1 \in 0 .. MaxAttempts
        BY <2>2, <4>3
      <4> QED BY <2>3, <4>1, <4>2, <4>3, <4>4 DEF Rows
    <3> QED BY <3>1, <3>2
  <2> HIDE DEF row
  <2> QED BY <2>1, <2>2, <2>4, InboxKeeps
<1> QED
  BY <1>1, <1>2

LEMMA QuietKeeps ==
  ASSUME IInv, LosePage \/ UNCHANGED vars
  PROVE  IInv'
<1> USE DEF IInv
<1>1. /\ UNCHANGED <<hist, clock, inbox, link, item, events, edits, loader, pushed, derailed, sync>>
      /\ page' = page \/ page' = NoPage
      /\ faults' \in Nat
  BY DEF LosePage, vars, trackerVars, itemVars, loaderVars, pollVars, TypeOK
<1>2. TypeOK'
  BY <1>1 DEF TypeOK
<1>3. HistoryFits' /\ LinksFit'
  BY <1>1 DEF HistoryFits, VersionFits, Advances, Versions, Latest, LinksFit
<1>4. EventsFit' /\ PushesAreEdits' /\ EchoesFit' /\ ProcessedIsApplied'
  BY <1>1 DEF EventsFit, EventFits, PushesAreEdits, EchoesFit, ProcessedIsApplied, Oldest, Answer, Versions
<1>5. NotesFit'
  <2>1. \A j : Unpushed(j)' = Unpushed(j)
    BY <1>1 DEF Unpushed, Answer, Versions
  <2> QED BY <2>1, <1>1 DEF NotesFit, NotesRise, NotesBehind, EditsQueued, NewestEdit, Versions
<1>6. SyncFits'
  BY <1>1 DEF SyncFits, Applied, Versions, Latest, Position
<1>7. PageFits'
  <2>1. CASE page' = NoPage
    BY <2>1 DEF PageFits
  <2>2. CASE page' = page
    BY <2>2, <1>1 DEF PageFits, Applied, Versions, Latest, Position
  <2> QED BY <2>1, <2>2, <1>1
<1> QED
  BY <1>2, <1>3, <1>4, <1>5, <1>6, <1>7

LEMMA ChangeKeeps ==
  ASSUME IInv, NEW i \in Issues, ChangeIssue(i)
  PROVE  IInv'
<1>1. PICK new : Amends(i, new)
  BY ChangeAmends
<1>2. TypeOK'
  <2>1. UNCHANGED <<events, pushed, derailed, loader, faults>>
    BY DEF ChangeIssue, loaderVars
  <2> QED BY <1>1, <2>1, AmendTyped DEF IInv, TypeOK
<1>3. HistoryFits' /\ LinksFit' /\ ProcessedIsApplied' /\ SyncFits' /\ PageFits'
  BY <1>1, AmendHistory, AmendLinks, AmendPolls
<1>4. EventsFit' /\ PushesAreEdits' /\ EchoesFit' /\ NotesFit'
  BY ChangeNotes
<1> QED
  BY <1>2, <1>3, <1>4 DEF IInv

-----------------------------------------------------------------------------
(* The results.                                                            *)

LEMMA Initially ==
  ASSUME Init
  PROVE  IInv
<1>1. TypeOK
  <2>1. MaxAttempts \in Nat /\ 0 < MaxAttempts
    BY LimitsAssumption
  <2>2. NoRow \in Rows /\ NoRow.state = "none" /\ NoRow.attempts = 0
    BY <2>1 DEF NoRow, Rows
  <2>3. inbox \in [Issues -> [1 .. MaxVersion -> Rows]]
    BY <2>2 DEF Init
  <2>4. \A i \in Issues : \A v \in 1 .. MaxVersion : inbox[i][v] = NoRow
    BY DEF Init
  <2>5. hist \in [Issues -> Seq(Version)] /\ link \in [Issues -> Nat] /\ pushed \in [Issues -> Nat]
        /\ item \in [Issues -> Item \cup {NoItem}]
    BY DEF Init
  <2>6. loader \in [pc : {"idle", "push", "record", "mark"}, batch : SUBSET Event, version : Nat]
        /\ sync \in [watermark : Nat, since : Nat, cursor : Cursors, max : Nat]
    BY DEF Init, Asleep, Start, Cursors
  <2>7. \A i \in Issues : \A v \in 1 .. MaxVersion :
          /\ inbox[i][v].state \in {"none", "pending"} => inbox[i][v].attempts < MaxAttempts
          /\ inbox[i][v].state # "none" => v <= Len(hist[i])
    BY <2>1, <2>2, <2>4
  <2> QED BY <2>3, <2>5, <2>6, <2>7 DEF Init, TypeOK, Rows
<1>2. \A i \in Issues : hist[i] = <<>> /\ Versions(i) = {} /\ link[i] = 0 /\ item[i] = NoItem /\ pushed[i] = 0
  BY DEF Init, Versions
<1>3. HistoryFits /\ EventsFit /\ PushesAreEdits /\ EchoesFit
  BY <1>2 DEF Init, Asleep, HistoryFits, EventsFit, PushesAreEdits, EchoesFit
<1>4. LinksFit
  <2>1. \A i \in Issues : Len(hist[i]) = 0
    BY <1>2
  <2> QED BY <1>2, <2>1 DEF LinksFit
<1>5. ProcessedIsApplied
  BY DEF Init, NoRow, ProcessedIsApplied
<1>6. NotesFit
  BY <1>2 DEF NotesFit
<1>7. SyncFits /\ PageFits
  BY <1>2 DEF Init, Start, SyncFits, PageFits
<1> QED
  BY <1>1, <1>3, <1>4, <1>5, <1>6, <1>7 DEF IInv

LEMMA Steps ==
  ASSUME IInv, [Next]_vars
  PROVE  IInv'
<1>1. ASSUME NEW i \in Issues, ChangeIssue(i) PROVE IInv'
  BY <1>1, ChangeKeeps
<1>2. ASSUME NEW i \in Issues, EditNotes(i) PROVE IInv'
  BY <1>2, EditKeeps
<1>3. ASSUME NEW i \in Issues, NEW v \in 1 .. MaxVersion,
             Receive(i, v) \/ ProcessDelivery(i, v) \/ FailDelivery(i, v)
      PROVE  IInv'
  BY <1>3, DeliveryKeeps, ProcessKeeps
<1>4. CASE ListPage
  BY <1>4, ListKeeps
<1>5. CASE CommitPage
  BY <1>5, CommitKeeps
<1>6. CASE LosePage \/ UNCHANGED vars
  BY <1>6, QuietKeeps
<1>7. CASE Load
  BY <1>7, LoadKeeps
<1> QED
  BY <1>1, <1>2, <1>3, <1>4, <1>5, <1>6, <1>7 DEF Next

\* The inductive invariant of every behaviour, for any issues, page size, overlap
\* and numbers of attempts, edits, changes and faults.
THEOREM Invariance == Spec => []IInv
<1>1. Init => IInv
  BY Initially
<1>2. IInv /\ [Next]_vars => IInv'
  BY Steps
<1> QED
  BY <1>1, <1>2, PTL DEF Spec

\* inbox.go, extractor.go, loader.go: rows, pages, events and versions keep their
\* types, and a delivery is retried only while it has attempts left.
THEOREM SyncTypeCorrect == Spec => []TypeOK
<1>1. IInv => TypeOK
  BY DEF IInv
<1> QED
  BY <1>1, Invariance, PTL

\* isEcho: no change made in the tracker is dropped as an echo, whatever the loader,
\* the worker and the extractor do in between.
THEOREM NothingIsDroppedAsEcho == Spec => []ProcessedIsApplied
<1>1. IInv => ProcessedIsApplied
  BY DEF IInv
<1> QED
  BY <1>1, Invariance, PTL

\* loader.go Handle: however often it is retried, an edit is pushed at most once.
THEOREM PushedOnce == Spec => []PushesAreEdits
<1>1. IInv => PushesAreEdits
  BY DEF IInv
<1> QED
  BY <1>1, Invariance, PTL

\* The newest edit of an item is the last one that reaches the tracker.
THEOREM NotesReachTheTracker == Spec => []NotesArrive
<1>1. ASSUME IInv PROVE NotesArrive
  <2> SUFFICES ASSUME NEW i \in Issues \ derailed, item[i] # NoItem,
                      \A e \in events : e.issue = i => Own(e)
               PROVE  Latest(i).notes \in {item[i].notes, 0}
    BY DEF NotesArrive
  <2>1. NotesRise(i) /\ NotesBehind(i) /\ NewestEdit(i)
    BY <1>1 DEF IInv, NotesFit
  <2>2. Unpushed(i) = {}
    BY DEF Unpushed
  <2>3. /\ Len(hist[i]) \in Nat /\ Versions(i) = 1 .. Len(hist[i])
        /\ \A v \in Versions(i) : hist[i][v].notes \in Nat
        /\ hist[i] # <<>> => Latest(i) = hist[i][Len(hist[i])] /\ Len(hist[i]) \in Versions(i)
        /\ item[i].notes \in Nat /\ link[i] \in Versions(i)
    BY <1>1, HistTyped DEF IInv, TypeOK, Item, LinksFit
  <2>4. hist[i] # <<>> /\ Latest(i).notes \in Nat /\ Latest(i).notes <= item[i].notes
    BY <2>1, <2>3 DEF NotesBehind
  <2>5. CASE item[i].notes = 0
    BY <2>3, <2>4, <2>5
  <2>6. CASE \E v \in Versions(i) : hist[i][v].notes = item[i].notes
    <3>1. PICK v \in Versions(i) : hist[i][v].notes = item[i].notes
      BY <2>6
    <3>2. v = Len(hist[i]) \/ Latest(i).notes = 0 \/ hist[i][v].notes <= Latest(i).notes
      <4>1. v <= Len(hist[i]) /\ v \in Nat
        BY <2>3
      <4>2. v < Len(hist[i]) => hist[i][Len(hist[i])].notes = 0 \/ hist[i][v].notes <= hist[i][Len(hist[i])].notes
        BY <2>1, <2>3, <2>4 DEF NotesRise
      <4> QED BY <4>1, <4>2, <2>3, <2>4
    <3> QED BY <3>1, <3>2, <2>3, <2>4
  <2> QED BY <2>1, <2>2, <2>5, <2>6 DEF NewestEdit
<1> QED
  BY <1>1, Invariance, PTL

\* extractor.go: what was not applied is ahead of the next run, although issues
\* change while their pages are read and any page may be lost.
THEOREM NothingIsLeftBehind == Spec => []NothingBehindWatermark
<1>1. ASSUME IInv PROVE NothingBehindWatermark
  <2> SUFFICES ASSUME NEW i \in Issues, hist[i] # <<>>
               PROVE  link[i] = Len(hist[i]) \/ hist[i][Len(hist[i])].at >= sync.watermark
    BY DEF NothingBehindWatermark
  <2>1. Applied(i) \/ Latest(i).at >= sync.watermark
    BY <1>1 DEF IInv, SyncFits
  <2> QED BY <2>1 DEF Applied, Latest
<1> QED
  BY <1>1, Invariance, PTL

\* apply.go Apply: no mixture of webhooks, late webhooks and pages takes an item
\* back to older external-owned fields, or back from a deletion.
THEOREM NeverGoesBack == Spec => NeverBackwards
<1> DEFINE Forward(i) == item[i] # NoItem => /\ item'[i] # NoItem
                                             /\ item'[i].status >= item[i].status
                                             /\ item[i].deleted => item'[i].deleted
<1>1. ASSUME IInv, [Next]_vars, NEW i \in Issues PROVE Forward(i)
  <2> SUFFICES ASSUME item[i] # NoItem PROVE Forward(i)
    OBVIOUS
  <2>1. item[i] \in Item /\ item[i].status \in Nat
    BY <1>1 DEF IInv, TypeOK, Item
  <2>2. CASE item' = item
    BY <2>1, <2>2
  <2>3. ASSUME NEW j \in Issues, EditNotes(j) PROVE Forward(i)
    <3>1. item' = [item EXCEPT ![j].notes = edits']
      BY <2>3 DEF EditNotes
    <3>2. item'[i] \in Item \cup {NoItem}
      <4>1. IInv'
        BY <1>1, Steps
      <4> QED BY <4>1 DEF IInv, TypeOK
    <3>3. CASE i = j
      <4>1. item'[i] = [item[i] EXCEPT !.notes = edits']
        BY <1>1, <3>1, <3>3 DEF IInv, TypeOK
      <4>2. edits' \in Nat
        BY <1>1, <2>3 DEF EditNotes, IInv, TypeOK
      <4>3. item'[i] \in Item /\ item'[i].status = item[i].status /\ item'[i].deleted = item[i].deleted
        BY <2>1, <4>1, <4>2 DEF Item
      <4> QED BY <2>1, <4>3, NullsAssumption DEF Item
    <3>4. CASE i # j
      <4>1. item'[i] = item[i]
        BY <1>1, <3>1, <3>4 DEF IInv, TypeOK
      <4> QED BY <2>1, <4>1
    <3> QED BY <3>3, <3>4
  <2>4. ASSUME NEW j \in Issues, NEW v \in 1 .. MaxVersion, ProcessDelivery(j, v) PROVE Forward(i)
    <3>1. CASE Echo(j, v)
      BY <2>2, <2>4, <3>1 DEF ProcessDelivery, itemVars
    <3>2. CASE ~Echo(j, v)
      <4>1. inbox[j][v].state = "pending" /\ v \in Nat /\ v # 0
        BY <2>4 DEF ProcessDelivery, Claimable, MaxVersion
      <4>2. v <= Len(hist[j])
        BY <1>1, <4>1 DEF IInv, TypeOK
      <4>3. v \in Versions(j)
        BY <1>1, <4>1, <4>2, HistTyped DEF IInv
      <4>4. Applicable({<<j, v>>})
        BY <4>1, <4>3 DEF Applicable
      <4>5. ApplyAll({<<j, v>>}) /\ UNCHANGED <<trackerVars, edits, loaderVars>>
        BY <2>4, <3>2 DEF ProcessDelivery
      <4> QED BY <1>1, <4>4, <4>5, ApplyKeeps
    <3> QED BY <3>1, <3>2
  <2>5. CASE CommitPage
    <3>1. Applicable(page.issues)
      BY <1>1, <2>5 DEF IInv, TypeOK, CommitPage, PageFits, Pages, Applicable
    <3>2. ApplyAll(page.issues) /\ UNCHANGED <<trackerVars, edits, loaderVars>>
      BY <2>5 DEF CommitPage
    <3> QED BY <1>1, <3>1, <3>2, ApplyKeeps
  <2>6. CASE ListPage \/ LosePage \/ UNCHANGED vars
    BY <2>2, <2>6 DEF ListPage, LosePage, vars, itemVars
  <2>7. CASE Load
    <3>1. UNCHANGED itemVars
      <4>1. CASE LoadBatch \/ StopLoader
        BY <4>1 DEF LoadBatch, StopLoader
      <4>2. ASSUME NEW e \in loader.batch,
                   SkipOwn(e) \/ Push(e) \/ RecordPush(e) \/ MarkEvent(e) \/ DeadLetter(e) \/ LeaveEvent(e)
            PROVE  UNCHANGED itemVars
        BY <4>2 DEF SkipOwn, Push, RecordPush, MarkEvent, DeadLetter, LeaveEvent
      <4> QED BY <2>7, <4>1, <4>2 DEF Load
    <3> QED BY <2>2, <3>1 DEF itemVars
  <2>8. ASSUME NEW j \in Issues, NEW v \in 1 .. MaxVersion, Receive(j, v) \/ FailDelivery(j, v) PROVE Forward(i)
    BY <2>2, <2>8 DEF Receive, FailDelivery, itemVars
  <2>9. ASSUME NEW j \in Issues, ChangeIssue(j) PROVE Forward(i)
    BY <2>2, <2>9 DEF ChangeIssue, itemVars
  <2> QED BY <1>1, <2>3, <2>4, <2>5, <2>6, <2>7, <2>8, <2>9 DEF Next
<1>2. IInv /\ [Next]_vars => [\A i \in Issues : Forward(i)]_vars
  BY <1>1
<1> QED
  BY <1>2, Invariance, PTL DEF Spec, NeverBackwards
=============================================================================
