-------------------------- MODULE FieldSyncProofs ---------------------------
(***************************************************************************)
(* Theorems about FieldSync, for any devices, drains and requests, any     *)
(* number of failures and any cap.                                         *)
(***************************************************************************)
EXTENDS FieldSync, FiniteSetTheorems, TLAPS

\* What a request still has to do, and what it was ever given.
Pending(t) == tx[t].todo \cup (IF tx[t].pc = "write" THEN {tx[t].item} ELSE {})
Touched(t) == tx[t].todo \cup {tx[t].item} \cup tx[t].applied

\* Uncommitted rows are newer than the committed ones and no two transactions
\* hold the same row; what is only reported as applied is committed already; the
\* bytes of photos came first.
RequestFits(t) ==
  /\ tx[t].pc # "free" => tx[t].version > 0
  /\ \A x \in tx[t].written : tx[t].version > rows[x]
  /\ \A u \in Slots \ {t} : tx[t].written \cap tx[u].written = {}
  /\ \A x \in tx[t].applied \ tx[t].written : rows[x] > 0
  /\ Touched(t) \cap Photos \subseteq objects
  /\ tx[t].pc \in {"write", "classify"} => tx[t].item \in Items
  /\ tx[t].pc = "write" /\ ~tx[t].yields => Settled(tx[t].item)
  /\ tx[t].pc = "classify" => Settled(tx[t].item)

\* What a drain has asked the server for.
Asked(n) == IF drain[n].photo = Nobody THEN drain[n].todo ELSE {drain[n].photo}

\* The request works for the drain that waits: it asks for nothing else, and its
\* answer is about the photo the drain is at.
AnswerFits(n, t) ==
  /\ tx[t].pc # "free"
  /\ \A x \in Asked(n) : x \in Pending(t) \/ x \in tx[t].written \/ Settled(x)
  /\ drain[n].photo # Nobody =>
       /\ tx[t].todo \subseteq {drain[n].photo}
       /\ tx[t].pc \in {"write", "classify"} => tx[t].item = drain[n].photo
       /\ tx[t].result = "applied" => drain[n].photo \in tx[t].applied

DrainFits(n) ==
  /\ drain[n].slot # Nobody => AnswerFits(n, drain[n].slot)
  /\ drain[n].pc = "replied" => \A x \in Asked(n) : Settled(x)
  /\ drain[n].pc = "replied" /\ drain[n].photo # Nobody /\ drain[n].result = "applied" => rows[drain[n].photo] > 0
  /\ drain[n].photo # Nobody => drain[n].photo \in objects
  /\ drain[n].pc = "records" => drain[n].photo = Nobody /\ drain[n].todo \subseteq Sites
  /\ drain[n].pc \in {"confirm", "dequeue"} => drain[n].photo \in Photos
  /\ drain[n].pc = "dequeue" => Settled(drain[n].photo)
  /\ drain[n].pc # "idle" => drain[n].dev \in Devices

\* An event names a committed photo, and what the aggregator counted is still
\* the number of photos or another event of the site is left.
Recounted(s, k) == k = Cardinality(PhotosAt(s)) \/ \E p \in events \ {agg.event} : SiteOf[p] = s

AggFits ==
  /\ \A p \in events : rows[p] > 0
  /\ agg.pc # "idle" => agg.event \in events
  /\ agg.pc = "write" => Recounted(SiteOf[agg.event], agg.count)
  /\ agg.pc = "mark" => Recounted(SiteOf[agg.event], stats[SiteOf[agg.event]])

ServerInv == \A t \in Slots : RequestFits(t)
ClientInv == \A n \in Drains : DrainFits(n)

IInv == TypeOK /\ ServerInv /\ ClientInv /\ NothingLost /\ BytesKept /\ AggFits /\ StatsFollowPhotos

-----------------------------------------------------------------------------
(* What no step undoes.                                                    *)

Grows == /\ \A x \in Items : rows'[x] >= rows[x]
         /\ objects \subseteq objects'

LEMMA PhotosCounted ==
  ASSUME NEW S, NEW T, S \subseteq T, T \subseteq Photos
  PROVE  Cardinality(S) \in Nat /\ Cardinality(T) \in Nat /\ Cardinality(S) <= Cardinality(T)
<1>1. IsFiniteSet(T)
  BY ItemsAssumption, FS_Subset
<1>2. IsFiniteSet(S) /\ Cardinality(S) <= Cardinality(T)
  BY <1>1, FS_Subset
<1> QED
  BY <1>1, <1>2, FS_CardinalityType

LEMMA PhotosAtCounted ==
  ASSUME NEW s
  PROVE  PhotosAt(s) \subseteq Photos /\ Cardinality(PhotosAt(s)) \in Nat
<1>1. PhotosAt(s) \subseteq Photos
  BY DEF PhotosAt
<1> QED
  BY <1>1, PhotosCounted

\* Sites stay full and items stay settled.
LEMMA SettledStays ==
  ASSUME TypeOK, TypeOK', Grows, NEW x \in Items, Settled(x)
  PROVE  Settled(x)'
<1>1. CASE rows[x] > 0
  <2>1. rows[x] \in Nat /\ rows'[x] \in Nat /\ rows'[x] >= rows[x]
    BY DEF TypeOK, Grows
  <2> QED
    BY <1>1, <2>1 DEF Settled
<1>2. CASE x \in Photos /\ Full(SiteOf[x])
  <2>1. PhotosAt(SiteOf[x]) \subseteq PhotosAt(SiteOf[x])'
    <3> SUFFICES ASSUME NEW p \in Photos, SiteOf[p] = SiteOf[x], rows[p] > 0
                 PROVE  rows'[p] > 0
      BY DEF PhotosAt
    <3>1. rows[p] \in Nat /\ rows'[p] \in Nat /\ rows'[p] >= rows[p]
      BY DEF TypeOK, Grows, Items
    <3> QED
      BY <3>1
  <2>2. PhotosAt(SiteOf[x])' \subseteq Photos
    BY DEF PhotosAt
  <2>3. /\ Cardinality(PhotosAt(SiteOf[x])) \in Nat /\ Cardinality(PhotosAt(SiteOf[x])') \in Nat
        /\ Cardinality(PhotosAt(SiteOf[x])) <= Cardinality(PhotosAt(SiteOf[x])')
    BY <2>1, <2>2, PhotosCounted
  <2> QED
    BY <1>2, <2>3, BoundAssumption DEF Settled, Full
<1> QED
  BY <1>1, <1>2 DEF Settled

\* Without a commit the rows' part of everything stays.
LEMMA SameRows ==
  ASSUME rows' = rows
  PROVE  \A x : (Settled(x)' <=> Settled(x)) /\ PhotosAt(x)' = PhotosAt(x)
  BY DEF Settled, Full, PhotosAt

-----------------------------------------------------------------------------
LEMMA InitIInv == Init => IInv
<1> SUFFICES ASSUME Init PROVE IInv
  OBVIOUS
<1> USE DEF Init
<1>1. TypeOK
  <2>1. Free \in Request
    <3>1. 0 \in 0 .. MaxVersion
      BY BoundAssumption
    <3> QED
      BY <3>1 DEF Free, Request, Outcomes
  <2>2. Resting \in DrainRun
    BY DEF Resting, DrainRun, DrainStep, Outcomes
  <2>3. Unused \in [pc : {"idle", "write", "mark"}, event : Photos \cup {Nobody}, count : Nat]
    BY DEF Unused
  <2>4. /\ taken \in [Items -> Devices \cup {Nobody}]
        /\ outbox \in [Devices -> SUBSET Items] /\ blobs \in [Devices -> SUBSET Photos]
        /\ known \in [Devices -> SUBSET Sites]
        /\ rows \in [Items -> 0 .. MaxVersion] /\ stats \in [Sites -> Nat]
    BY BoundAssumption
  <2>5. drain \in [Drains -> DrainRun] /\ tx \in [Slots -> Request] /\ agg = Unused
    BY <2>1, <2>2
  <2>6. \A n \in Drains : drain[n].pc = "waiting" <=> drain[n].slot # Nobody
    BY DEF Resting
  <2>7. \A t \in Slots : tx[t] = Free /\ tx[t].written \subseteq tx[t].applied
    BY DEF Free
  <2> QED
    BY <2>3, <2>4, <2>5, <2>6, <2>7 DEF TypeOK
<1>2. ServerInv
  BY NobodyAssumption DEF ServerInv, RequestFits, Touched, Free, Items
<1>3. ClientInv
  BY DEF ClientInv, DrainFits, Resting
<1>4. \A s \in Sites : PhotosAt(s) = {}
  BY DEF PhotosAt, Items
<1>5. StatsFollowPhotos
  BY <1>4, FS_EmptySet DEF StatsFollowPhotos
<1>6. NothingLost /\ BytesKept /\ AggFits
  BY DEF NothingLost, BytesKept, AggFits, Unused, Items
<1> QED
  BY <1>1, <1>2, <1>3, <1>5, <1>6 DEF IInv

-----------------------------------------------------------------------------
(* Requests between their start and their end.                             *)

OnlyRequests == UNCHANGED <<deviceVars, objects, rows, drain, events, aggVars, faults>>

OthersRest(t) == \A u \in Slots \ {t} : tx'[u] = tx[u]

\* What a step inside request t may do.
Proceeds(t) ==
  /\ tx' \in [Slots -> Request] /\ OthersRest(t)
  /\ tx'[t].pc # "free" /\ tx'[t].written \subseteq tx'[t].applied
  /\ tx'[t].version = tx[t].version
  /\ tx'[t].todo \subseteq tx[t].todo
  /\ tx[t].written \subseteq tx'[t].written /\ tx[t].applied \subseteq tx'[t].applied
  /\ \A x \in Pending(t) : x \in Pending(t)' \/ x \in tx'[t].written \/ Settled(x)
  /\ tx'[t].pc = "write" => tx'[t].item \in tx[t].todo
  /\ tx'[t].pc = "classify" => tx[t].pc = "write" /\ tx'[t].item = tx[t].item
  /\ tx'[t].result = "applied" =>
       tx[t].result = "applied" \/ (tx[t].pc \in {"write", "classify"} /\ tx[t].item \in tx'[t].applied)

LEMMA ProceedsIInv ==
  ASSUME IInv, NEW t \in Slots, OnlyRequests, tx[t].pc # "free", Proceeds(t), RequestFits(t)'
  PROVE  IInv'
<1> USE DEF OnlyRequests, deviceVars, aggVars
<1>1. TypeOK'
  <2>1. ASSUME NEW u \in Slots
        PROVE  tx'[u].written \subseteq tx'[u].applied /\ (tx'[u].pc = "free" => tx'[u] = Free)
    <3>1. CASE u = t
      BY <3>1 DEF Proceeds
    <3>2. CASE u # t
      <4>1. tx'[u] = tx[u]
        BY <3>2 DEF Proceeds, OthersRest
      <4>2. tx[u].written \subseteq tx[u].applied /\ (tx[u].pc = "free" => tx[u] = Free)
        BY DEF IInv, TypeOK
      <4> QED
        BY <4>1, <4>2
    <3> QED
      BY <3>1, <3>2
  <2> QED
    BY <2>1 DEF IInv, TypeOK, Proceeds
<1>2. \A x : (Settled(x)' <=> Settled(x)) /\ PhotosAt(x)' = PhotosAt(x)
  BY SameRows
<1>3. ServerInv'
  <2> SUFFICES ASSUME NEW u \in Slots, u # t PROVE RequestFits(u)'
    BY DEF ServerInv
  <2>1. tx'[u] = tx[u] /\ RequestFits(u)
    BY DEF Proceeds, OthersRest, IInv, ServerInv
  <2>2. \A w \in Slots \ {u} : tx'[u].written \cap tx'[w].written = {}
    BY <2>1 DEF RequestFits, Proceeds, OthersRest
  <2> QED
    BY <1>2, <2>1, <2>2 DEF RequestFits, Touched
<1>4. ClientInv'
  <2> SUFFICES ASSUME NEW n \in Drains PROVE DrainFits(n)'
    BY DEF ClientInv
  <2>1. DrainFits(n) /\ Asked(n)' = Asked(n)
    BY DEF IInv, ClientInv, Asked
  <2>2. ASSUME drain[n].slot # Nobody PROVE AnswerFits(n, drain[n].slot)'
    <3>1. CASE drain[n].slot = t
      <4>1. AnswerFits(n, t)
        BY <2>1, <2>2, <3>1 DEF DrainFits
      <4>2. tx'[t].pc # "free"
        BY DEF Proceeds
      <4>3. \A x \in Asked(n) : x \in Pending(t)' \/ x \in tx'[t].written \/ Settled(x)'
        BY <1>2, <4>1 DEF AnswerFits, Proceeds
      <4>4. ASSUME drain[n].photo # Nobody
            PROVE  /\ tx'[t].todo \subseteq {drain[n].photo}
                   /\ tx'[t].pc \in {"write", "classify"} => tx'[t].item = drain[n].photo
                   /\ tx'[t].result = "applied" => drain[n].photo \in tx'[t].applied
        <5>1. tx[t].todo \subseteq {drain[n].photo}
          BY <4>1, <4>4 DEF AnswerFits
        <5>2. tx[t].pc \in {"write", "classify"} => tx[t].item = drain[n].photo
          BY <4>1, <4>4 DEF AnswerFits
        <5>3. tx[t].result = "applied" => drain[n].photo \in tx[t].applied
          BY <4>1, <4>4 DEF AnswerFits
        <5>4. tx'[t].todo \subseteq {drain[n].photo}
          BY <5>1 DEF Proceeds
        <5>5. tx'[t].result = "applied" => drain[n].photo \in tx'[t].applied
          BY <5>2, <5>3 DEF Proceeds
        <5>6. tx'[t].pc = "write" \/ tx'[t].pc = "classify" => tx'[t].item = drain[n].photo
          BY <5>1, <5>2 DEF Proceeds
        <5> QED
          BY <5>4, <5>5, <5>6
      <4>5. (Asked(n)' = Asked(n)) /\ drain'[n].slot = t
        BY <2>1, <3>1
      <4> QED
        BY <3>1, <4>2, <4>3, <4>4, <4>5 DEF AnswerFits
    <3>2. CASE drain[n].slot # t
      <4>1. drain[n].slot \in Slots
        BY <2>2 DEF IInv, TypeOK, DrainRun
      <4>2. tx'[drain[n].slot] = tx[drain[n].slot]
        BY <3>2, <4>1 DEF Proceeds, OthersRest
      <4> QED
        BY <1>2, <2>1, <2>2, <4>2 DEF DrainFits, AnswerFits, Pending, Asked
    <3> QED
      BY <3>1, <3>2
  <2> QED
    BY <1>2, <2>1, <2>2 DEF DrainFits, Asked
<1>5. NothingLost' /\ BytesKept' /\ AggFits' /\ StatsFollowPhotos'
  BY <1>2 DEF IInv, NothingLost, BytesKept, AggFits, Recounted, StatsFollowPhotos
<1> QED
  BY <1>1, <1>3, <1>4, <1>5 DEF IInv

\* The statement's snapshot: a photo is blocked only at a full site.
LEMMA BlockedIsSettled ==
  ASSUME IInv, NEW x \in Items, ~Yields(x)
  PROVE  Settled(x)
<1>1. x \in Photos /\ ~(Cardinality(PhotosAt(SiteOf[x])) < Cap)
  BY DEF Yields
<1>2. Cardinality(PhotosAt(SiteOf[x])) \in Nat
  BY PhotosAtCounted
<1> QED
  BY <1>1, <1>2, BoundAssumption DEF Settled, Full

LEMMA NextRecordIInv ==
  ASSUME IInv, NEW t \in Slots, NEW x \in Items, NextRecord(t, x)
  PROVE  IInv'
<1>1. tx[t].pc = "next" /\ x \in tx[t].todo /\ OnlyRequests
  BY DEF NextRecord, OnlyRequests
<1>2. tx[t] \in Request /\ tx \in [Slots -> Request] /\ Yields(x) \in BOOLEAN
  BY DEF IInv, TypeOK, Yields
<1>3. tx' = [tx EXCEPT ![t] = [tx[t] EXCEPT !.pc = "write", !.todo = tx[t].todo \ {x}, !.item = x, !.yields = Yields(x)]]
  BY DEF NextRecord
<1>4. /\ tx'[t] \in Request
      /\ tx'[t].pc = "write" /\ tx'[t].todo = tx[t].todo \ {x} /\ tx'[t].item = x /\ tx'[t].yields = Yields(x)
      /\ tx'[t].version = tx[t].version /\ tx'[t].written = tx[t].written
      /\ tx'[t].applied = tx[t].applied /\ tx'[t].result = tx[t].result
  <2> DEFINE q == tx[t]
             S == tx[t].todo \ {x}
             b == Yields(x)
             r == tx'[t]
  <2>1. q \in Request /\ S \in SUBSET Items /\ b \in BOOLEAN
    BY <1>2 DEF Request
  <2>2. r = [q EXCEPT !.pc = "write", !.todo = S, !.item = x, !.yields = b]
    BY <1>2, <1>3
  <2> HIDE DEF q, S, b, r
  <2>3. /\ r \in Request /\ r.pc = "write" /\ r.todo = S /\ r.item = x /\ r.yields = b
        /\ r.version = q.version /\ r.written = q.written /\ r.applied = q.applied /\ r.result = q.result
    BY <2>1, <2>2 DEF Request
  <2> QED
    BY <2>3 DEF q, S, b, r
<1>5. OthersRest(t) /\ tx' \in [Slots -> Request]
  BY <1>2, <1>3, <1>4 DEF OthersRest
<1>6. Proceeds(t)
  <2>1. tx[t].written \subseteq tx[t].applied
    BY DEF IInv, TypeOK
  <2>2. Pending(t) \subseteq Pending(t)'
    BY <1>1, <1>4 DEF Pending
  <2>3. tx'[t].todo \subseteq tx[t].todo /\ x \in tx[t].todo
    BY <1>1, <1>4
  <2> QED
    BY <1>4, <1>5, <2>1, <2>2, <2>3 DEF Proceeds
<1>7. RequestFits(t)'
  <2>1. RequestFits(t) /\ tx[t].version \in Nat
    BY <1>2 DEF IInv, ServerInv, Request
  <2>2. \A y : Settled(y)' <=> Settled(y)
    BY <1>1, SameRows DEF OnlyRequests
  <2>3. \A u \in Slots \ {t} : tx'[t].written \cap tx'[u].written = {}
    BY <1>4, <1>5, <2>1 DEF RequestFits, OthersRest
  <2>4. Touched(t)' \subseteq Touched(t)
    BY <1>1, <1>4 DEF Touched
  <2>5. ~Yields(x) => Settled(x)'
    BY <2>2, BlockedIsSettled
  <2> QED
    BY <1>1, <1>4, <2>1, <2>2, <2>3, <2>4, <2>5 DEF RequestFits, OnlyRequests
<1> QED
  BY <1>1, <1>6, <1>7, ProceedsIInv

\* What Finish does to the fields of the request.
LEMMA FinishFields ==
  ASSUME IInv, NEW t \in Slots, NEW writes \in BOOLEAN, NEW r \in Outcomes,
         tx[t].item \in Items, Finish(t, writes, r)
  PROVE  /\ tx' \in [Slots -> Request] /\ OthersRest(t)
         /\ tx'[t].pc = "next" /\ tx'[t].todo = tx[t].todo /\ tx'[t].item = Nobody
         /\ tx'[t].version = tx[t].version /\ tx'[t].result = r
         /\ tx'[t].written = tx[t].written \cup (IF writes THEN {tx[t].item} ELSE {})
         /\ tx'[t].applied = tx[t].applied \cup (IF r = "applied" THEN {tx[t].item} ELSE {})
<1>1. tx[t] \in Request /\ tx \in [Slots -> Request]
  BY DEF IInv, TypeOK
<1> DEFINE W == tx[t].written \cup (IF writes THEN {tx[t].item} ELSE {})
           A == tx[t].applied \cup (IF r = "applied" THEN {tx[t].item} ELSE {})
<1>2. W \in SUBSET Items /\ A \in SUBSET Items
  BY <1>1 DEF Request
<1>3. tx' = [tx EXCEPT ![t] = [tx[t] EXCEPT !.pc = "next", !.item = Nobody, !.yields = FALSE,
                                            !.result = r, !.written = W, !.applied = A]]
  BY <1>1 DEF Finish
<1> HIDE DEF W, A
<1>4. /\ tx'[t] \in Request
      /\ tx'[t].pc = "next" /\ tx'[t].todo = tx[t].todo /\ tx'[t].item = Nobody
      /\ tx'[t].version = tx[t].version /\ tx'[t].result = r
      /\ tx'[t].written = W /\ tx'[t].applied = A
  <2> DEFINE q == tx[t]
             s == tx'[t]
  <2>1. q \in Request
    BY <1>1
  <2>2. s = [q EXCEPT !.pc = "next", !.item = Nobody, !.yields = FALSE,
                      !.result = r, !.written = W, !.applied = A]
    BY <1>1, <1>3
  <2> HIDE DEF q, s
  <2>3. /\ s \in Request /\ s.pc = "next" /\ s.todo = q.todo /\ s.item = Nobody
        /\ s.version = q.version /\ s.written = W /\ s.applied = A /\ s.result = r
    BY <1>2, <2>1, <2>2 DEF Request, Outcomes
  <2> QED
    BY <2>3 DEF q, s
<1>5. tx' \in [Slots -> Request] /\ OthersRest(t)
  BY <1>1, <1>3, <1>4 DEF OthersRest
<1> QED
  BY <1>4, <1>5 DEF W, A

LEMMA FinishIInv ==
  ASSUME IInv, NEW t \in Slots, NEW writes \in BOOLEAN, NEW r \in Outcomes,
         OnlyRequests, Finish(t, writes, r), tx[t].pc \in {"write", "classify"},
         writes => r = "applied" /\ Wins(t, tx[t].item) /\ ~Locked(t, tx[t].item),
         ~writes => Settled(tx[t].item) /\ (r = "applied" => rows[tx[t].item] > 0)
  PROVE  IInv'
<1> DEFINE x == tx[t].item
<1>1. /\ tx[t] \in Request /\ rows \in [Items -> 0 .. MaxVersion]
      /\ tx[t].written \subseteq tx[t].applied /\ RequestFits(t)
  BY DEF IInv, TypeOK, ServerInv
<1>2. x \in Items /\ tx[t].version \in Nat /\ rows[x] \in Nat /\ tx[t].version > 0
  BY <1>1 DEF RequestFits, Request
<1>3. /\ tx' \in [Slots -> Request] /\ OthersRest(t)
      /\ tx'[t].pc = "next" /\ tx'[t].todo = tx[t].todo /\ tx'[t].item = Nobody
      /\ tx'[t].version = tx[t].version /\ tx'[t].result = r
      /\ tx'[t].written = tx[t].written \cup (IF writes THEN {x} ELSE {})
      /\ tx'[t].applied = tx[t].applied \cup (IF r = "applied" THEN {x} ELSE {})
  BY <1>2, FinishFields
<1>4. \A y : Settled(y)' <=> Settled(y)
  BY SameRows DEF OnlyRequests
<1>5. Proceeds(t)
  <2>1. \A y \in Pending(t) : y \in Pending(t)' \/ y \in tx'[t].written \/ Settled(y)
    BY <1>3 DEF Pending
  <2>2. tx'[t].written \subseteq tx'[t].applied
    BY <1>1, <1>3
  <2> QED
    BY <1>3, <2>1, <2>2 DEF Proceeds
<1>6. RequestFits(t)'
  <2>1. rows' = rows /\ objects' = objects
    BY DEF OnlyRequests
  <2>2. \A y \in tx'[t].written : tx'[t].version > rows'[y]
    BY <1>1, <1>3, <2>1 DEF RequestFits, Wins
  <2>3. \A u \in Slots \ {t} : tx'[t].written \cap tx'[u].written = {}
    BY <1>1, <1>3 DEF RequestFits, OthersRest, Locked
  <2>4. \A y \in tx'[t].applied \ tx'[t].written : rows'[y] > 0
    BY <1>1, <1>3, <2>1 DEF RequestFits
  <2>5. Touched(t)' \cap Photos \subseteq objects'
    BY <1>1, <1>3, <2>1, NobodyAssumption DEF RequestFits, Touched, Items
  <2> QED
    BY <1>2, <1>3, <2>2, <2>3, <2>4, <2>5 DEF RequestFits
<1> QED
  BY <1>1, <1>5, <1>6, ProceedsIInv

LEMMA UpsertIInv ==
  ASSUME IInv, NEW t \in Slots, Upsert(t)
  PROVE  IInv'
<1> DEFINE x == tx[t].item
<1>1. tx[t].pc = "write" /\ ~Locked(t, x) /\ OnlyRequests
  BY DEF Upsert, OnlyRequests
<1>2. /\ tx \in [Slots -> Request] /\ tx[t] \in Request /\ rows \in [Items -> 0 .. MaxVersion]
      /\ tx[t].written \subseteq tx[t].applied /\ RequestFits(t)
  BY DEF IInv, TypeOK, ServerInv
<1>3. x \in Items /\ tx[t].version \in Nat /\ rows[x] \in Nat /\ tx[t].version > 0
  BY <1>1, <1>2 DEF RequestFits, Request
<1>4. CASE tx[t].yields /\ Wins(t, x)
  <2>1. Finish(t, TRUE, "applied")
    BY <1>4 DEF Upsert
  <2> QED
    BY <1>1, <1>4, <2>1, FinishIInv DEF Outcomes
<1>5. CASE ~(tx[t].yields /\ Wins(t, x))
  <2>1. tx' = [tx EXCEPT ![t].pc = "classify"]
    BY <1>5 DEF Upsert
  <2>2. /\ tx' \in [Slots -> Request] /\ OthersRest(t)
        /\ tx'[t].pc = "classify" /\ tx'[t].todo = tx[t].todo /\ tx'[t].item = x
        /\ tx'[t].version = tx[t].version /\ tx'[t].result = tx[t].result
        /\ tx'[t].written = tx[t].written /\ tx'[t].applied = tx[t].applied
    BY <1>2, <2>1 DEF Request, OthersRest
  <2>3. Settled(x)
    BY <1>1, <1>2, <1>3, <1>5 DEF RequestFits, Settled, Wins
  <2>4. \A y : Settled(y)' <=> Settled(y)
    BY <1>1, SameRows DEF OnlyRequests
  <2>5. Proceeds(t)
    BY <1>1, <1>2, <2>2, <2>3 DEF Proceeds, Pending
  <2>6. RequestFits(t)'
    <3>1. \A u \in Slots \ {t} : tx'[t].written \cap tx'[u].written = {}
      BY <1>2, <2>2 DEF RequestFits, OthersRest
    <3>2. Touched(t)' = Touched(t)
      BY <2>2 DEF Touched
    <3> QED
      BY <1>1, <1>2, <1>3, <2>2, <2>3, <2>4, <3>1, <3>2 DEF RequestFits, OnlyRequests
  <2> QED
    BY <1>1, <2>5, <2>6, ProceedsIInv
<1> QED
  BY <1>4, <1>5

LEMMA ClassifyIInv ==
  ASSUME IInv, NEW t \in Slots, Classify(t)
  PROVE  IInv'
<1> DEFINE x == tx[t].item
<1>1. tx[t].pc = "classify" /\ OnlyRequests /\ Finish(t, FALSE, Outcome(t, x))
  BY DEF Classify, OnlyRequests
<1>2. tx[t] \in Request /\ rows \in [Items -> 0 .. MaxVersion] /\ RequestFits(t)
  BY DEF IInv, TypeOK, ServerInv
<1>3. x \in Items /\ rows[x] \in Nat /\ Settled(x)
  BY <1>1, <1>2 DEF RequestFits
<1>4. Outcome(t, x) \in Outcomes /\ (Outcome(t, x) = "applied" => rows[x] > 0)
  BY <1>3 DEF Outcome, Outcomes
<1> QED
  BY <1>1, <1>3, <1>4, FinishIInv

-----------------------------------------------------------------------------
(* The end of a request.                                                   *)

\* What holds of the other requests, and of the drains that are as they were.
LEMMA OthersFit ==
  ASSUME IInv, TypeOK', Grows, NEW t \in Slots, tx' = [tx EXCEPT ![t] = Free],
         \A u \in Slots \ {t} : \A x \in tx[u].written : rows'[x] = rows[x]
  PROVE  /\ ServerInv'
         /\ \A n \in Drains : drain'[n] = drain[n] /\ drain[n].slot # t => DrainFits(n)'
<1>1. TypeOK /\ tx \in [Slots -> Request]
  BY DEF IInv, TypeOK
<1>2. \A x \in Items : Settled(x) => Settled(x)'
  BY <1>1, SettledStays
<1>3. \A x \in Items : rows[x] \in Nat /\ rows'[x] \in Nat /\ rows'[x] >= rows[x]
  BY <1>1 DEF TypeOK, Grows
<1>4. tx'[t] = Free /\ \A u \in Slots \ {t} : tx'[u] = tx[u]
  BY <1>1
<1>5. ServerInv'
  <2> SUFFICES ASSUME NEW u \in Slots PROVE RequestFits(u)'
    BY DEF ServerInv
  <2>1. CASE u = t
    BY <1>4, <2>1, NobodyAssumption DEF RequestFits, Touched, Free, Items
  <2>2. CASE u # t
    <3>1. tx'[u] = tx[u] /\ RequestFits(u) /\ tx[u] \in Request
      BY <1>1, <1>4, <2>2 DEF IInv, ServerInv
    <3>2. \A x \in tx'[u].written : tx'[u].version > rows'[x]
      BY <2>2, <3>1 DEF RequestFits
    <3>3. \A w \in Slots \ {u} : tx'[u].written \cap tx'[w].written = {}
      BY <1>4, <3>1 DEF RequestFits, Free
    <3>4. \A x \in tx'[u].applied \ tx'[u].written : rows'[x] > 0
      BY <1>3, <3>1 DEF RequestFits, Request
    <3>5. Touched(u)' \cap Photos \subseteq objects'
      BY <3>1 DEF RequestFits, Touched, Grows
    <3> QED
      BY <1>2, <3>1, <3>2, <3>3, <3>4, <3>5 DEF RequestFits
  <2> QED
    BY <2>1, <2>2
<1>6. ASSUME NEW n \in Drains, drain'[n] = drain[n], drain[n].slot # t
      PROVE  DrainFits(n)'
  <2>1. DrainFits(n) /\ Asked(n)' = Asked(n) /\ drain[n] \in DrainRun
    BY <1>1, <1>6 DEF IInv, ClientInv, Asked, TypeOK
  <2>2. Asked(n) \subseteq Items /\ (drain[n].photo # Nobody => drain[n].photo \in Items)
    BY <2>1 DEF Asked, DrainRun, Items
  <2>3. ASSUME drain[n].slot # Nobody PROVE AnswerFits(n, drain[n].slot)'
    <3>1. drain[n].slot \in Slots \ {t}
      BY <1>6, <2>1, <2>3 DEF DrainRun
    <3>2. tx'[drain[n].slot] = tx[drain[n].slot]
      BY <1>4, <3>1
    <3> QED
      BY <1>2, <1>6, <2>1, <2>2, <2>3, <3>2 DEF DrainFits, AnswerFits, Pending
  <2>4. drain[n].photo # Nobody => drain[n].photo \in objects'
    BY <2>1 DEF DrainFits, Grows
  <2>5. drain[n].pc = "dequeue" => Settled(drain[n].photo)'
    BY <1>2, <1>6, <2>1 DEF DrainFits, Items
  <2>6. drain[n].pc = "replied" => \A x \in Asked(n) : Settled(x)'
    BY <1>2, <2>1, <2>2 DEF DrainFits
  <2>7. drain[n].pc = "replied" /\ drain[n].photo # Nobody /\ drain[n].result = "applied" => rows'[drain[n].photo] > 0
    BY <1>3, <2>1, <2>2 DEF DrainFits
  <2> QED
    BY <1>6, <2>1, <2>3, <2>4, <2>5, <2>6, <2>7 DEF DrainFits
<1> QED
  BY <1>5, <1>6

LEMMA RollbackIInv ==
  ASSUME IInv, NEW t \in Slots, Rollback(t), faults' \in Nat,
         UNCHANGED <<deviceVars, objects, rows, events, aggVars>>
  PROVE  IInv'
<1> USE DEF deviceVars, aggVars
<1>1. TypeOK /\ tx \in [Slots -> Request] /\ drain \in [Drains -> DrainRun]
  BY DEF IInv, TypeOK
<1>2. \A n \in Drains : drain'[n] = IF drain[n].slot = t THEN Resting ELSE drain[n]
  BY DEF Rollback
<1>3. Free \in Request /\ Free.written \subseteq Free.applied /\ Resting \in DrainRun /\ Resting.pc = "idle" /\ Resting.slot = Nobody
  BY BoundAssumption DEF Free, Request, Outcomes, Resting, DrainRun, DrainStep
<1>4. TypeOK'
  <2>1. tx' \in [Slots -> Request] /\ drain' \in [Drains -> DrainRun]
    BY <1>1, <1>3 DEF Rollback
  <2>2. \A n \in Drains : drain'[n].pc = "waiting" <=> drain'[n].slot # Nobody
    BY <1>1, <1>2, <1>3 DEF TypeOK
  <2>3. ASSUME NEW u \in Slots
        PROVE  tx'[u].written \subseteq tx'[u].applied /\ (tx'[u].pc = "free" => tx'[u] = Free)
    <3>1. tx'[u] = IF u = t THEN Free ELSE tx[u]
      BY <1>1 DEF Rollback
    <3>2. tx[u].written \subseteq tx[u].applied /\ (tx[u].pc = "free" => tx[u] = Free)
      BY <1>1 DEF TypeOK
    <3> QED
      BY <1>3, <3>1, <3>2
  <2> QED
    BY <1>1, <2>1, <2>2, <2>3 DEF TypeOK
<1>5. Grows
  BY <1>1 DEF Grows, TypeOK
<1>6. /\ ServerInv'
      /\ \A n \in Drains : drain'[n] = drain[n] /\ drain[n].slot # t => DrainFits(n)'
  BY <1>4, <1>5, OthersFit DEF Rollback
<1>7. ClientInv'
  <2> SUFFICES ASSUME NEW n \in Drains PROVE DrainFits(n)'
    BY DEF ClientInv
  <2>1. CASE drain[n].slot = t
    BY <1>2, <2>1 DEF DrainFits, Resting
  <2>2. CASE drain[n].slot # t
    BY <1>2, <1>6, <2>2
  <2> QED
    BY <2>1, <2>2
<1>8. NothingLost' /\ BytesKept' /\ AggFits' /\ StatsFollowPhotos'
  BY SameRows DEF IInv, NothingLost, BytesKept, AggFits, Recounted, StatsFollowPhotos
<1> QED
  BY <1>4, <1>6, <1>7, <1>8 DEF IInv

LEMMA CommitIInv ==
  ASSUME IInv, NEW t \in Slots, Commit(t)
  PROVE  IInv'
<1> USE DEF deviceVars, aggVars
<1>1. /\ TypeOK /\ tx \in [Slots -> Request] /\ drain \in [Drains -> DrainRun]
      /\ rows \in [Items -> 0 .. MaxVersion] /\ RequestFits(t) /\ tx[t] \in Request
      /\ tx[t].written \subseteq tx[t].applied
  BY DEF IInv, TypeOK, ServerInv
<1>2. /\ tx[t].pc = "next" /\ tx[t].todo = {} /\ tx[t].version \in 0 .. MaxVersion /\ tx[t].version > 0
      /\ tx[t].result \in Outcomes /\ tx[t].applied \subseteq Items
  BY <1>1 DEF Commit, RequestFits, Request
<1>3. \A x \in Items : rows'[x] = IF x \in tx[t].written THEN tx[t].version ELSE rows[x]
  BY DEF Commit
<1>4. rows' \in [Items -> 0 .. MaxVersion]
  BY <1>1, <1>2 DEF Commit
<1>5. Grows
  <2>1. ASSUME NEW x \in Items PROVE rows'[x] >= rows[x]
    BY <1>1, <1>2, <1>3 DEF RequestFits
  <2> QED
    BY <2>1 DEF Grows, Commit
<1>6. \A x \in tx[t].applied : rows'[x] > 0
  BY <1>1, <1>2, <1>3 DEF RequestFits
<1>7. \A n \in Drains : drain'[n] = IF drain[n].slot = t
                                    THEN [drain[n] EXCEPT !.pc = "replied", !.slot = Nobody, !.result = tx[t].result]
                                    ELSE drain[n]
  BY DEF Commit, Reply
<1>8. ASSUME NEW n \in Drains, drain[n].slot = t
      PROVE  /\ drain'[n] \in DrainRun /\ drain'[n].pc = "replied" /\ drain'[n].slot = Nobody
             /\ drain'[n].result = tx[t].result /\ drain'[n].dev = drain[n].dev
             /\ drain'[n].photo = drain[n].photo /\ drain'[n].todo = drain[n].todo
  <2> DEFINE q == drain[n]
             r == drain'[n]
             o == tx[t].result
  <2>1. q \in DrainRun /\ r = [q EXCEPT !.pc = "replied", !.slot = Nobody, !.result = o] /\ o \in Outcomes
    BY <1>1, <1>2, <1>7, <1>8
  <2> HIDE DEF q, r, o
  <2>2. /\ r \in DrainRun /\ r.pc = "replied" /\ r.slot = Nobody /\ r.result = o
        /\ r.dev = q.dev /\ r.photo = q.photo /\ r.todo = q.todo
    BY <2>1 DEF DrainRun, DrainStep
  <2> QED
    BY <2>2 DEF q, r, o
<1>9. TypeOK'
  <2>1. Free \in Request /\ Free.written \subseteq Free.applied
    BY BoundAssumption DEF Free, Request, Outcomes
  <2>2. tx' \in [Slots -> Request]
    BY <1>1, <2>1 DEF Commit
  <2>3. drain' \in [Drains -> DrainRun]
    <3>1. \A n \in Drains : drain'[n] \in DrainRun
      BY <1>1, <1>7, <1>8
    <3> DEFINE F(n) == IF drain[n].slot = t
                       THEN [drain[n] EXCEPT !.pc = "replied", !.slot = Nobody, !.result = tx[t].result]
                       ELSE drain[n]
    <3>2. drain' = [n \in Drains |-> F(n)]
      BY DEF Commit, Reply
    <3>3. \A n \in Drains : drain'[n] = F(n)
      BY <3>2
    <3> HIDE DEF F
    <3>4. \A n \in Drains : F(n) \in DrainRun
      BY <3>1, <3>3
    <3> QED
      BY <3>2, <3>4
  <2>4. \A n \in Drains : drain'[n].pc = "waiting" <=> drain'[n].slot # Nobody
    <3>1. \A n \in Drains : drain[n].pc = "waiting" <=> drain[n].slot # Nobody
      BY <1>1 DEF TypeOK
    <3> SUFFICES ASSUME NEW n \in Drains PROVE drain'[n].pc = "waiting" <=> drain'[n].slot # Nobody
      OBVIOUS
    <3>2. CASE drain[n].slot = t
      BY <1>8, <3>2
    <3>3. CASE drain[n].slot # t
      <4>1. drain'[n] = drain[n]
        BY <1>7, <3>3
      <4> QED
        BY <3>1, <4>1
    <3> QED
      BY <3>2, <3>3
  <2>5. ASSUME NEW u \in Slots
        PROVE  tx'[u].written \subseteq tx'[u].applied /\ (tx'[u].pc = "free" => tx'[u] = Free)
    <3>1. tx'[u] = IF u = t THEN Free ELSE tx[u]
      BY <1>1 DEF Commit
    <3>2. tx[u].written \subseteq tx[u].applied /\ (tx[u].pc = "free" => tx[u] = Free)
      BY <1>1 DEF TypeOK
    <3> QED
      BY <2>1, <3>1, <3>2
  <2>6. events' \subseteq Photos
    BY <1>1 DEF Commit, TypeOK
  <2> QED
    BY <1>1, <1>4, <2>2, <2>3, <2>4, <2>5, <2>6 DEF TypeOK, Commit
<1>10. \A x \in Items : Settled(x) => Settled(x)'
  BY <1>1, <1>5, <1>9, SettledStays
<1>11. /\ ServerInv'
       /\ \A n \in Drains : drain'[n] = drain[n] /\ drain[n].slot # t => DrainFits(n)'
  <2>1. \A u \in Slots \ {t} : \A x \in tx[u].written : rows'[x] = rows[x]
    BY <1>1, <1>3 DEF RequestFits, Request
  <2>2. tx' = [tx EXCEPT ![t] = Free]
    BY DEF Commit
  <2> QED
    BY <1>5, <1>9, <2>1, <2>2, OthersFit
<1>12. ClientInv'
  <2> SUFFICES ASSUME NEW n \in Drains PROVE DrainFits(n)'
    BY DEF ClientInv
  <2>1. CASE drain[n].slot = t
    <3>1. DrainFits(n) /\ AnswerFits(n, t) /\ drain[n] \in DrainRun /\ Asked(n)' = Asked(n) /\ drain[n].pc = "waiting"
      BY <1>1, <1>8, <2>1, NobodyAssumption DEF IInv, ClientInv, DrainFits, Asked, TypeOK
    <3>2. \A x \in Asked(n) : Settled(x)'
      <4>1. Asked(n) \subseteq Items
        BY <3>1 DEF Asked, DrainRun, Items
      <4>2. \A x \in tx[t].written : Settled(x)'
        BY <1>1, <1>6 DEF Settled
      <4> QED
        BY <1>2, <1>10, <3>1, <4>1, <4>2 DEF AnswerFits, Pending
    <3>3. drain[n].photo # Nobody /\ tx[t].result = "applied" => rows'[drain[n].photo] > 0
      BY <1>6, <3>1 DEF AnswerFits
    <3>4. drain[n].photo # Nobody => drain[n].photo \in objects'
      BY <3>1 DEF DrainFits, Commit
    <3>5. drain[n].dev \in Devices
      BY <3>1 DEF DrainFits
    <3> QED
      BY <1>8, <2>1, <3>1, <3>2, <3>3, <3>4, <3>5 DEF DrainFits
  <2>2. CASE drain[n].slot # t
    BY <1>7, <1>11, <2>2
  <2> QED
    BY <2>1, <2>2
<1>13. NothingLost'
  BY <1>10 DEF IInv, NothingLost, Commit
<1>14. BytesKept'
  <2> SUFFICES ASSUME NEW p \in Photos
               PROVE  /\ taken[p] # Nobody => p \in blobs[taken[p]] \/ (p \in objects /\ rows'[p] > 0)
                      /\ rows'[p] > 0 => p \in objects
    BY DEF BytesKept, Commit
  <2>1. p \in Items /\ rows[p] \in Nat /\ rows'[p] \in Nat /\ rows'[p] >= rows[p]
    BY <1>1, <1>4, <1>5 DEF Grows, Items
  <2>2. p \in tx[t].written => p \in objects
    BY <1>1 DEF RequestFits, Touched
  <2>3. /\ taken[p] # Nobody => p \in blobs[taken[p]] \/ (p \in objects /\ rows[p] > 0)
        /\ rows[p] > 0 => p \in objects
    BY DEF IInv, BytesKept
  <2> QED
    BY <1>3, <2>1, <2>2, <2>3
<1>15. \A p \in events' : rows'[p] > 0
  <2>1. \A p \in events : rows[p] > 0 /\ p \in Items
    BY <1>1 DEF IInv, AggFits, TypeOK, Items
  <2>2. \A p \in events : rows'[p] > 0
    BY <1>1, <1>4, <1>5, <2>1 DEF Grows
  <2> QED
    BY <1>6, <2>2 DEF Commit, Published
<1>16. \A s : PhotosAt(s)' = PhotosAt(s) \/ \E p \in events' : SiteOf[p] = s /\ rows[p] = 0
  <2> SUFFICES ASSUME NEW s, PhotosAt(s)' # PhotosAt(s)
               PROVE  \E p \in events' : SiteOf[p] = s /\ rows[p] = 0
    OBVIOUS
  <2>1. PICK p \in Photos : SiteOf[p] = s /\ ~(rows'[p] > 0 <=> rows[p] > 0)
    BY DEF PhotosAt
  <2>2. p \in Items /\ rows[p] \in Nat /\ rows'[p] \in Nat /\ rows'[p] >= rows[p]
    BY <1>1, <1>4, <1>5 DEF Grows, Items
  <2>3. p \in tx[t].written /\ p \in events' /\ rows[p] = 0
    BY <1>1, <1>3, <2>1, <2>2 DEF Commit, Published
  <2> QED
    BY <2>1, <2>3
<1>17. events \subseteq events' /\ agg' = agg /\ stats' = stats
  BY DEF Commit
<1>18. ASSUME NEW s, NEW k, agg.event \in events, Recounted(s, k)
       PROVE  Recounted(s, k)'
  <2>1. rows[agg.event] > 0
    BY <1>18 DEF IInv, AggFits
  <2>2. CASE \E p \in events \ {agg.event} : SiteOf[p] = s
    BY <1>17, <2>2 DEF Recounted
  <2>3. CASE k = Cardinality(PhotosAt(s)) /\ PhotosAt(s)' = PhotosAt(s)
    BY <2>3 DEF Recounted
  <2>4. CASE \E p \in events' : SiteOf[p] = s /\ rows[p] = 0
    BY <1>17, <2>1, <2>4 DEF Recounted
  <2> QED
    BY <1>16, <1>18, <2>2, <2>3, <2>4 DEF Recounted
<1>19. AggFits'
  <2>1. /\ agg.pc # "idle" => agg.event \in events
        /\ agg.pc = "write" => Recounted(SiteOf[agg.event], agg.count)
        /\ agg.pc = "mark" => Recounted(SiteOf[agg.event], stats[SiteOf[agg.event]])
    BY DEF IInv, AggFits
  <2>2. agg'.pc = "write" => Recounted(SiteOf[agg.event], agg.count)'
    BY <1>17, <1>18, <2>1
  <2>3. agg'.pc = "mark" => Recounted(SiteOf[agg.event], stats[SiteOf[agg.event]])'
    BY <1>17, <1>18, <2>1
  <2> QED
    BY <1>15, <1>17, <2>1, <2>2, <2>3 DEF AggFits
<1>20. StatsFollowPhotos'
  <2> SUFFICES ASSUME NEW s \in Sites
               PROVE  stats'[s] = Cardinality(PhotosAt(s)') \/ \E p \in events' : SiteOf[p] = s
    BY DEF StatsFollowPhotos
  <2>1. stats[s] = Cardinality(PhotosAt(s)) \/ \E p \in events : SiteOf[p] = s
    BY DEF IInv, StatsFollowPhotos
  <2> QED
    BY <1>16, <1>17, <2>1
<1> QED
  BY <1>9, <1>11, <1>12, <1>13, <1>14, <1>19, <1>20 DEF IInv

-----------------------------------------------------------------------------
(* The start of a request.                                                 *)

LEMMA BeginIInv ==
  ASSUME IInv, NEW t \in Slots, NEW S \in SUBSET Items, NEW v \in 0 .. MaxVersion, v > 0,
         tx[t].pc = "free", S \cap Photos \subseteq objects, Begin(t, S, v),
         UNCHANGED <<deviceVars, objects, rows, events, aggVars>>, faults' \in Nat,
         drain' \in [Drains -> DrainRun],
         \A n \in Drains : /\ drain'[n].pc = "waiting" <=> drain'[n].slot # Nobody
                           /\ drain'[n] = drain[n] \/ DrainFits(n)'
  PROVE  IInv'
<1> USE DEF deviceVars, aggVars
<1>1. TypeOK /\ tx \in [Slots -> Request] /\ drain \in [Drains -> DrainRun] /\ tx[t] = Free
  BY DEF IInv, TypeOK
<1>2. /\ tx'[t] \in Request /\ tx'[t].pc = "next" /\ tx'[t].todo = S /\ tx'[t].version = v
      /\ tx'[t].written = {} /\ tx'[t].applied = {} /\ tx'[t].item = Nobody /\ tx'[t].result = "none"
  BY <1>1 DEF Begin, Free, Request, Outcomes
<1>3. tx' \in [Slots -> Request] /\ \A u \in Slots \ {t} : tx'[u] = tx[u]
  BY <1>1, <1>2 DEF Begin
<1>4. TypeOK'
  <2>1. ASSUME NEW u \in Slots
        PROVE  tx'[u].written \subseteq tx'[u].applied /\ (tx'[u].pc = "free" => tx'[u] = Free)
    <3>1. tx[u].written \subseteq tx[u].applied /\ (tx[u].pc = "free" => tx[u] = Free)
      BY <1>1 DEF TypeOK
    <3> QED
      BY <1>2, <1>3, <3>1
  <2> QED
    BY <1>1, <1>3, <2>1 DEF TypeOK
<1>5. \A x : Settled(x)' <=> Settled(x)
  BY SameRows
<1>6. ServerInv'
  <2> SUFFICES ASSUME NEW u \in Slots PROVE RequestFits(u)'
    BY DEF ServerInv
  <2>1. CASE u = t
    <3>1. Touched(t)' \cap Photos \subseteq objects'
      BY <1>2, NobodyAssumption DEF Touched, Items
    <3> QED
      BY <1>2, <2>1, <3>1 DEF RequestFits
  <2>2. CASE u # t
    <3>1. tx'[u] = tx[u] /\ RequestFits(u)
      BY <1>3, <2>2 DEF IInv, ServerInv
    <3>2. \A w \in Slots \ {u} : tx'[u].written \cap tx'[w].written = {}
      BY <1>2, <1>3, <3>1 DEF RequestFits
    <3> QED
      BY <1>5, <3>1, <3>2 DEF RequestFits, Touched
  <2> QED
    BY <2>1, <2>2
<1>7. ClientInv'
  <2> SUFFICES ASSUME NEW n \in Drains, drain'[n] = drain[n] PROVE DrainFits(n)'
    BY DEF ClientInv
  <2>1. DrainFits(n) /\ Asked(n)' = Asked(n) /\ drain[n] \in DrainRun
    BY <1>1 DEF IInv, ClientInv, Asked
  <2>2. ASSUME drain[n].slot # Nobody PROVE AnswerFits(n, drain[n].slot)'
    <3>1. drain[n].slot \in Slots /\ AnswerFits(n, drain[n].slot)
      BY <2>1, <2>2 DEF DrainRun, DrainFits
    <3>2. tx'[drain[n].slot] = tx[drain[n].slot]
      BY <1>3, <3>1 DEF AnswerFits
    <3> QED
      BY <1>5, <2>1, <3>1, <3>2 DEF AnswerFits, Pending
  <2> QED
    BY <1>5, <2>1, <2>2 DEF DrainFits
<1>8. NothingLost' /\ BytesKept' /\ AggFits' /\ StatsFollowPhotos'
  BY SameRows DEF IInv, NothingLost, BytesKept, AggFits, Recounted, StatsFollowPhotos
<1> QED
  BY <1>4, <1>6, <1>7, <1>8 DEF IInv

LEMMA EditIInv ==
  ASSUME IInv, NEW t \in Slots, NEW x \in Items, Edit(t, x)
  PROVE  IInv'
<1> USE DEF deviceVars, aggVars
<1>1. /\ rows[x] \in Nat /\ drain \in [Drains -> DrainRun] /\ MaxVersion \in Nat
      /\ \A n \in Drains : drain[n].pc = "waiting" <=> drain[n].slot # Nobody
  BY BoundAssumption DEF IInv, TypeOK
<1>2. /\ tx[t].pc = "free" /\ rows[x] > 0 /\ rows[x] < MaxVersion /\ Begin(t, {x}, rows[x] + 1)
      /\ faults' = faults + 1 /\ UNCHANGED <<deviceVars, objects, rows, drain, events, aggVars>>
  BY DEF Edit
<1>3. {x} \cap Photos \subseteq objects
  BY <1>2 DEF IInv, BytesKept
<1>4. rows[x] + 1 \in 0 .. MaxVersion /\ rows[x] + 1 > 0
  BY <1>1, <1>2
<1>5. \A n \in Drains : drain'[n] = drain[n]
  BY <1>2
<1>6. faults' \in Nat
  BY <1>2 DEF IInv, TypeOK
<1> QED
  BY <1>1, <1>2, <1>3, <1>4, <1>5, <1>6, BeginIInv

\* The drain that asks waits for its own request.
LEMMA AskIInv ==
  ASSUME IInv, NEW n \in Drains, NEW t \in Slots, drain[n].pc \in {"records", "confirm"},
         drain[n].photo # Nobody => drain[n].photo \in objects,
         tx[t].pc = "free", Begin(t, Asked(n), 1), Asked(n) \cap Photos \subseteq objects,
         drain' = [drain EXCEPT ![n] = [drain[n] EXCEPT !.pc = "waiting", !.slot = t]],
         UNCHANGED <<deviceVars, objects, rows, events, aggVars, faults>>
  PROVE  IInv'
<1>1. /\ drain \in [Drains -> DrainRun] /\ tx \in [Slots -> Request] /\ tx[t] \in Request
      /\ \A m \in Drains : drain[m].pc = "waiting" <=> drain[m].slot # Nobody
  BY DEF IInv, TypeOK
<1>2. /\ drain'[n] \in DrainRun /\ drain'[n].pc = "waiting" /\ drain'[n].slot = t
      /\ drain'[n].photo = drain[n].photo /\ drain'[n].todo = drain[n].todo /\ drain'[n].dev = drain[n].dev
  <2> DEFINE q == drain[n]
             r == drain'[n]
  <2>1. q \in DrainRun /\ r = [q EXCEPT !.pc = "waiting", !.slot = t]
    BY <1>1
  <2> HIDE DEF q, r
  <2>2. /\ r \in DrainRun /\ r.pc = "waiting" /\ r.slot = t
        /\ r.photo = q.photo /\ r.todo = q.todo /\ r.dev = q.dev
    BY <2>1 DEF DrainRun, DrainStep
  <2> QED
    BY <2>2 DEF q, r
<1>3. drain' \in [Drains -> DrainRun] /\ \A m \in Drains \ {n} : drain'[m] = drain[m]
  BY <1>1, <1>2
<1>4. Asked(n) \in SUBSET Items /\ t # Nobody /\ Asked(n)' = Asked(n)
  BY <1>1, <1>2, NobodyAssumption DEF Asked, DrainRun, Items
<1>5. /\ tx'[t].pc = "next" /\ tx'[t].todo = Asked(n) /\ tx'[t].result = "none"
  BY <1>1 DEF Begin, Free
<1>6. DrainFits(n)'
  <2>1. AnswerFits(n, t)'
    <3>1. \A x \in Asked(n) : x \in Pending(t)'
      BY <1>5 DEF Pending
    <3>2. drain[n].photo # Nobody => tx'[t].todo \subseteq {drain[n].photo}
      BY <1>5 DEF Asked
    <3> QED
      BY <1>2, <1>4, <1>5, <3>1, <3>2 DEF AnswerFits
  <2>2. drain[n].dev \in Devices
    BY DEF IInv, ClientInv, DrainFits
  <2> QED
    BY <1>2, <2>1, <2>2 DEF DrainFits
<1>7. \A m \in Drains : /\ drain'[m].pc = "waiting" <=> drain'[m].slot # Nobody
                        /\ drain'[m] = drain[m] \/ DrainFits(m)'
  BY <1>1, <1>2, <1>3, <1>4, <1>6
<1>8. 1 \in 0 .. MaxVersion /\ faults' \in Nat
  BY BoundAssumption DEF IInv, TypeOK
<1> QED
  BY <1>3, <1>4, <1>7, <1>8, BeginIInv

LEMMA PostRecordsIInv ==
  ASSUME IInv, NEW n \in Drains, NEW t \in Slots, PostRecords(n, t)
  PROVE  IInv'
<1>1. /\ drain[n].pc = "records" /\ tx[t].pc = "free" /\ Begin(t, drain[n].todo, 1)
      /\ drain' = [drain EXCEPT ![n] = [drain[n] EXCEPT !.pc = "waiting", !.slot = t]]
      /\ UNCHANGED <<deviceVars, objects, rows, events, aggVars, faults>>
  BY DEF PostRecords
<1>2. drain[n].photo = Nobody /\ drain[n].todo \subseteq Sites
  BY <1>1 DEF IInv, ClientInv, DrainFits
<1>3. Asked(n) = drain[n].todo /\ Asked(n) \cap Photos = {}
  BY <1>2, ItemsAssumption DEF Asked
<1> QED
  BY <1>1, <1>2, <1>3, AskIInv

LEMMA ConfirmIInv ==
  ASSUME IInv, NEW n \in Drains, NEW t \in Slots, Confirm(n, t)
  PROVE  IInv'
<1>1. /\ drain[n].pc = "confirm" /\ tx[t].pc = "free" /\ Begin(t, {drain[n].photo}, 1)
      /\ drain[n].photo \in objects
      /\ drain' = [drain EXCEPT ![n] = [drain[n] EXCEPT !.pc = "waiting", !.slot = t]]
      /\ UNCHANGED <<deviceVars, objects, rows, events, aggVars, faults>>
  BY DEF Confirm
<1>2. drain[n].photo \in Photos
  BY <1>1 DEF IInv, ClientInv, DrainFits
<1>3. Asked(n) = {drain[n].photo}
  BY <1>2, NobodyAssumption DEF Asked, Items
<1> QED
  BY <1>1, <1>3, AskIInv

-----------------------------------------------------------------------------
(* The steps of a drain on its device.                                     *)

\* A step of drain n to r, which leaves the server and the counts alone.
LEMMA DrainStepIInv ==
  ASSUME IInv, NEW n \in Drains, NEW r \in DrainRun, drain' = [drain EXCEPT ![n] = r],
         r.pc # "waiting" /\ r.slot = Nobody, DrainFits(n)',
         UNCHANGED <<taken, known, rows, tx, events, aggVars>>,
         outbox' \in [Devices -> SUBSET Items], blobs' \in [Devices -> SUBSET Photos],
         objects \subseteq objects', objects' \subseteq Photos, faults' \in Nat,
         NothingLost', BytesKept'
  PROVE  IInv'
<1> USE DEF aggVars
<1>1. TypeOK /\ drain \in [Drains -> DrainRun]
  BY DEF IInv, TypeOK
<1>2. /\ drain' \in [Drains -> DrainRun] /\ drain'[n] = r
      /\ \A m \in Drains \ {n} : drain'[m] = drain[m]
  BY <1>1
<1>3. TypeOK'
  <2>1. \A m \in Drains : drain'[m].pc = "waiting" <=> drain'[m].slot # Nobody
    BY <1>1, <1>2 DEF TypeOK
  <2> QED
    BY <1>1, <1>2, <2>1 DEF TypeOK
<1>4. \A x : Settled(x)' <=> Settled(x)
  BY SameRows
<1>5. ServerInv'
  BY <1>4 DEF IInv, ServerInv, RequestFits, Touched
<1>6. ClientInv'
  <2> SUFFICES ASSUME NEW m \in Drains \ {n} PROVE DrainFits(m)'
    BY DEF ClientInv
  <2>1. drain'[m] = drain[m] /\ DrainFits(m) /\ Asked(m)' = Asked(m)
    BY <1>2 DEF IInv, ClientInv, Asked
  <2>2. drain[m].slot # Nobody => AnswerFits(m, drain[m].slot)'
    BY <1>4, <2>1 DEF DrainFits, AnswerFits, Pending
  <2> QED
    BY <1>4, <2>1, <2>2 DEF DrainFits
<1>7. AggFits' /\ StatsFollowPhotos'
  BY SameRows DEF IInv, AggFits, Recounted, StatsFollowPhotos
<1> QED
  BY <1>3, <1>5, <1>6, <1>7 DEF IInv

LEMMA RestingFits ==
  ASSUME NEW n \in Drains, drain'[n] = Resting
  PROVE  DrainFits(n)'
  BY DEF DrainFits, Resting

LEMMA RestingTyped == Resting \in DrainRun /\ Resting.pc = "idle" /\ Resting.slot = Nobody
  BY DEF Resting, DrainRun, DrainStep, Outcomes

\* Of a drain that is not waiting.
LEMMA DrainTyped ==
  ASSUME IInv, NEW n \in Drains
  PROVE  /\ drain \in [Drains -> DrainRun] /\ drain[n] \in DrainRun /\ DrainFits(n)
         /\ drain[n].pc = "waiting" <=> drain[n].slot # Nobody
         /\ drain[n].todo \subseteq Items /\ drain[n].photo \in Photos \cup {Nobody}
         /\ outbox \in [Devices -> SUBSET Items] /\ blobs \in [Devices -> SUBSET Photos]
         /\ objects \subseteq Photos /\ faults \in Nat
  BY DEF IInv, TypeOK, ClientInv, DrainRun

\* An entry leaves an outbox when it is settled or not of that device.
LEMMA EntriesLeave ==
  ASSUME IInv, NEW d \in Devices, NEW S, outbox' = [outbox EXCEPT ![d] = outbox[d] \ S],
         \A x \in S \cap Items : Settled(x) \/ taken[x] # d,
         UNCHANGED <<taken, rows>>
  PROVE  NothingLost' /\ outbox' \in [Devices -> SUBSET Items]
<1>1. outbox \in [Devices -> SUBSET Items] /\ taken \in [Items -> Devices \cup {Nobody}]
  BY DEF IInv, TypeOK
<1>2. outbox' \in [Devices -> SUBSET Items]
  BY <1>1
<1>3. ASSUME NEW x \in Items
      PROVE  taken'[x] = Nobody \/ Settled(x)' \/ x \in outbox'[taken'[x]]
  <2>1. taken[x] = Nobody \/ Settled(x) \/ x \in outbox[taken[x]]
    BY DEF IInv, NothingLost
  <2>2. Settled(x) => Settled(x)'
    BY SameRows
  <2>3. CASE taken[x] # d
    BY <1>1, <2>1, <2>2, <2>3
  <2>4. CASE taken[x] = d /\ ~Settled(x)
    BY <1>1, <2>1, <2>4
  <2> QED
    BY <2>2, <2>3, <2>4
<1> QED
  BY <1>2, <1>3 DEF NothingLost

LEMMA OutboxStays ==
  ASSUME IInv, UNCHANGED <<taken, rows, outbox>>
  PROVE  NothingLost'
  BY SameRows DEF IInv, NothingLost

LEMMA BytesStay ==
  ASSUME IInv, UNCHANGED <<taken, rows, blobs, objects>>
  PROVE  BytesKept'
  BY DEF IInv, BytesKept

LEMMA StartDrainIInv ==
  ASSUME IInv, NEW n \in Drains, NEW d \in Devices, StartDrain(n, d)
  PROVE  IInv'
<1> USE DEF deviceVars, aggVars
<1> DEFINE r == [Resting EXCEPT !.dev = d, !.todo = outbox[d] \cap Sites,
                                !.pc = IF outbox[d] \cap Sites = {} THEN "list" ELSE "records"]
<1>1. drain' = [drain EXCEPT ![n] = r] /\ UNCHANGED <<deviceVars, objects, rows, tx, events, aggVars, faults>>
  BY DEF StartDrain
<1>2. /\ r \in DrainRun /\ r.pc \in {"list", "records"} /\ r.slot = Nobody /\ r.photo = Nobody
      /\ r.dev = d /\ r.todo = outbox[d] \cap Sites
  BY DEF Resting, DrainRun, DrainStep, Outcomes, Items
<1> HIDE DEF r
<1>3. drain'[n] = r
  BY <1>1, DrainTyped
<1>4. DrainFits(n)'
  BY <1>2, <1>3 DEF DrainFits
<1> QED
  BY <1>1, <1>2, <1>4, OutboxStays, BytesStay, DrainTyped, DrainStepIInv

LEMMA RecordsDoneIInv ==
  ASSUME IInv, NEW n \in Drains, RecordsDone(n)
  PROVE  IInv'
<1> USE DEF aggVars
<1> DEFINE q == drain[n]
           r == [q EXCEPT !.pc = "list", !.todo = {}, !.result = "none"]
<1>1. /\ q.pc = "replied" /\ q.photo = Nobody /\ drain' = [drain EXCEPT ![n] = r]
      /\ outbox' = [outbox EXCEPT ![q.dev] = outbox[q.dev] \ q.todo]
      /\ UNCHANGED <<taken, blobs, known, objects, rows, tx, events, aggVars, faults>>
  BY DEF RecordsDone
<1>2. /\ drain \in [Drains -> DrainRun] /\ q \in DrainRun /\ q.slot = Nobody /\ q.dev \in Devices
      /\ \A x \in q.todo : Settled(x)
  BY <1>1, DrainTyped DEF DrainFits, Asked
<1> HIDE DEF q
<1>3. /\ r \in DrainRun /\ r.pc = "list" /\ r.slot = Nobody /\ r.photo = q.photo /\ r.dev = q.dev
  BY <1>2 DEF DrainRun, DrainStep, Outcomes
<1> HIDE DEF r
<1>4. drain'[n] = r
  BY <1>1, <1>2
<1>5. DrainFits(n)'
  BY <1>1, <1>2, <1>3, <1>4 DEF DrainFits
<1>6. NothingLost' /\ outbox' \in [Devices -> SUBSET Items]
  BY <1>1, <1>2, EntriesLeave
<1> QED
  BY <1>1, <1>3, <1>5, <1>6, BytesStay, DrainTyped, DrainStepIInv

LEMMA ListPhotosIInv ==
  ASSUME IInv, NEW n \in Drains, ListPhotos(n)
  PROVE  IInv'
<1> USE DEF deviceVars, aggVars
<1> DEFINE q == drain[n]
           S == outbox[q.dev] \cap Photos
           s == [q EXCEPT !.pc = "photos", !.todo = S]
           r == IF S = {} THEN Resting ELSE s
<1>1. /\ q.pc = "list" /\ drain' = [drain EXCEPT ![n] = r]
      /\ UNCHANGED <<deviceVars, objects, rows, tx, events, aggVars, faults>>
  BY DEF ListPhotos
<1>2. /\ drain \in [Drains -> DrainRun] /\ q \in DrainRun /\ q.slot = Nobody /\ q.dev \in Devices
      /\ q.photo # Nobody => q.photo \in objects
  BY <1>1, DrainTyped DEF DrainFits
<1>3. S \in SUBSET Items
  BY DEF Items
<1> HIDE DEF q, S
<1>4. /\ s \in DrainRun /\ s.pc = "photos" /\ s.slot = Nobody /\ s.photo = q.photo /\ s.dev = q.dev
  BY <1>2, <1>3 DEF DrainRun, DrainStep
<1> HIDE DEF s
<1>5. r \in DrainRun /\ r.pc # "waiting" /\ r.slot = Nobody
  BY <1>4, RestingTyped
<1>6. drain'[n] = r
  BY <1>1, <1>2
<1>7. DrainFits(n)'
  <2>1. CASE S = {}
    BY <1>6, <2>1, RestingFits
  <2>2. CASE S # {}
    BY <1>1, <1>2, <1>4, <1>6, <2>2 DEF DrainFits
  <2> QED
    BY <2>1, <2>2
<1> HIDE DEF r
<1> QED
  BY <1>1, <1>5, <1>7, OutboxStays, BytesStay, DrainTyped, DrainStepIInv

\* What AfterPhoto leaves of the drain.
LEMMA AfterPhotoFits ==
  ASSUME IInv, NEW n \in Drains, NEW p, AfterPhoto(n, p), drain[n].pc \notin {"idle", "waiting"}
  PROVE  \E r \in DrainRun : /\ drain' = [drain EXCEPT ![n] = r]
                             /\ r.pc # "waiting" /\ r.slot = Nobody /\ DrainFits(n)'
<1> DEFINE q == drain[n]
           S == drain[n].todo \ {p}
           s == [q EXCEPT !.pc = "photos", !.todo = S, !.photo = Nobody, !.result = "none"]
           r == IF drain[n].todo \subseteq {p} THEN Resting ELSE s
<1>1. drain' = [drain EXCEPT ![n] = r]
  BY DEF AfterPhoto
<1>2. drain \in [Drains -> DrainRun] /\ q \in DrainRun /\ q.slot = Nobody /\ q.dev \in Devices /\ S \in SUBSET Items
  BY DrainTyped DEF DrainFits
<1> HIDE DEF q, S
<1>3. s \in DrainRun /\ s.pc = "photos" /\ s.slot = Nobody /\ s.photo = Nobody /\ s.dev = q.dev
  BY <1>2 DEF DrainRun, DrainStep, Outcomes
<1> HIDE DEF s
<1>4. r \in DrainRun /\ r.pc # "waiting" /\ r.slot = Nobody
  BY <1>3, RestingTyped
<1>5. drain'[n] = r
  BY <1>1, <1>2
<1>6. DrainFits(n)'
  <2>1. CASE r = Resting
    BY <1>5, <2>1, RestingFits
  <2>2. CASE r = s
    BY <1>2, <1>3, <1>5, <2>2 DEF DrainFits
  <2> QED
    BY <2>1, <2>2
<1> HIDE DEF r
<1> QED
  BY <1>1, <1>4, <1>6

LEMMA DropEntryIInv ==
  ASSUME IInv, NEW n \in Drains, NEW p \in Photos, DropEntry(n, p)
  PROVE  IInv'
<1> USE DEF aggVars
<1>1. /\ drain[n].pc = "photos" /\ p \notin blobs[drain[n].dev] /\ AfterPhoto(n, p)
      /\ outbox' = [outbox EXCEPT ![drain[n].dev] = outbox[drain[n].dev] \ {p}]
      /\ UNCHANGED <<taken, blobs, known, objects, rows, tx, events, aggVars, faults>>
  BY DEF DropEntry
<1>2. PICK r \in DrainRun : /\ drain' = [drain EXCEPT ![n] = r]
                            /\ r.pc # "waiting" /\ r.slot = Nobody /\ DrainFits(n)'
  BY <1>1, AfterPhotoFits
<1>3. drain[n].dev \in Devices /\ drain[n].dev # Nobody
  BY <1>1, DrainTyped, NobodyAssumption DEF DrainFits
<1>4. Settled(p) \/ taken[p] # drain[n].dev
  BY <1>1, <1>3 DEF IInv, BytesKept, Settled
<1>5. NothingLost' /\ outbox' \in [Devices -> SUBSET Items]
  <2> DEFINE d == drain[n].dev
             S == {p}
  <2>1. d \in Devices /\ outbox' = [outbox EXCEPT ![d] = outbox[d] \ S] /\ UNCHANGED <<taken, rows>>
    BY <1>1, <1>3
  <2>2. \A x \in S \cap Items : Settled(x) \/ taken[x] # d
    BY <1>3, <1>4
  <2> HIDE DEF d, S
  <2> QED
    BY <2>1, <2>2, EntriesLeave
<1> QED
  BY <1>1, <1>2, <1>5, BytesStay, DrainTyped, DrainStepIInv

LEMMA PutObjectIInv ==
  ASSUME IInv, NEW n \in Drains, NEW p \in Photos, PutObject(n, p)
  PROVE  IInv'
<1> USE DEF deviceVars, aggVars
<1> DEFINE q == drain[n]
           r == [q EXCEPT !.pc = "confirm", !.photo = p]
<1>1. /\ q.pc = "photos" /\ drain' = [drain EXCEPT ![n] = r] /\ objects' = objects \cup {p}
      /\ UNCHANGED <<deviceVars, rows, tx, events, aggVars, faults>>
  BY DEF PutObject
<1>2. drain \in [Drains -> DrainRun] /\ q \in DrainRun /\ q.slot = Nobody /\ q.dev \in Devices
  BY <1>1, DrainTyped DEF DrainFits
<1> HIDE DEF q
<1>3. r \in DrainRun /\ r.pc = "confirm" /\ r.slot = Nobody /\ r.photo = p /\ r.dev = q.dev
  BY <1>2 DEF DrainRun, DrainStep
<1> HIDE DEF r
<1>4. drain'[n] = r
  BY <1>1, <1>2
<1>5. DrainFits(n)'
  BY <1>1, <1>2, <1>3, <1>4 DEF DrainFits
<1>6. BytesKept'
  BY <1>1 DEF IInv, BytesKept
<1>7. objects \subseteq objects' /\ objects' \subseteq Photos
  BY <1>1, DrainTyped
<1> QED
  BY <1>1, <1>3, <1>5, <1>6, <1>7, OutboxStays, DrainTyped, DrainStepIInv

LEMMA DeleteBlobIInv ==
  ASSUME IInv, NEW n \in Drains, DeleteBlob(n)
  PROVE  IInv'
<1> USE DEF aggVars
<1> DEFINE q == drain[n]
           r == [q EXCEPT !.pc = "dequeue"]
<1>1. /\ q.pc = "replied" /\ q.photo # Nobody /\ drain' = [drain EXCEPT ![n] = r]
      /\ blobs' = IF q.result = "applied" THEN [blobs EXCEPT ![q.dev] = blobs[q.dev] \ {q.photo}] ELSE blobs
      /\ UNCHANGED <<taken, outbox, known, objects, rows, tx, events, aggVars, faults>>
  BY DEF DeleteBlob, Uploaded
<1>2. /\ drain \in [Drains -> DrainRun] /\ q \in DrainRun /\ q.slot = Nobody /\ q.dev \in Devices
      /\ q.photo \in Photos /\ q.photo \in objects /\ Settled(q.photo)
      /\ q.result = "applied" => rows[q.photo] > 0
  BY <1>1, DrainTyped DEF DrainFits, Asked
<1> HIDE DEF q
<1>3. r \in DrainRun /\ r.pc = "dequeue" /\ r.slot = Nobody /\ r.photo = q.photo /\ r.dev = q.dev
  BY <1>2 DEF DrainRun, DrainStep
<1> HIDE DEF r
<1>4. drain'[n] = r
  BY <1>1, <1>2
<1>5. Settled(q.photo) => \A x : x = q.photo => Settled(x)'
  BY <1>1, SameRows
<1>6. DrainFits(n)'
  BY <1>1, <1>2, <1>3, <1>4, <1>5 DEF DrainFits
<1>7. blobs' \in [Devices -> SUBSET Photos] /\ taken \in [Items -> Devices \cup {Nobody}]
  BY <1>1, <1>2, DrainTyped DEF IInv, TypeOK
<1>8. BytesKept'
  <2> SUFFICES ASSUME NEW p \in Photos
               PROVE  /\ taken[p] # Nobody => p \in blobs'[taken[p]] \/ (p \in objects /\ rows[p] > 0)
                      /\ rows[p] > 0 => p \in objects
    BY <1>1 DEF BytesKept
  <2>1. /\ taken[p] # Nobody => p \in blobs[taken[p]] \/ (p \in objects /\ rows[p] > 0)
        /\ rows[p] > 0 => p \in objects
    BY DEF IInv, BytesKept
  <2>2. taken[p] \in Devices \cup {Nobody}
    BY <1>7 DEF Items
  <2>3. blobs \in [Devices -> SUBSET Photos]
    BY DEF IInv, TypeOK
  <2>4. CASE p = q.photo /\ q.result = "applied"
    BY <1>2, <2>1, <2>4
  <2>5. CASE p # q.photo \/ q.result # "applied"
    BY <1>1, <2>1, <2>2, <2>3, <2>5
  <2> QED
    BY <2>4, <2>5
<1> QED
  BY <1>1, <1>3, <1>6, <1>7, <1>8, OutboxStays, DrainTyped, DrainStepIInv

LEMMA DequeueIInv ==
  ASSUME IInv, NEW n \in Drains, Dequeue(n)
  PROVE  IInv'
<1> USE DEF aggVars
<1>1. /\ drain[n].pc = "dequeue" /\ AfterPhoto(n, drain[n].photo)
      /\ outbox' = [outbox EXCEPT ![drain[n].dev] = outbox[drain[n].dev] \ {drain[n].photo}]
      /\ UNCHANGED <<taken, blobs, known, objects, rows, tx, events, aggVars, faults>>
  BY DEF Dequeue
<1>2. PICK r \in DrainRun : /\ drain' = [drain EXCEPT ![n] = r]
                            /\ r.pc # "waiting" /\ r.slot = Nobody /\ DrainFits(n)'
  BY <1>1, AfterPhotoFits
<1>3. drain[n].dev \in Devices /\ Settled(drain[n].photo)
  BY <1>1, DrainTyped DEF DrainFits
<1>4. NothingLost' /\ outbox' \in [Devices -> SUBSET Items]
  <2> DEFINE d == drain[n].dev
             S == {drain[n].photo}
  <2>1. d \in Devices /\ outbox' = [outbox EXCEPT ![d] = outbox[d] \ S] /\ UNCHANGED <<taken, rows>>
    BY <1>1, <1>3
  <2>2. \A x \in S \cap Items : Settled(x) \/ taken[x] # d
    BY <1>3
  <2> HIDE DEF d, S
  <2> QED
    BY <2>1, <2>2, EntriesLeave
<1> QED
  BY <1>1, <1>2, <1>4, BytesStay, DrainTyped, DrainStepIInv

LEMMA LoseDrainIInv ==
  ASSUME IInv, NEW n \in Drains, LoseDrain(n)
  PROVE  IInv'
<1> USE DEF deviceVars, aggVars
<1>1. /\ drain' = [drain EXCEPT ![n] = Resting] /\ faults' = faults + 1
      /\ UNCHANGED <<deviceVars, objects, rows, tx, events, aggVars>>
  BY DEF LoseDrain
<1>2. drain'[n] = Resting
  BY <1>1, DrainTyped
<1>3. DrainFits(n)'
  BY <1>2, RestingFits
<1>4. faults' \in Nat
  BY <1>1, DrainTyped
<1> QED
  BY <1>1, <1>3, <1>4, RestingTyped, OutboxStays, BytesStay, DrainTyped, DrainStepIInv

-----------------------------------------------------------------------------
(* The device and the aggregator.                                          *)

\* The parts of the invariant that neither of them touches.
LEMMA ServerStays ==
  ASSUME IInv, UNCHANGED <<objects, rows, drain, tx>>
  PROVE  ServerInv' /\ ClientInv'
<1>1. \A x : Settled(x)' <=> Settled(x)
  BY SameRows
<1>2. ServerInv'
  BY <1>1 DEF IInv, ServerInv, RequestFits, Touched
<1>3. ClientInv'
  BY <1>1 DEF IInv, ClientInv, DrainFits, AnswerFits, Asked, Pending
<1> QED
  BY <1>2, <1>3

LEMMA CaptureIInv ==
  ASSUME IInv, NEW d \in Devices, NEW x \in Items, Capture(d, x)
  PROVE  IInv'
<1> USE DEF aggVars
<1>1. /\ taken[x] = Nobody /\ taken' = [taken EXCEPT ![x] = d]
      /\ outbox' = [outbox EXCEPT ![d] = outbox[d] \cup {x}]
      /\ blobs' = [blobs EXCEPT ![d] = blobs[d] \cup ({x} \cap Photos)]
      /\ known' = [known EXCEPT ![d] = known[d] \cup ({x} \cap Sites)]
      /\ UNCHANGED <<objects, rows, drain, tx, events, aggVars, faults>>
  BY DEF Capture
<1>2. TypeOK
  BY DEF IInv
<1>3. /\ taken' \in [Items -> Devices \cup {Nobody}] /\ outbox' \in [Devices -> SUBSET Items]
      /\ blobs' \in [Devices -> SUBSET Photos] /\ known' \in [Devices -> SUBSET Sites]
  BY <1>1, <1>2 DEF TypeOK
<1>4. TypeOK'
  BY <1>1, <1>2, <1>3 DEF TypeOK
<1>5. NothingLost'
  <2> SUFFICES ASSUME NEW y \in Items
               PROVE  taken'[y] = Nobody \/ Settled(y)' \/ y \in outbox'[taken'[y]]
    BY DEF NothingLost
  <2>1. taken[y] = Nobody \/ Settled(y) \/ y \in outbox[taken[y]]
    BY DEF IInv, NothingLost
  <2>2. Settled(y) => Settled(y)'
    BY <1>1, SameRows
  <2>3. taken \in [Items -> Devices \cup {Nobody}] /\ outbox \in [Devices -> SUBSET Items]
    BY <1>2 DEF TypeOK
  <2> QED
    BY <1>1, <2>1, <2>2, <2>3
<1>6. BytesKept'
  <2> SUFFICES ASSUME NEW p \in Photos
               PROVE  /\ taken'[p] # Nobody => p \in blobs'[taken'[p]] \/ (p \in objects /\ rows[p] > 0)
                      /\ rows[p] > 0 => p \in objects
    BY <1>1 DEF BytesKept
  <2>1. /\ taken[p] # Nobody => p \in blobs[taken[p]] \/ (p \in objects /\ rows[p] > 0)
        /\ rows[p] > 0 => p \in objects
    BY DEF IInv, BytesKept
  <2>2. taken \in [Items -> Devices \cup {Nobody}] /\ blobs \in [Devices -> SUBSET Photos] /\ p \in Items
    BY <1>2 DEF TypeOK, Items
  <2> QED
    BY <1>1, <2>1, <2>2
<1>7. AggFits' /\ StatsFollowPhotos'
  BY <1>1, SameRows DEF IInv, AggFits, Recounted, StatsFollowPhotos
<1> QED
  BY <1>1, <1>4, <1>5, <1>6, <1>7, ServerStays DEF IInv

LEMMA PullIInv ==
  ASSUME IInv, NEW d \in Devices, Pull(d)
  PROVE  IInv'
<1> USE DEF aggVars
<1>1. /\ known' = [known EXCEPT ![d] = known[d] \cup {s \in Sites : rows[s] > 0}]
      /\ UNCHANGED <<taken, outbox, blobs, objects, rows, drain, tx, events, aggVars, faults>>
  BY DEF Pull
<1>2. TypeOK'
  BY <1>1 DEF IInv, TypeOK
<1>3. AggFits' /\ StatsFollowPhotos'
  BY <1>1, SameRows DEF IInv, AggFits, Recounted, StatsFollowPhotos
<1> QED
  BY <1>1, <1>2, <1>3, OutboxStays, BytesStay, ServerStays DEF IInv

\* What the aggregator's steps leave.
LEMMA AggregateIInv ==
  ASSUME IInv, UNCHANGED <<deviceVars, objects, rows, drain, tx, faults>>,
         events' \subseteq Photos, stats' \in [Sites -> Nat],
         agg' \in [pc : {"idle", "write", "mark"}, event : Photos \cup {Nobody}, count : Nat],
         AggFits', StatsFollowPhotos'
  PROVE  IInv'
<1> USE DEF deviceVars
<1>1. TypeOK'
  BY DEF IInv, TypeOK
<1> QED
  BY <1>1, OutboxStays, BytesStay, ServerStays DEF IInv

LEMMA AggTyped ==
  ASSUME IInv
  PROVE  /\ agg \in [pc : {"idle", "write", "mark"}, event : Photos \cup {Nobody}, count : Nat]
         /\ events \subseteq Photos /\ stats \in [Sites -> Nat]
         /\ agg.pc # "idle" => agg.event \in events /\ SiteOf[agg.event] \in Sites
  BY ItemsAssumption DEF IInv, TypeOK, AggFits

LEMMA TakeEventIInv ==
  ASSUME IInv, NEW p \in Photos, TakeEvent(p)
  PROVE  IInv'
<1> USE DEF deviceVars
<1> DEFINE k == Cardinality(PhotosAt(SiteOf[p]))
           q == agg
           r == [q EXCEPT !.pc = "write", !.event = p, !.count = k]
<1>1. /\ p \in events /\ agg' = r
      /\ UNCHANGED <<deviceVars, objects, rows, drain, tx, events, stats, faults>>
  BY DEF TakeEvent
<1>2. k \in Nat /\ q \in [pc : {"idle", "write", "mark"}, event : Photos \cup {Nobody}, count : Nat]
  BY PhotosAtCounted, AggTyped
<1>3. PhotosAt(SiteOf[p])' = PhotosAt(SiteOf[p])
  BY <1>1, SameRows
<1>4. k' = k
  BY <1>3
<1> HIDE DEF k, q
<1>5. /\ r \in [pc : {"idle", "write", "mark"}, event : Photos \cup {Nobody}, count : Nat]
      /\ r.pc = "write" /\ r.event = p /\ r.count = k
  BY <1>2
<1> HIDE DEF r
<1>6. AggFits'
  <2>1. \A y \in events' : rows'[y] > 0
    BY <1>1 DEF IInv, AggFits
  <2>2. Recounted(SiteOf[p], k)'
    BY <1>4 DEF Recounted, k
  <2>3. agg'.pc = "write" /\ agg'.event = p /\ agg'.count = k
    BY <1>1, <1>5
  <2> QED
    BY <1>1, <1>4, <2>1, <2>2, <2>3 DEF AggFits
<1>7. StatsFollowPhotos'
  BY <1>1, SameRows DEF IInv, StatsFollowPhotos
<1> QED
  BY <1>1, <1>5, <1>6, <1>7, AggTyped, AggregateIInv

LEMMA WriteStatsIInv ==
  ASSUME IInv, WriteStats
  PROVE  IInv'
<1> USE DEF deviceVars
<1> DEFINE s == SiteOf[agg.event]
           q == agg
           k == agg.count
           r == [q EXCEPT !.pc = "mark"]
<1>1. /\ agg.pc = "write" /\ agg' = r /\ stats' = [stats EXCEPT ![s] = k]
      /\ UNCHANGED <<deviceVars, objects, rows, drain, tx, events, faults>>
  BY DEF WriteStats
<1>2. /\ q \in [pc : {"idle", "write", "mark"}, event : Photos \cup {Nobody}, count : Nat]
      /\ q.event \in events /\ s \in Sites /\ k \in Nat /\ stats \in [Sites -> Nat] /\ k = q.count
  BY <1>1, AggTyped
<1>3. Recounted(s, k)
  BY <1>1 DEF IInv, AggFits
<1>4. \A x : PhotosAt(x)' = PhotosAt(x)
  BY <1>1, SameRows
<1>5. s = SiteOf[q.event] /\ q = agg
  OBVIOUS
<1> HIDE DEF s, q, k
<1>6. /\ r \in [pc : {"idle", "write", "mark"}, event : Photos \cup {Nobody}, count : Nat]
      /\ r.pc = "mark" /\ r.event = q.event
  BY <1>2
<1> HIDE DEF r
<1>7. stats' \in [Sites -> Nat] /\ stats'[s] = k /\ \A x \in Sites \ {s} : stats'[x] = stats[x]
  BY <1>1, <1>2
<1>8. k = Cardinality(PhotosAt(s)) \/ \E p \in events \ {q.event} : SiteOf[p] = s
  BY <1>3, <1>5 DEF Recounted
<1>9. AggFits'
  <2>1. \A y \in events' : rows'[y] > 0
    BY <1>1 DEF IInv, AggFits
  <2>2. agg'.pc = "mark" /\ agg'.event = q.event /\ events' = events
    BY <1>1, <1>6
  <2>3. Recounted(SiteOf[agg.event], stats[SiteOf[agg.event]])'
    <3>1. SiteOf[agg'.event] = s /\ stats'[SiteOf[agg'.event]] = k
      BY <1>5, <1>7, <2>2
    <3> QED
      BY <1>4, <1>8, <2>2, <3>1 DEF Recounted
  <2> QED
    BY <1>2, <2>1, <2>2, <2>3 DEF AggFits
<1>10. StatsFollowPhotos'
  <2> SUFFICES ASSUME NEW x \in Sites
               PROVE  stats'[x] = Cardinality(PhotosAt(x)') \/ \E p \in events' : SiteOf[p] = x
    BY DEF StatsFollowPhotos
  <2>1. stats[x] = Cardinality(PhotosAt(x)) \/ \E p \in events : SiteOf[p] = x
    BY DEF IInv, StatsFollowPhotos
  <2>2. CASE x = s
    BY <1>1, <1>4, <1>7, <1>8, <2>2
  <2>3. CASE x # s
    BY <1>1, <1>4, <1>7, <2>1, <2>3
  <2> QED
    BY <2>2, <2>3
<1> QED
  BY <1>1, <1>6, <1>7, <1>9, <1>10, AggTyped, AggregateIInv

LEMMA MarkProcessedIInv ==
  ASSUME IInv, MarkProcessed
  PROVE  IInv'
<1> USE DEF deviceVars
<1>1. /\ agg.pc = "mark" /\ events' = events \ {agg.event} /\ agg' = Unused
      /\ UNCHANGED <<deviceVars, objects, rows, drain, tx, stats, faults>>
  BY DEF MarkProcessed, Handled
<1>2. Recounted(SiteOf[agg.event], stats[SiteOf[agg.event]])
  BY <1>1 DEF IInv, AggFits
<1>3. \A x : PhotosAt(x)' = PhotosAt(x)
  BY <1>1, SameRows
<1>4. Unused \in [pc : {"idle", "write", "mark"}, event : Photos \cup {Nobody}, count : Nat] /\ Unused.pc = "idle"
  BY DEF Unused
<1>5. AggFits'
  <2>1. \A y \in events' : rows'[y] > 0
    BY <1>1 DEF IInv, AggFits
  <2> QED
    BY <1>1, <1>4, <2>1 DEF AggFits
<1>6. StatsFollowPhotos'
  <2> SUFFICES ASSUME NEW x \in Sites
               PROVE  stats[x] = Cardinality(PhotosAt(x)) \/ \E p \in events' : SiteOf[p] = x
    BY <1>1, <1>3 DEF StatsFollowPhotos
  <2>1. stats[x] = Cardinality(PhotosAt(x)) \/ \E p \in events : SiteOf[p] = x
    BY DEF IInv, StatsFollowPhotos
  <2>2. CASE x = SiteOf[agg.event]
    BY <1>1, <1>2, <2>2 DEF Recounted
  <2>3. CASE x # SiteOf[agg.event]
    BY <1>1, <2>1, <2>3
  <2> QED
    BY <2>2, <2>3
<1>7. events' \subseteq Photos /\ stats' \in [Sites -> Nat]
  BY <1>1, AggTyped
<1> QED
  BY <1>1, <1>4, <1>5, <1>6, <1>7, AggregateIInv

-----------------------------------------------------------------------------
(* Every step.                                                             *)

LEMMA ServerIInv ==
  ASSUME IInv, NEW t \in Slots, Server(t) \/ FailRequest(t)
  PROVE  IInv'
<1>1. ASSUME NEW x \in Items, NextRecord(t, x) PROVE IInv'
  BY <1>1, NextRecordIInv
<1>2. CASE Upsert(t)
  BY <1>2, UpsertIInv
<1>3. CASE Classify(t)
  BY <1>3, ClassifyIInv
<1>4. CASE Commit(t)
  BY <1>4, CommitIInv
<1>5. faults \in Nat
  BY DEF IInv, TypeOK
<1>6. CASE RefuseOrphan(t)
  <2>1. Rollback(t) /\ faults' \in Nat /\ UNCHANGED <<deviceVars, objects, rows, events, aggVars>>
    BY <1>5, <1>6 DEF RefuseOrphan
  <2> QED
    BY <2>1, RollbackIInv
<1>7. CASE FailRequest(t)
  <2>1. Rollback(t) /\ faults' \in Nat /\ UNCHANGED <<deviceVars, objects, rows, events, aggVars>>
    BY <1>5, <1>7 DEF FailRequest
  <2> QED
    BY <2>1, RollbackIInv
<1> QED
  BY <1>1, <1>2, <1>3, <1>4, <1>6, <1>7 DEF Server

LEMMA DrainIInv ==
  ASSUME IInv, NEW n \in Drains, Drain(n) \/ LoseDrain(n)
  PROVE  IInv'
<1>1. ASSUME NEW d \in Devices, StartDrain(n, d) PROVE IInv'
  BY <1>1, StartDrainIInv
<1>2. ASSUME NEW t \in Slots, PostRecords(n, t) PROVE IInv'
  BY <1>2, PostRecordsIInv
<1>3. ASSUME NEW t \in Slots, Confirm(n, t) PROVE IInv'
  BY <1>3, ConfirmIInv
<1>4. CASE RecordsDone(n)
  BY <1>4, RecordsDoneIInv
<1>5. CASE ListPhotos(n)
  BY <1>5, ListPhotosIInv
<1>6. CASE DeleteBlob(n)
  BY <1>6, DeleteBlobIInv
<1>7. CASE Dequeue(n)
  BY <1>7, DequeueIInv
<1>8. ASSUME NEW p \in Photos, DropEntry(n, p) PROVE IInv'
  BY <1>8, DropEntryIInv
<1>9. ASSUME NEW p \in Photos, PutObject(n, p) PROVE IInv'
  BY <1>9, PutObjectIInv
<1>10. CASE LoseDrain(n)
  BY <1>10, LoseDrainIInv
<1> QED
  BY <1>1, <1>2, <1>3, <1>4, <1>5, <1>6, <1>7, <1>8, <1>9, <1>10 DEF Drain

LEMMA StutterIInv ==
  ASSUME IInv, UNCHANGED vars
  PROVE  IInv'
<1> USE DEF vars, deviceVars, aggVars
<1>1. TypeOK'
  BY DEF IInv, TypeOK
<1>2. AggFits' /\ StatsFollowPhotos'
  BY SameRows DEF IInv, AggFits, Recounted, StatsFollowPhotos
<1> QED
  BY <1>1, <1>2, OutboxStays, BytesStay, ServerStays DEF IInv

LEMMA NextIInv == IInv /\ [Next]_vars => IInv'
<1> SUFFICES ASSUME IInv, [Next]_vars PROVE IInv'
  OBVIOUS
<1>1. ASSUME NEW d \in Devices, Pull(d) PROVE IInv'
  BY <1>1, PullIInv
<1>2. ASSUME NEW d \in Devices, NEW x \in Items, Capture(d, x) PROVE IInv'
  BY <1>2, CaptureIInv
<1>3. ASSUME NEW t \in Slots, Server(t) \/ FailRequest(t) PROVE IInv'
  BY <1>3, ServerIInv
<1>4. ASSUME NEW t \in Slots, NEW x \in Editable, Edit(t, x) PROVE IInv'
  BY <1>4, EditIInv, BoundAssumption
<1>5. ASSUME NEW n \in Drains, Drain(n) \/ LoseDrain(n) PROVE IInv'
  BY <1>5, DrainIInv
<1>6. ASSUME NEW p \in Photos, TakeEvent(p) PROVE IInv'
  BY <1>6, TakeEventIInv
<1>7. CASE WriteStats
  BY <1>7, WriteStatsIInv
<1>8. CASE MarkProcessed
  BY <1>8, MarkProcessedIInv
<1>9. CASE UNCHANGED vars
  BY <1>9, StutterIInv
<1> QED
  BY <1>1, <1>2, <1>3, <1>4, <1>5, <1>6, <1>7, <1>8, <1>9 DEF Next, Aggregate

\* sync.go, photos.go, syncEngine.ts: what drains, requests and the aggregator
\* remember stays true of the rows, the bytes and the events, for any number of
\* them and any failures.
THEOREM Invariance == Spec => []IInv
  BY InitIInv, NextIInv, PTL DEF Spec

\* The types of TypeOK hold for any number of devices, drains and requests.
THEOREM TypeCorrect == Spec => []TypeOK
<1>1. IInv => TypeOK
  BY DEF IInv
<1> QED
  BY <1>1, Invariance, PTL

\* syncEngine.ts drainOutbox: for any cap and any number of failures, an entry
\* leaves the outbox only when the server has its record or its site is full.
THEOREM NothingIsLost == Spec => []NothingLost
<1>1. IInv => NothingLost
  BY DEF IInv
<1> QED
  BY <1>1, Invariance, PTL

\* syncEngine.ts drainPhotos, photos.go confirm: the bytes of a photo are on its
\* device or named by a committed row, however requests and drains fail.
THEOREM BytesAreKept == Spec => []BytesKept
<1>1. IInv => BytesKept
  BY DEF IInv
<1> QED
  BY <1>1, Invariance, PTL

\* dashboardaggregator: for any number of photos and requests, counts that differ
\* from the committed photos still have an event to correct them.
THEOREM StatsFollow == Spec => []StatsFollowPhotos
<1>1. IInv => StatsFollowPhotos
  BY DEF IInv
<1> QED
  BY <1>1, Invariance, PTL

\* UpsertSiteAssessment, UpsertPhoto: of any number of transactions at once none
\* replaces a committed version by an older one.
THEOREM LastWriteWins == Spec => NoLostUpdate
<1>1. IInv /\ [Next]_vars => [\A x \in Items : rows'[x] >= rows[x]]_vars
  <2> SUFFICES ASSUME IInv, [Next]_vars, vars' # vars, NEW x \in Items PROVE rows'[x] >= rows[x]
    BY DEF vars
  <2>1. rows[x] \in Nat
    BY DEF IInv, TypeOK
  <2>2. CASE rows' = rows
    BY <2>1, <2>2
  <2>3. ASSUME NEW t \in Slots, Commit(t) PROVE rows'[x] >= rows[x]
    <3>1. RequestFits(t) /\ tx[t].version \in Nat
      BY DEF IInv, ServerInv, TypeOK, Request
    <3> QED
      BY <2>1, <2>3, <3>1 DEF Commit, RequestFits
  <2>4. rows' = rows \/ \E t \in Slots : Commit(t)
    BY DEF Next, Server, Drain, Aggregate, vars, deviceVars, aggVars, Pull, Capture, NextRecord, Upsert, Classify,
           RefuseOrphan, FailRequest, Edit, StartDrain, PostRecords, Confirm, RecordsDone, ListPhotos, DeleteBlob,
           Dequeue, DropEntry, PutObject, LoseDrain, TakeEvent, WriteStats, MarkProcessed
  <2> QED
    BY <2>2, <2>3, <2>4
<1> QED
  BY <1>1, Invariance, PTL DEF Spec, NoLostUpdate
=============================================================================
