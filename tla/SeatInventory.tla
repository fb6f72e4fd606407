--------------------------- MODULE SeatInventory ---------------------------
(***************************************************************************)
(* The seat inventory of the ticket-booking service for one event:         *)
(* Postgres rows in event_seats as the arbiter, Redis keys as a contention *)
(* filter that may be wrong, any number of API calls and saga steps in     *)
(* flight, and the hold reaper.                                            *)
(*                                                                         *)
(* One AcquireHold invocation is named by the hold id it generates, so the *)
(* state of the invocation is a function of the hold id.  ReleaseHold,     *)
(* ExtendHold and ConfirmSeats run on Workers (HTTP handlers, sagas) and,  *)
(* for the active release, on Reaper.  Each database transaction is one    *)
(* step, but BEGIN, where Postgres fixes now(), is a step of its own for   *)
(* the transactions whose statements compare hold_expires_at with now().   *)
(* booking_id is named by the hold whose confirmation wrote it.            *)
(***************************************************************************)
EXTENDS Naturals, FiniteSets

CONSTANTS
  Seats,            \* seat_id values: the code sorts them ascending
  Sellable,         \* event_seats.sellable, fixed at publication
  Holds,            \* the hold ids that will be generated
  Workers,          \* concurrent callers of release, extend and confirm
  Reaper,           \* the hold reaper's own caller
  NoHold,           \* SQL NULL, and an absent Redis key
  MaxSeatsPerHold,
  HoldTTL,          \* HOLD_TTL_SECONDS, in ticks
  Extensions,       \* the extensions callers ask ExtendHold for, in ticks
  SlowExtends,      \* whether an extension may take time from now() to commit
  LastExpiry,       \* bound: no hold is granted or extended beyond it
  MaxTime           \* bound: the clock stops here

ASSUME SeatsAssumption    == Seats \subseteq Nat /\ Sellable \subseteq Seats
ASSUME NoHoldAssumption   == NoHold \notin Holds
ASSUME ReaperAssumption   == Reaper \notin Workers
ASSUME TimesAssumption == 
  /\ {HoldTTL, LastExpiry, MaxTime, MaxSeatsPerHold} \cup Extensions \subseteq Nat
  /\ LastExpiry <= MaxTime
  /\ SlowExtends \in BOOLEAN

VARIABLES
  now,      \* the database clock
  seats,    \* the event_seats rows
  redis,    \* redis[s]: the hold id stored under the seat's key
  acq,      \* acq[h]: the AcquireHold invocation that generated h
  call,     \* call[w]: the release, extend or confirm call w is executing
  scan,     \* holds listed by the reaper's scan and not yet visited
  outbox    \* outbox[s]: the seat's newest row in domain_events

vars == <<now, seats, redis, acq, call, scan, outbox>>

Callers == Workers \cup {Reaper}
Live    == {"HELD", "PENDING_PAYMENT"}

Row    == [status  : {"AVAILABLE", "HELD", "BOOKED", "PENDING_PAYMENT"},
           hold    : Holds \cup {NoHold},
           expires : 0 .. MaxTime,
           booking : Holds \cup {NoHold},
           fence   : Nat]
Invocation == [pc   : {"idle", "redis", "cas", "held", "failing"},
               want : SUBSET Seats,   \* the seats requested
               todo : SUBSET Seats,   \* keys still to be taken
               keys : SUBSET Seats,   \* acquiredRedis: keys taken
               at   : 0 .. MaxTime]   \* the transaction's now()
Call       == [step  : {"none", "release", "extend", "extending", "fences", "begin", "confirm"},
               hold  : Holds \cup {NoHold},
               seats : SUBSET Seats,  \* the seats passed by the caller
               todo  : SUBSET Seats,  \* keys still to be deleted
               fence : [Seats -> Nat],
               at    : 0 .. MaxTime]  \* the transaction's now()
Event      == [type : {"none", "seat.held", "seat.released", "seat.booked"},
               hold : Holds \cup {NoHold}]

IdleCall == [step |-> "none", hold |-> NoHold, seats |-> {}, todo |-> {},
             fence |-> [s \in Seats |-> 0], at |-> 0]

Init ==
  /\ now    = 0
  /\ seats  = [s \in Seats |-> [status |-> "AVAILABLE", hold |-> NoHold, expires |-> 0,
                                booking |-> NoHold, fence |-> 0]]
  /\ redis  = [s \in Seats |-> NoHold]
  /\ acq    = [h \in Holds |-> [pc |-> "idle", want |-> {}, todo |-> {}, keys |-> {}, at |-> 0]]
  /\ call   = [w \in Callers |-> IdleCall]
  /\ scan   = {}
  /\ outbox = [s \in Seats |-> [type |-> "none", hold |-> NoHold]]

-----------------------------------------------------------------------------
(* Rows and the predicates of the SQL statements.                          *)

\* Mutation: the expiry is not compared.
AcquirableWhileLive(s, t) ==
  s \in Sellable /\ (seats[s].status = "AVAILABLE" \/ seats[s].status \in Live)

\* WHERE clause of AcquireHold: free, or held with the clock run out.
Acquirable(s, t) ==
  /\ s \in Sellable
  /\ \/ seats[s].status = "AVAILABLE"
     \/ seats[s].status \in Live /\ seats[s].expires < t

HeldRow(r, h, t) ==
  [r EXCEPT !.status = "HELD", !.hold = h, !.expires = t + HoldTTL, !.fence = @ + 1]

FreedRow(r) == [r EXCEPT !.status = "AVAILABLE", !.hold = NoHold, !.expires = 0]

ExtendedRow(r, t) ==
  [r EXCEPT !.status = "PENDING_PAYMENT", !.expires = IF @ > t THEN @ ELSE t]

BookedRow(r, h) ==
  [r EXCEPT !.status = "BOOKED", !.booking = h, !.hold = NoHold, !.expires = 0]

\* GetSeatsByHoldID and ListSeatIDsForHold: expired rows are returned too.
SeatsOf(h) == {s \in Seats : seats[s].hold = h}

\* WHERE clause of ReleaseHold.
Releasable(S, h) == {s \in S : seats[s].status \in Live /\ seats[s].hold = h}

\* Mutation: an extension revives a lapsed hold.
ExtendableLapsed(c) == Releasable(c.seats, c.hold)

\* WHERE clause of ExtendHold.
Extendable(c) == {s \in Releasable(c.seats, c.hold) : seats[s].expires > c.at}

\* Mutation: a confirm does not compare the expiry.
ConfirmableLapsed(c) == {s \in Releasable(c.seats, c.hold) : seats[s].fence = c.fence[s]}

\* WHERE clause of ConfirmSeats.
Confirmable(c) ==
  {s \in Extendable(c) : seats[s].fence = c.fence[s]}

\* Mutation: the scan forgets holds that were extended.
ExpiredHoldsUnextended ==
  {h \in Holds : \E s \in Seats :
      seats[s].status = "HELD" /\ seats[s].hold = h /\ seats[s].expires < now}

\* ListExpiredHolds, the reaper's scan.
ExpiredHolds ==
  {h \in Holds : \E s \in Seats :
      seats[s].status \in Live /\ seats[s].hold = h /\ seats[s].expires < now}

Least(S, s) == s \in S /\ \A t \in S : s <= t

\* Mutation: DEL without the comparison.
BlindDelete(s, h) == [redis EXCEPT ![s] = NoHold]

\* The Lua compare-and-delete: only the holder of a key deletes it.
CompareAndDelete(s, h) == [redis EXCEPT ![s] = IF @ = h THEN NoHold ELSE @]

\* A best-effort delete: an unreachable Redis leaves the key for its TTL.
TryDelete(s, h) == redis' = CompareAndDelete(s, h) \/ redis' = redis

Publish(type, S, h) ==
  [s \in Seats |-> IF s \in S THEN [type |-> type, hold |-> h] ELSE outbox[s]]

-----------------------------------------------------------------------------
(* AcquireHold.                                                            *)

\* createHold: seats the buyer names, which must exist, or a run that the search
\* for the best available ones picks; never none.
Requests == {S \in SUBSET Seats : S # {}}

RequestHold(h, S) ==
  /\ acq[h].pc = "idle"
  /\ S \in Requests /\ Cardinality(S) <= MaxSeatsPerHold
  /\ acq' = [acq EXCEPT ![h].pc = "redis", ![h].want = S, ![h].todo = S]
  /\ UNCHANGED <<now, seats, redis, call, scan, outbox>>

TakeKey(h, s) ==
  /\ acq[h].pc = "redis" /\ Least(acq[h].todo, s)
  /\ redis[s] = NoHold
  /\ redis' = [redis EXCEPT ![s] = h]
  /\ acq' = [acq EXCEPT ![h].todo = @ \ {s}, ![h].keys = @ \cup {s}]
  /\ UNCHANGED <<now, seats, call, scan, outbox>>

LoseKey(h, s) ==
  /\ acq[h].pc = "redis" /\ Least(acq[h].todo, s)
  /\ redis[s] # NoHold
  /\ acq' = [acq EXCEPT ![h].pc = "failing", ![h].todo = {}]
  /\ UNCHANGED <<now, seats, redis, call, scan, outbox>>

\* SET NX fails, possibly after taking effect: the rest of the batch skips Redis.
DegradeToDB(h, s) ==
  /\ acq[h].pc = "redis" /\ Least(acq[h].todo, s)
  /\ \/ redis' = redis
     \/ redis[s] = NoHold /\ redis' = [redis EXCEPT ![s] = h]
  /\ acq' = [acq EXCEPT ![h].todo = {}]
  /\ UNCHANGED <<now, seats, call, scan, outbox>>

BeginAcquire(h) ==
  /\ acq[h].pc = "redis" /\ acq[h].todo = {}
  /\ acq' = [acq EXCEPT ![h].pc = "cas", ![h].at = now]
  /\ UNCHANGED <<now, seats, redis, call, scan, outbox>>

\* The transaction commits; the caller learns of it, or sees an error.
CommitAcquire(h) ==
  /\ acq[h].pc = "cas"
  /\ \A s \in acq[h].want : Acquirable(s, acq[h].at)
  /\ acq[h].at + HoldTTL <= LastExpiry
  /\ seats' = [s \in Seats |-> IF s \in acq[h].want THEN HeldRow(seats[s], h, acq[h].at) ELSE seats[s]]
  /\ outbox' = Publish("seat.held", acq[h].want, h)
  /\ \/ acq' = [acq EXCEPT ![h].pc = "held", ![h].keys = {}, ![h].at = 0]
     \/ acq' = [acq EXCEPT ![h].pc = "failing", ![h].at = 0]
  /\ UNCHANGED <<now, redis, call, scan>>

\* Too few rows matched, or any statement failed: everything rolls back.
RollBackAcquire(h) ==
  /\ acq[h].pc = "cas"
  /\ acq' = [acq EXCEPT ![h].pc = "failing", ![h].at = 0]
  /\ UNCHANGED <<now, seats, redis, call, scan, outbox>>

ReturnKey(h, s) ==
  /\ acq[h].pc = "failing" /\ Least(acq[h].keys, s)
  /\ TryDelete(s, h)
  /\ acq' = [acq EXCEPT ![h].keys = @ \ {s}]
  /\ UNCHANGED <<now, seats, call, scan, outbox>>

\* The server process dies: the invocation is forgotten, its keys are left behind.
CrashAcquire(h) ==
  /\ acq[h].pc \in {"redis", "cas", "failing"}
  /\ acq' = [acq EXCEPT ![h].pc = "failing", ![h].todo = {}, ![h].keys = {}, ![h].at = 0]
  /\ UNCHANGED <<now, seats, redis, call, scan, outbox>>

-----------------------------------------------------------------------------
(* ReleaseHold, ExtendHold and ConfirmSeats.                               *)

NewCall(step, h, S) ==
  [IdleCall EXCEPT !.step = step, !.hold = h, !.seats = S,
                   !.todo = IF step = "release" THEN S ELSE {}]

\* The owner of a granted hold calls for the seats it reads from the rows, or for
\* those it kept from AcquireHold (orders.seat_ids, a reallocation's new hold).
StartCall(w, h, step) ==
  /\ call[w].step = "none"
  /\ acq[h].pc = "held"
  /\ \E S \in {SeatsOf(h), acq[h].want} \ {{}} :
        call' = [call EXCEPT ![w] = NewCall(step, h, S)]
  /\ UNCHANGED <<now, seats, redis, acq, scan, outbox>>

DropKey(w, s) ==
  /\ call[w].step = "release" /\ Least(call[w].todo, s)
  /\ TryDelete(s, call[w].hold)
  /\ call' = [call EXCEPT ![w].todo = @ \ {s}]
  /\ UNCHANGED <<now, seats, acq, scan, outbox>>

\* Mutation: a release that no longer finds every seat announces nothing.
ReleaseAnnouncingWhole(w) ==
  LET c    == call[w]
      gone == Releasable(c.seats, c.hold)
  IN  /\ c.step = "release" /\ c.todo = {}
      /\ seats' = [s \in Seats |-> IF s \in gone THEN FreedRow(seats[s]) ELSE seats[s]]
      /\ outbox' = IF gone = c.seats THEN Publish("seat.released", gone, c.hold) ELSE outbox
      /\ call' = [call EXCEPT ![w] = IdleCall]
      /\ UNCHANGED <<now, redis, acq, scan>>

\* Every requested seat is announced as released as soon as one row matched.
ReleaseHold(w) ==
  LET c    == call[w]
      gone == Releasable(c.seats, c.hold)
  IN  /\ c.step = "release" /\ c.todo = {}
      /\ seats' = [s \in Seats |-> IF s \in gone THEN FreedRow(seats[s]) ELSE seats[s]]
      /\ outbox' = IF gone = {} THEN outbox ELSE Publish("seat.released", c.seats, c.hold)
      /\ call' = [call EXCEPT ![w] = IdleCall]
      /\ UNCHANGED <<now, redis, acq, scan>>

\* A single statement; a short count is an error but is not rolled back.
ExtendHold(w, x) ==
  LET c == call[w] IN
  /\ c.step = "extending"
  /\ SlowExtends \/ c.at = now
  /\ c.at + x <= LastExpiry
  /\ seats' = [s \in Seats |-> IF s \in Extendable(c)
                               THEN ExtendedRow(seats[s], c.at + x) ELSE seats[s]]
  /\ call' = [call EXCEPT ![w] = IdleCall]
  /\ UNCHANGED <<now, redis, acq, scan, outbox>>

\* currentFences: 0 for a seat the hold has lost.
ReadFences(w) ==
  LET c == call[w] IN
  /\ c.step = "fences"
  /\ call' = [call EXCEPT ![w].step = "begin",
                          ![w].fence = [s \in Seats |-> IF s \in SeatsOf(c.hold)
                                                        THEN seats[s].fence ELSE 0]]
  /\ UNCHANGED <<now, seats, redis, acq, scan, outbox>>

\* now() is fixed for the statement of an extension, the transaction of a confirm.
BeginCall(w) ==
  /\ call[w].step \in {"extend", "begin"}
  /\ call' = [call EXCEPT ![w].step = IF @ = "extend" THEN "extending" ELSE "confirm",
                          ![w].at = now]
  /\ UNCHANGED <<now, seats, redis, acq, scan, outbox>>

\* Mutation: a confirm that matches only some of its seats is not rolled back.
ConfirmMatchingSeats(w) ==
  LET c == call[w] IN
  /\ c.step = "confirm"
  /\ Confirmable(c) # {}
  /\ seats' = [s \in Seats |-> IF s \in Confirmable(c) THEN BookedRow(seats[s], c.hold) ELSE seats[s]]
  /\ outbox' = Publish("seat.booked", c.seats, c.hold)
  /\ call' = [call EXCEPT ![w] = IdleCall]
  /\ UNCHANGED <<now, redis, acq, scan>>

ConfirmSeats(w) ==
  LET c == call[w] IN
  /\ c.step = "confirm"
  /\ Confirmable(c) = c.seats
  /\ seats' = [s \in Seats |-> IF s \in Confirmable(c) THEN BookedRow(seats[s], c.hold) ELSE seats[s]]
  /\ outbox' = Publish("seat.booked", c.seats, c.hold)
  /\ call' = [call EXCEPT ![w] = IdleCall]
  /\ UNCHANGED <<now, redis, acq, scan>>

\* The call ends without effect: its CAS was rejected, a statement failed, or
\* the process died.  An open transaction rolls back.
AbandonCall(w) ==
  /\ call[w].step # "none"
  /\ call' = [call EXCEPT ![w] = IdleCall]
  /\ UNCHANGED <<now, seats, redis, acq, scan, outbox>>

-----------------------------------------------------------------------------
(* The reaper, the clock and Redis.                                        *)

ReaperScan ==
  /\ call[Reaper].step = "none" /\ scan = {}
  /\ scan' = ExpiredHolds
  /\ UNCHANGED <<now, seats, redis, acq, call, outbox>>

ReaperVisit(h) ==
  /\ call[Reaper].step = "none" /\ h \in scan
  /\ scan' = scan \ {h}
  /\ call' = IF SeatsOf(h) = {} THEN call
             ELSE [call EXCEPT ![Reaper] = NewCall("release", h, SeatsOf(h))]
  /\ UNCHANGED <<now, seats, redis, acq, outbox>>

ReaperCrash ==
  /\ scan' = {}
  /\ call' = [call EXCEPT ![Reaper] = IdleCall]
  /\ UNCHANGED <<now, seats, redis, acq, outbox>>

Tick ==
  /\ now < MaxTime
  /\ now' = now + 1
  /\ UNCHANGED <<seats, redis, acq, call, scan, outbox>>

\* A key lapses with its TTL, is evicted, or Redis is flushed.
RedisForgets(s) ==
  /\ redis[s] # NoHold
  /\ redis' = [redis EXCEPT ![s] = NoHold]
  /\ UNCHANGED <<now, seats, acq, call, scan, outbox>>

Next ==
  \/ \E h \in Holds :
       \/ \E S \in SUBSET Seats : RequestHold(h, S)
       \/ \E s \in Seats : TakeKey(h, s) \/ LoseKey(h, s) \/ DegradeToDB(h, s) \/ ReturnKey(h, s)
       \/ BeginAcquire(h) \/ CommitAcquire(h) \/ RollBackAcquire(h) \/ CrashAcquire(h)
       \/ \E w \in Workers, step \in {"release", "extend", "fences"} : StartCall(w, h, step)
       \/ ReaperVisit(h)
  \/ \E w \in Callers :
       \/ \E s \in Seats : DropKey(w, s)
       \/ \E x \in Extensions : ExtendHold(w, x)
       \/ ReleaseHold(w) \/ ReadFences(w) \/ BeginCall(w) \/ ConfirmSeats(w) \/ AbandonCall(w)
  \/ \E s \in Seats : RedisForgets(s)
  \/ ReaperScan \/ ReaperCrash \/ Tick

Spec == Init /\ [][Next]_vars

\* A saga or API call may stop for ever, the reaper's process is restarted and its
\* scan runs on a timer: it gets through its calls again and again.
Fairness ==
  /\ SF_vars(ReaperScan)
  /\ \A h \in Holds : SF_vars(ReaperVisit(h))
  /\ \A s \in Seats : SF_vars(DropKey(Reaper, s))
  /\ SF_vars(ReleaseHold(Reaper))

FairSpec == Spec /\ Fairness

-----------------------------------------------------------------------------
(* Properties.                                                             *)

\* The CHECK constraints of event_seats, which the code's updates make exact: a
\* row has a hold just while it is held and a booking just when it is BOOKED.
RowsWellFormed ==
  \A s \in Seats : /\ seats[s].status \in Live <=> seats[s].hold # NoHold
                   /\ seats[s].status = "BOOKED" <=> seats[s].booking # NoHold

\* Types, with the CHECK constraints of event_seats.
TypeOK ==
  /\ now \in 0 .. MaxTime
  /\ seats \in [Seats -> Row]
  /\ RowsWellFormed
  /\ redis \in [Seats -> Holds \cup {NoHold}]
  /\ acq \in [Holds -> Invocation]
  /\ call \in [Callers -> Call]
  /\ scan \subseteq Holds
  /\ outbox \in [Seats -> Event]

\* AcquireHold is all-or-nothing, and nothing that happens later to a hold whose
\* clock has not run out leaves it covering only part of its seats: the partial
\* extension that ExtendHold would not roll back cannot occur.
LiveHoldIsWhole ==
  \A h \in Holds : \A s, t \in acq[h].want :
    seats[s].hold = h /\ seats[s].expires >= now
      => seats[t].hold = h /\ seats[t].expires = seats[s].expires

\* ConfirmSeats is all-or-nothing with respect to what the buyer asked AcquireHold
\* for, although the seat list it is given was read back from the rows.
BookingIsWhole ==
  \A h \in Holds :
    LET booked == {s \in Seats : seats[s].booking = h}
    IN  booked \in {{}, acq[h].want}

\* Before its expiry a hold is ended only by its own owner: not by another
\* AcquireHold, not by another owner's release, and not by the reaper, whose scan
\* is old by the time it releases.
LiveHoldEnds(s) ==
  /\ seats[s].hold # NoHold /\ seats[s].expires >= now
  /\ seats'[s].hold # seats[s].hold

OwnerEnds(h) ==
  \E w \in Workers : /\ call[w].hold = h
                     /\ call[w].step \in {"release", "confirm"}
                     /\ call'[w].step = "none"

LiveHoldUndisturbed == [][\A s \in Seats : LiveHoldEnds(s) => OwnerEnds(seats[s].hold)]_vars

\* A Redis key set for one hold is never deleted or overwritten on behalf of
\* another hold: compensation and release find only their own keys.
KeyLost(s) == redis[s] # NoHold /\ redis'[s] # redis[s]

LostOnBehalfOf(h) ==
  \/ acq'[h] # acq[h]
  \/ \E w \in Callers : call[w].hold = h /\ call'[w] # call[w]

ForeignKeyUntouched ==
  [][\A s \in Seats :
       KeyLost(s) => UNCHANGED <<acq, call>>          \* Redis itself
                     \/ LostOnBehalfOf(redis[s])]_vars

\* The outbox never leaves a free seat announced as taken.
FreeSeatIsAnnounced ==
  \A s \in Seats :
    seats[s].status = "AVAILABLE" => outbox[s].type \in {"none", "seat.released"}

\* Sales are whole, final and exclusive: the inventory implements SeatSale.
Sale == INSTANCE SeatSale WITH
          wanted <- [h \in Holds |-> acq[h].want],
          sold   <- [h \in Holds |-> {s \in Seats : seats[s].booking = h}]

ImplementsSeatSale == Sale!Spec

(***************************************************************************)
(* Why the properties hold: the inductive invariant behind the proofs.     *)
(***************************************************************************)
Decided(h) == acq[h].pc \in {"held", "failing"}

\* A row carries only hold ids whose CAS has run, and only on requested seats
\* that are for sale.
RowsAreGranted ==
  \A h \in Holds :
    /\ acq[h].pc = "idle" <=> acq[h].want = {}
    /\ \A s \in Seats : seats[s].hold = h \/ seats[s].booking = h
                         => Decided(h) /\ s \in acq[h].want \cap Sellable

\* The seats of one hold lapse together, and if it has lost one it has lapsed.
HoldsLapseWhole ==
  \A h \in Holds : \A s, t \in acq[h].want :
    seats[s].hold = h => IF seats[t].hold = h THEN seats[t].expires = seats[s].expires
                                              ELSE seats[s].expires < now

\* A transaction's now() is never ahead of the clock.
BeginsArePast ==
  /\ \A h \in Holds : acq[h].at <= now
  /\ \A w \in Callers : call[w].at <= now

\* What a call read for its hold still covers what the hold has, and a confirm
\* that read less than was requested began after the hold lapsed.
CoversHold(c) ==
  c.step # "none" =>
    /\ c.hold \in Holds /\ Decided(c.hold) /\ c.seats # {}
    /\ SeatsOf(c.hold) \subseteq c.seats /\ c.seats \subseteq acq[c.hold].want
    /\ c.step = "confirm" /\ c.seats # acq[c.hold].want
         => \A s \in SeatsOf(c.hold) : seats[s].expires < c.at

CallsCoverHolds == \A w \in Callers : CoversHold(call[w])

\* What the reaper has listed, or is releasing, has lapsed and cannot come back.
Lapsed(h) == Decided(h) /\ \A s \in SeatsOf(h) : seats[s].expires < now

ReaperSeesLapsed ==
  /\ \A h \in scan : Lapsed(h)
  /\ \/ call[Reaper].step = "none"
     \/ call[Reaper].step = "release" /\ Lapsed(call[Reaper].hold)

\* The inductive invariant: together the parts above imply the safety properties.
IInv ==
  /\ TypeOK
  /\ RowsAreGranted
  /\ HoldsLapseWhole
  /\ BeginsArePast
  /\ CallsCoverHolds
  /\ ReaperSeesLapsed
  /\ BookingIsWhole

\* No seat stays behind a lapsed hold: it is sold on, or the reaper frees it.
LapsedHoldEnds ==
  \A s \in Seats :
    LET lapsed == seats[s].status \in Live /\ seats[s].expires < now
    IN  lapsed ~> ~lapsed
=============================================================================
