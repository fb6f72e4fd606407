---------------------------- MODULE WaitingRoom -----------------------------
(***************************************************************************)
(* The virtual waiting room of one event (internal/waitingroom): the       *)
(* arrival order in a Redis sorted set, the cursor, the admission rate     *)
(* that an AIMD controller in every server steps each second, and the      *)
(* admission tokens that the holds endpoint asks for.  The keys of two     *)
(* events are disjoint, so one event is the whole system.                  *)
(*                                                                         *)
(* A Join and a Tick are several Redis commands: each is an action.  The   *)
(* score of an arrival is a server's clock read before the ZADD, so a new  *)
(* arrival may go anywhere in the order.  Only the integer part of the     *)
(* rate reaches the cursor, and halving, adding a whole step and the two   *)
(* bounds commute with taking it, so "rate" is that integer part.          *)
(***************************************************************************)
EXTENDS Naturals, FiniteSets

CONSTANTS
  Users,
  Servers,               \* each runs runAIMDLoop
  MinRate, MaxRate,      \* 1 and 1000 admissions a tick
  AdditiveStep,          \* 5
  MaxFaults              \* bound: joins and ticks that fail half way

ASSUME UsersAssumption == IsFiniteSet(Users)
ASSUME RateAssumption ==
  /\ {MinRate, MaxRate, AdditiveStep, MaxFaults} \subseteq Nat
  /\ 0 < MinRate /\ MinRate <= MaxRate /\ 0 < AdditiveStep

VARIABLES
  queued,    \* members of the sorted set
  ahead,     \* ahead[u]: the members that sort before u
  late,      \* history: members that sorted before one already there
  cursor,
  rate,      \* 0: the key does not exist
  join,      \* join[u]: a Join request in progress
  token,     \* token[u]: the latest admission token issued to u
  passed,    \* users whose hold request went through RequireAdmission
  tick,      \* tick[c]: the controller of server c
  faults     \* how many faults happened

queueVars == <<queued, ahead, late>>
vars == <<queueVars, cursor, rate, join, token, passed, tick, faults>>

NoJoin == [pc |-> "idle", rank |-> 0]
NoTick == [pc |-> "idle", rate |-> 0, red |-> FALSE]

Init ==
  /\ queued = {} /\ ahead = [u \in Users |-> {}] /\ late = {}
  /\ cursor = 0 /\ rate = 0
  /\ join = [u \in Users |-> NoJoin] /\ token = [u \in Users |-> "none"]
  /\ passed = {}
  /\ tick = [c \in Servers |-> NoTick]
  /\ faults = 0

-----------------------------------------------------------------------------
(* Join.                                                                   *)

\* Where a new member may sort: after a set of members closed under "ahead".
Places == {A \in SUBSET queued : \A v \in A : ahead[v] \subseteq A}

Insert(u, A) ==
  /\ queued' = queued \cup {u}
  /\ ahead' = [v \in Users |-> IF v = u THEN A
                               ELSE IF v \in queued \ A THEN ahead[v] \cup {u}
                               ELSE ahead[v]]
  /\ late' = IF A = queued THEN late ELSE late \cup {u}

\* ZADD NX: a member keeps its score.
Arrive(u) ==
  IF u \in queued THEN UNCHANGED queueVars ELSE \E A \in Places : Insert(u, A)

StartJoin(u) ==
  /\ join[u].pc = "idle"
  /\ Arrive(u)
  /\ join' = [join EXCEPT ![u] = [pc |-> "placed", rank |-> 0]]
  /\ UNCHANGED <<cursor, rate, token, passed, tick, faults>>

ReadRank(u) ==
  /\ join[u].pc = "placed"
  /\ join' = [join EXCEPT ![u] = [pc |-> "ranked", rank |-> Cardinality(ahead[u])]]
  /\ UNCHANGED <<queueVars, cursor, rate, token, passed, tick, faults>>

\* Mutation: the one at the cursor gets in too.
CoveredAt(rank) == rank <= cursor

Covered(rank) == rank < cursor

\* 200 with a token, or 202 with a position.
ReadCursor(u) ==
  /\ join[u].pc = "ranked"
  /\ token' = IF Covered(join[u].rank) THEN [token EXCEPT ![u] = "live"] ELSE token
  /\ join' = [join EXCEPT ![u] = NoJoin]
  /\ UNCHANGED <<queueVars, cursor, rate, passed, tick, faults>>

\* Redis fails, or the server dies.
FailJoin(u) ==
  /\ join[u].pc # "idle" /\ faults < MaxFaults
  /\ faults' = faults + 1
  /\ join' = [join EXCEPT ![u] = NoJoin]
  /\ UNCHANGED <<queueVars, cursor, rate, token, passed, tick>>

\* tokenTTL passes.
ExpireToken(u) ==
  /\ token[u] = "live"
  /\ token' = [token EXCEPT ![u] = "expired"]
  /\ UNCHANGED <<queueVars, cursor, rate, join, passed, tick, faults>>

\* VerifyToken, when u presents the token issued to v.
Verifies(u, v) == v = u /\ token[v] = "live"

\* RequireAdmission in front of createHold.
PlaceHold(u, v) ==
  /\ Verifies(u, v)
  /\ passed' = passed \cup {u}
  /\ UNCHANGED <<queueVars, cursor, rate, join, token, tick, faults>>

-----------------------------------------------------------------------------
(* Tick.                                                                   *)

AtLeast(a, b) == IF a < b THEN b ELSE a
AtMost(a, b)  == IF a > b THEN b ELSE a

\* DefaultRate is MinRate.
CurrentRate == IF rate = 0 THEN MinRate ELSE rate

\* Mutations: no floor; no increase when green.
HalvedToNothing(r, red) == IF red THEN r \div 2 ELSE AtMost(r + AdditiveStep, MaxRate)
NeverRaised(r, red)     == IF red THEN AtLeast(r \div 2, MinRate) ELSE r

\* Multiplicative decrease when any signal is red, additive increase otherwise.
Adjusted(r, red) == IF red THEN AtLeast(r \div 2, MinRate) ELSE AtMost(r + AdditiveStep, MaxRate)

\* The latency, pool and error figures of this server alone: any may be red.
Signals == BOOLEAN

ReadRate(c) ==
  /\ tick[c].pc = "idle"
  /\ \E red \in Signals :
       tick' = [tick EXCEPT ![c] = [pc |-> "set", rate |-> Adjusted(CurrentRate, red), red |-> red]]
  /\ UNCHANGED <<queueVars, cursor, rate, join, token, passed, faults>>

Rested(c) == [pc |-> "idle", rate |-> 0, red |-> tick[c].red]

SetRate(c) ==
  /\ tick[c].pc = "set"
  /\ rate' = tick[c].rate
  /\ tick' = [tick EXCEPT ![c].pc = "advance"]
  /\ UNCHANGED <<queueVars, cursor, join, token, passed, faults>>

\* Nobody ranks beyond the number of users, so the cursor is cut off there.
Advance(c) ==
  /\ tick[c].pc = "advance"
  /\ cursor' = AtMost(cursor + tick[c].rate, Cardinality(Users))
  /\ tick' = [tick EXCEPT ![c] = Rested(c)]
  /\ UNCHANGED <<queueVars, rate, join, token, passed, faults>>

FailTick(c) ==
  /\ tick[c].pc # "idle" /\ faults < MaxFaults
  /\ faults' = faults + 1
  /\ tick' = [tick EXCEPT ![c] = Rested(c)]
  /\ UNCHANGED <<queueVars, cursor, rate, join, token, passed>>

-----------------------------------------------------------------------------
Ask(u) == StartJoin(u) \/ ReadRank(u) \/ ReadCursor(u)

Tick(c) == ReadRate(c) \/ SetRate(c) \/ Advance(c)

Next ==
  \/ \E u \in Users : Ask(u) \/ FailJoin(u) \/ ExpireToken(u) \/ \E v \in Users : PlaceHold(u, v)
  \/ \E c \in Servers : Tick(c) \/ FailTick(c)

Spec == Init /\ [][Next]_vars

\* The ticker of every server goes on, and a user who waits goes on polling.
FairSpec ==
  /\ Spec
  /\ \A c \in Servers : WF_vars(Tick(c))
  /\ \A u \in Users : WF_vars(u \in queued /\ Ask(u))

-----------------------------------------------------------------------------
(* Properties.                                                             *)

\* Types: the rate stays within its bounds whichever controllers race on it.
TypeOK ==
  /\ queued \subseteq Users /\ ahead \in [Users -> SUBSET Users] /\ late \subseteq queued
  /\ cursor \in Nat /\ rate \in {0} \cup MinRate .. MaxRate
  /\ join \in [Users -> [pc : {"idle", "placed", "ranked"}, rank : Nat]]
  /\ token \in [Users -> {"none", "live", "expired"}] /\ passed \subseteq Users
  /\ tick \in [Servers -> [pc : {"idle", "set", "advance"}, rate : {0} \cup MinRate .. MaxRate, red : BOOLEAN]]
  /\ faults \in Nat

Admitted == {u \in Users : token[u] # "none"} \cup passed

\* queue.go Join: whoever was let in, to a token or to the holds endpoint, had
\* fewer than "cursor" members ahead that had arrived in order, although the rank
\* and the cursor are read apart and others arrive in between.
AdmittedInOrder == \A u \in Admitted : u \in queued /\ Cardinality(ahead[u] \ late) < cursor

\* Join's ZADD NX: asking again moves nobody, neither forwards nor backwards.
PlaceKept == [][\A u, v \in queued : v \in ahead'[u] <=> v \in ahead[u]]_vars

\* MinRate, "never fully stalls": whoever is in the queue and polls gets a token,
\* even if every tick is red.
EveryoneAdmitted == \A u \in Users : u \in queued ~> token[u] # "none"

\* Once no server sees a red signal the rate climbs to its maximum and stays,
\* although the controllers overwrite each other's steps.
RateRecovers == <>[](\A c \in Servers : ~tick[c].red) => <>[](rate = MaxRate)
=============================================================================
