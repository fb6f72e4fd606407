------------------------- MODULE WaitingRoomProofs --------------------------
(***************************************************************************)
(* Theorems about WaitingRoom, for any finite number of users, any servers *)
(* and any bounds of the rate.                                             *)
(***************************************************************************)
EXTENDS WaitingRoom, FiniteSetTheorems, TLAPS

\* How many are ahead of u that did not jump the order.
InOrderAhead(u) == Cardinality(ahead[u] \ late)

PlacesFit == \A u \in Users : /\ ahead[u] \subseteq queued \ {u}
                              /\ join[u].pc # "idle" => u \in queued

\* A rank that was read may be stale, but not too small; a user that was let in
\* had a rank below a cursor that has not moved back since.
RanksFit ==
  \A u \in Users : join[u].pc = "ranked" => InOrderAhead(u) <= join[u].rank

CursorFits == cursor <= Cardinality(Users)

IInv == TypeOK /\ PlacesFit /\ RanksFit /\ CursorFits /\ AdmittedInOrder

-----------------------------------------------------------------------------
(* The numbers.                                                            *)

LEMMA UsersCounted == Cardinality(Users) \in Nat
  BY UsersAssumption, FS_CardinalityType

\* A subset of the users has no more members than a larger one.
LEMMA CountMonotone ==
  ASSUME NEW S, NEW T, S \subseteq T, T \subseteq Users
  PROVE  /\ Cardinality(S) \in Nat /\ Cardinality(T) \in Nat
         /\ Cardinality(S) <= Cardinality(T)
<1>1. IsFiniteSet(T)
  BY UsersAssumption, FS_Subset
<1>2. IsFiniteSet(S) /\ Cardinality(S) <= Cardinality(T)
  BY <1>1, FS_Subset
<1> QED
  BY <1>1, <1>2, FS_CardinalityType

\* Both branches of the controller stay within the bounds.
LEMMA AdjustedInBounds ==
  ASSUME NEW r \in MinRate .. MaxRate, NEW red \in BOOLEAN
  PROVE  Adjusted(r, red) \in MinRate .. MaxRate
<1>1. r \div 2 \in Nat /\ r \div 2 <= r
  BY RateAssumption
<1>2. CASE red = TRUE
  BY <1>1, <1>2, RateAssumption DEF Adjusted, AtLeast, AtMost
<1>3. CASE red = FALSE
  BY <1>3, RateAssumption DEF Adjusted, AtLeast, AtMost
<1> QED
  BY <1>2, <1>3

LEMMA CurrentRateInBounds ==
  ASSUME TypeOK
  PROVE  CurrentRate \in MinRate .. MaxRate
  BY RateAssumption DEF TypeOK, CurrentRate

-----------------------------------------------------------------------------
(* Steps that do not touch the order.                                      *)

LEMMA InitIInv == Init => IInv
<1> SUFFICES ASSUME Init PROVE IInv
  OBVIOUS
<1>1. TypeOK
  BY RateAssumption DEF Init, TypeOK, NoJoin, NoTick
<1>2. Admitted = {}
  BY DEF Init, Admitted
<1>3. CursorFits
  BY UsersCounted DEF Init, CursorFits
<1> QED
  BY <1>1, <1>2, <1>3 DEF Init, IInv, PlacesFit, RanksFit, NoJoin, AdmittedInOrder

\* A new arrival adds to what is ahead of others only members counted as late.
LEMMA ArriveKeepsOrder ==
  ASSUME IInv, NEW u \in Users, Arrive(u)
  PROVE  /\ queued' = queued \cup {u} /\ late' \subseteq queued' /\ ahead' \in [Users -> SUBSET Users]
         /\ \A v \in Users : ahead'[v] \subseteq queued' \ {v}
         /\ \A v \in queued : ahead'[v] \ late' \subseteq ahead[v] \ late
         /\ \A v, w \in queued : w \in ahead'[v] <=> w \in ahead[v]
<1>1. CASE u \in queued
  <2>1. UNCHANGED queueVars
    BY <1>1 DEF Arrive
  <2> QED
    BY <1>1, <2>1 DEF IInv, TypeOK, PlacesFit, queueVars
<1>2. CASE u \notin queued
  <2>1. PICK A \in Places : Insert(u, A)
    BY <1>2 DEF Arrive
  <2>2. A \subseteq queued
    BY <2>1 DEF Places
  <2>3. queued' = queued \cup {u} /\ queued \subseteq Users /\ late \subseteq queued
    BY <2>1 DEF Insert, IInv, TypeOK
  <2>4. ahead' = [v \in Users |-> IF v = u THEN A
                                  ELSE IF v \in queued \ A THEN ahead[v] \cup {u} ELSE ahead[v]]
    BY <2>1 DEF Insert
  <2>5. late' = IF A = queued THEN late ELSE late \cup {u}
    BY <2>1 DEF Insert
  <2>6. \A v \in Users : ahead[v] \subseteq queued \ {v}
    BY DEF IInv, PlacesFit
  <2>7. ahead' \in [Users -> SUBSET Users]
    BY <2>2, <2>3, <2>4, <2>6
  <2>8. \A v \in Users : ahead'[v] \subseteq queued' \ {v}
    BY <1>2, <2>2, <2>3, <2>4, <2>6
  <2>9. \A v \in queued : ahead'[v] \ late' \subseteq ahead[v] \ late
    BY <1>2, <2>2, <2>3, <2>4, <2>5, <2>6
  <2>10. \A v, w \in queued : w \in ahead'[v] <=> w \in ahead[v]
    BY <1>2, <2>3, <2>4
  <2>11. late' \subseteq queued'
    BY <2>3, <2>5
  <2> QED
    BY <2>3, <2>7, <2>8, <2>9, <2>10, <2>11
<1> QED
  BY <1>1, <1>2

LEMMA StartJoinIInv ==
  ASSUME IInv, NEW u \in Users, StartJoin(u)
  PROVE  IInv'
<1>1. Arrive(u) /\ join' = [join EXCEPT ![u] = [pc |-> "placed", rank |-> 0]]
      /\ UNCHANGED <<cursor, rate, token, passed, tick, faults>> /\ join[u].pc = "idle"
  BY DEF StartJoin
<1>2. /\ queued' = queued \cup {u} /\ late' \subseteq queued' /\ ahead' \in [Users -> SUBSET Users]
      /\ \A v \in Users : ahead'[v] \subseteq queued' \ {v}
      /\ \A v \in queued : ahead'[v] \ late' \subseteq ahead[v] \ late
  BY <1>1, ArriveKeepsOrder
<1>3. TypeOK'
  BY <1>1, <1>2 DEF IInv, TypeOK
<1>4. PlacesFit'
  <2>1. \A v \in Users : join'[v].pc # "idle" => v \in queued'
    BY <1>1, <1>2 DEF IInv, TypeOK, PlacesFit
  <2> QED
    BY <1>2, <2>1 DEF PlacesFit
<1>5. ASSUME NEW v \in queued
      PROVE  InOrderAhead(v)' <= InOrderAhead(v) /\ InOrderAhead(v)' \in Nat /\ InOrderAhead(v) \in Nat
  <2>1. v \in Users /\ ahead[v] \ late \subseteq Users /\ ahead'[v] \ late' \subseteq ahead[v] \ late
    BY <1>2 DEF IInv, TypeOK
  <2> QED
    BY <2>1, CountMonotone DEF InOrderAhead
<1>6. RanksFit'
  <2> SUFFICES ASSUME NEW v \in Users, join'[v].pc = "ranked"
               PROVE  InOrderAhead(v)' <= join'[v].rank
    BY DEF RanksFit
  <2>1. v # u /\ join'[v] = join[v]
    BY <1>1 DEF IInv, TypeOK
  <2>2. v \in queued /\ InOrderAhead(v) <= join[v].rank /\ join[v].rank \in Nat
    BY <2>1 DEF IInv, PlacesFit, RanksFit, TypeOK
  <2> QED
    BY <1>5, <2>1, <2>2
<1>7. AdmittedInOrder'
  <2>1. Admitted' = Admitted
    BY <1>1 DEF Admitted
  <2> SUFFICES ASSUME NEW v \in Admitted
               PROVE  v \in queued' /\ InOrderAhead(v)' < cursor'
    BY <2>1 DEF AdmittedInOrder, InOrderAhead
  <2>2. v \in queued /\ InOrderAhead(v) < cursor /\ cursor \in Nat /\ cursor' = cursor
    BY <1>1 DEF IInv, AdmittedInOrder, InOrderAhead, TypeOK
  <2> QED
    BY <1>2, <1>5, <2>2
<1>8. CursorFits'
  BY <1>1 DEF IInv, CursorFits
<1> QED
  BY <1>3, <1>4, <1>6, <1>7, <1>8 DEF IInv

LEMMA ReadRankIInv ==
  ASSUME IInv, NEW u \in Users, ReadRank(u)
  PROVE  IInv'
<1>1. /\ join' = [join EXCEPT ![u] = [pc |-> "ranked", rank |-> Cardinality(ahead[u])]]
      /\ UNCHANGED <<queueVars, cursor, rate, token, passed, tick, faults>> /\ join[u].pc = "placed"
  BY DEF ReadRank
<1>2. Cardinality(ahead[u]) \in Nat /\ InOrderAhead(u) <= Cardinality(ahead[u])
  <2>1. ahead[u] \subseteq Users /\ ahead[u] \ late \subseteq ahead[u]
    BY DEF IInv, TypeOK
  <2> QED
    BY <2>1, CountMonotone DEF InOrderAhead
<1>3. TypeOK'
  BY <1>1, <1>2 DEF IInv, TypeOK, queueVars
<1>4. PlacesFit' /\ CursorFits'
  BY <1>1 DEF IInv, TypeOK, PlacesFit, CursorFits, queueVars
<1>5. RanksFit'
  BY <1>1, <1>2 DEF IInv, TypeOK, RanksFit, InOrderAhead, queueVars
<1>6. AdmittedInOrder'
  BY <1>1 DEF IInv, AdmittedInOrder, Admitted, queueVars
<1> QED
  BY <1>3, <1>4, <1>5, <1>6 DEF IInv

LEMMA ReadCursorIInv ==
  ASSUME IInv, NEW u \in Users, ReadCursor(u)
  PROVE  IInv'
<1>1. /\ token' = IF Covered(join[u].rank) THEN [token EXCEPT ![u] = "live"] ELSE token
      /\ join' = [join EXCEPT ![u] = NoJoin]
      /\ UNCHANGED <<queueVars, cursor, rate, passed, tick, faults>> /\ join[u].pc = "ranked"
  BY DEF ReadCursor
<1>2. TypeOK'
  BY <1>1 DEF IInv, TypeOK, NoJoin, queueVars
<1>3. PlacesFit' /\ CursorFits' /\ RanksFit'
  BY <1>1 DEF IInv, TypeOK, PlacesFit, CursorFits, RanksFit, InOrderAhead, NoJoin, queueVars
<1>4. AdmittedInOrder'
  <2> SUFFICES ASSUME NEW v \in Users, v \in Admitted'
               PROVE  v \in queued /\ InOrderAhead(v) < cursor
    BY <1>1 DEF AdmittedInOrder, InOrderAhead, queueVars, IInv, TypeOK, Admitted
  <2>1. CASE v \in Admitted
    BY <2>1 DEF IInv, AdmittedInOrder, InOrderAhead
  <2>2. CASE v \notin Admitted
    <3>1. v = u /\ Covered(join[u].rank)
      BY <1>1, <2>2 DEF Admitted, IInv, TypeOK
    <3>2. InOrderAhead(u) <= join[u].rank /\ join[u].rank < cursor /\ u \in queued
      BY <1>1, <3>1 DEF Covered, IInv, RanksFit, PlacesFit
    <3>3. InOrderAhead(u) \in Nat
      <4>1. ahead[u] \ late \subseteq Users
        BY DEF IInv, TypeOK
      <4> QED
        BY <4>1, CountMonotone DEF InOrderAhead
    <3> QED
      BY <3>1, <3>2, <3>3 DEF IInv, TypeOK
  <2> QED
    BY <2>1, <2>2
<1> QED
  BY <1>2, <1>3, <1>4 DEF IInv

\* Steps that leave the order and the cursor alone and let nobody new in.
LEMMA QuietIInv ==
  ASSUME IInv, TypeOK', UNCHANGED <<queueVars, cursor>>, Admitted' \subseteq Admitted,
         \A u \in Users : join'[u] = join[u] \/ join'[u].pc = "idle"
  PROVE  IInv'
<1>1. PlacesFit' /\ CursorFits'
  BY DEF IInv, PlacesFit, CursorFits, queueVars
<1>2. RanksFit'
  BY DEF IInv, RanksFit, InOrderAhead, queueVars
<1>3. AdmittedInOrder'
  BY DEF IInv, AdmittedInOrder, queueVars
<1> QED
  BY <1>1, <1>2, <1>3 DEF IInv

LEMMA UserIInv ==
  ASSUME IInv, NEW u \in Users,
         \/ FailJoin(u) \/ ExpireToken(u) \/ \E v \in Users : PlaceHold(u, v)
  PROVE  IInv'
<1>1. CASE FailJoin(u)
  <2>1. TypeOK'
    BY <1>1 DEF IInv, TypeOK, FailJoin, NoJoin, queueVars
  <2>2. UNCHANGED <<queueVars, cursor>> /\ Admitted' = Admitted
    BY <1>1 DEF FailJoin, Admitted
  <2>3. \A v \in Users : join'[v] = join[v] \/ join'[v].pc = "idle"
    BY <1>1 DEF IInv, TypeOK, FailJoin, NoJoin
  <2> QED
    BY <2>1, <2>2, <2>3, QuietIInv
<1>2. CASE ExpireToken(u)
  <2>1. TypeOK'
    BY <1>2 DEF IInv, TypeOK, ExpireToken, queueVars
  <2>2. UNCHANGED <<queueVars, cursor, join>> /\ Admitted' \subseteq Admitted
    BY <1>2 DEF IInv, TypeOK, ExpireToken, Admitted
  <2> QED
    BY <2>1, <2>2, QuietIInv
<1>3. CASE \E v \in Users : PlaceHold(u, v)
  <2>1. TypeOK'
    BY <1>3 DEF IInv, TypeOK, PlaceHold, queueVars
  <2>2. token[u] = "live" /\ passed' = passed \cup {u}
    BY <1>3 DEF PlaceHold, Verifies
  <2>3. UNCHANGED <<queueVars, cursor, join>> /\ token' = token
    BY <1>3 DEF PlaceHold
  <2>4. Admitted' \subseteq Admitted
    BY <2>2, <2>3 DEF Admitted
  <2> QED
    BY <2>1, <2>3, <2>4, QuietIInv
<1> QED
  BY <1>1, <1>2, <1>3

LEMMA TickIInv ==
  ASSUME IInv, NEW c \in Servers, Tick(c) \/ FailTick(c)
  PROVE  IInv'
<1>1. CASE ReadRate(c)
  <2>1. PICK red \in BOOLEAN : tick' = [tick EXCEPT ![c] = [pc |-> "set", rate |-> Adjusted(CurrentRate, red), red |-> red]]
    BY <1>1 DEF ReadRate, Signals
  <2>2. Adjusted(CurrentRate, red) \in MinRate .. MaxRate
    BY AdjustedInBounds, CurrentRateInBounds DEF IInv
  <2>3. UNCHANGED <<queueVars, cursor, rate, join, token, passed, faults>>
    BY <1>1 DEF ReadRate, Signals
  <2>4. TypeOK'
    BY <2>1, <2>2, <2>3 DEF IInv, TypeOK, queueVars
  <2>5. Admitted' = Admitted
    BY <2>3 DEF Admitted
  <2> QED
    BY <2>3, <2>4, <2>5, QuietIInv
<1>2. CASE SetRate(c)
  <2>1. UNCHANGED <<queueVars, cursor, join, token, passed, faults>>
    BY <1>2 DEF SetRate
  <2>2. TypeOK'
    BY <1>2 DEF IInv, TypeOK, SetRate, queueVars
  <2>3. Admitted' = Admitted
    BY <2>1 DEF Admitted
  <2> QED
    BY <2>1, <2>2, <2>3, QuietIInv
<1>3. CASE Advance(c)
  <2>1. /\ cursor' = AtMost(cursor + tick[c].rate, Cardinality(Users))
        /\ tick' = [tick EXCEPT ![c] = Rested(c)]
        /\ UNCHANGED <<queueVars, rate, join, token, passed, faults>>
    BY <1>3 DEF Advance
  <2>2. cursor \in Nat /\ tick[c].rate \in Nat /\ cursor <= Cardinality(Users)
    BY RateAssumption DEF IInv, TypeOK, CursorFits
  <2>3. cursor' \in Nat /\ cursor <= cursor' /\ cursor' <= Cardinality(Users)
    BY <2>1, <2>2, UsersCounted DEF AtMost
  <2>4. TypeOK'
    BY <2>1, <2>3 DEF IInv, TypeOK, Rested, queueVars
  <2>5. Admitted' = Admitted
    BY <2>1 DEF Admitted
  <2>6. AdmittedInOrder'
    <3> SUFFICES ASSUME NEW u \in Admitted
                 PROVE  u \in queued /\ Cardinality(ahead[u] \ late) < cursor'
      BY <2>1, <2>5 DEF AdmittedInOrder, queueVars
    <3>1. u \in queued /\ Cardinality(ahead[u] \ late) < cursor
      BY DEF IInv, AdmittedInOrder
    <3>2. Cardinality(ahead[u] \ late) \in Nat
      <4>1. ahead[u] \ late \subseteq Users
        BY <3>1 DEF IInv, TypeOK
      <4> QED
        BY <4>1, CountMonotone
    <3> QED
      BY <2>2, <2>3, <3>1, <3>2
  <2>7. PlacesFit' /\ RanksFit' /\ CursorFits'
    BY <2>1, <2>3 DEF IInv, PlacesFit, RanksFit, InOrderAhead, CursorFits, queueVars
  <2> QED
    BY <2>4, <2>6, <2>7 DEF IInv
<1>4. CASE FailTick(c)
  <2>1. UNCHANGED <<queueVars, cursor, rate, join, token, passed>>
    BY <1>4 DEF FailTick
  <2>2. TypeOK'
    BY <1>4 DEF IInv, TypeOK, FailTick, Rested, queueVars
  <2>3. Admitted' = Admitted
    BY <2>1 DEF Admitted
  <2> QED
    BY <2>1, <2>2, <2>3, QuietIInv
<1> QED
  BY <1>1, <1>2, <1>3, <1>4 DEF Tick

LEMMA NextIInv == IInv /\ [Next]_vars => IInv'
<1> SUFFICES ASSUME IInv, [Next]_vars PROVE IInv'
  OBVIOUS
<1>1. CASE UNCHANGED vars
  BY <1>1 DEF vars, queueVars, IInv, TypeOK, PlacesFit, RanksFit, InOrderAhead, CursorFits, AdmittedInOrder, Admitted
<1>2. ASSUME NEW u \in Users, Ask(u) PROVE IInv'
  BY <1>2, StartJoinIInv, ReadRankIInv, ReadCursorIInv DEF Ask
<1>3. ASSUME NEW u \in Users, FailJoin(u) \/ ExpireToken(u) \/ \E v \in Users : PlaceHold(u, v) PROVE IInv'
  BY <1>3, UserIInv
<1>4. ASSUME NEW c \in Servers, Tick(c) \/ FailTick(c) PROVE IInv'
  BY <1>4, TickIInv
<1> QED
  BY <1>1, <1>2, <1>3, <1>4 DEF Next

-----------------------------------------------------------------------------
(* Theorems.                                                               *)

LEMMA SpecIInv == Spec => []IInv
  BY InitIInv, NextIInv, PTL DEF Spec

\* Whatever controllers race on it, the rate is never below MinRate nor above
\* MaxRate, and every value has its type.
THEOREM TypeCorrect == Spec => []TypeOK
<1>1. IInv => TypeOK
  BY DEF IInv
<1> QED
  BY <1>1, SpecIInv, PTL

\* Whoever holds a token or went past the gate had fewer than "cursor" members
\* ahead that arrived in order.
THEOREM AdmissionInOrder == Spec => []AdmittedInOrder
<1>1. IInv => AdmittedInOrder
  BY DEF IInv
<1> QED
  BY <1>1, SpecIInv, PTL

\* No step moves a queued user with respect to another one.
THEOREM NobodyMoves == Spec => PlaceKept
<1>1. IInv /\ [Next]_vars => [\A u, v \in queued : v \in ahead'[u] <=> v \in ahead[u]]_vars
  <2> SUFFICES ASSUME IInv, Next
               PROVE  \A u, v \in queued : v \in ahead'[u] <=> v \in ahead[u]
    OBVIOUS
  <2>1. ASSUME NEW u \in Users, StartJoin(u)
        PROVE  \A v, w \in queued : w \in ahead'[v] <=> w \in ahead[v]
    BY <2>1, ArriveKeepsOrder DEF StartJoin
  <2>2. CASE UNCHANGED queueVars
    BY <2>2 DEF queueVars
  <2> QED
    BY <2>1, <2>2 DEF Next, Ask, Tick, ReadRank, ReadCursor, FailJoin, ExpireToken, PlaceHold,
                      ReadRate, Signals, SetRate, Advance, FailTick, queueVars
<1> QED
  BY <1>1, SpecIInv, PTL DEF Spec, PlaceKept
=============================================================================
