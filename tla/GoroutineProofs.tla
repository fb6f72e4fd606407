-------------------------- MODULE GoroutineProofs ---------------------------
(***************************************************************************)
(* Proofs about goroutines: what each instruction does, what the runtime   *)
(* keeps whatever the program, the websocket hub, and the batching cache.  *)
(***************************************************************************)
EXTENDS DataLoader, ServerProcess, FiniteSetTheorems, TLAPS

-----------------------------------------------------------------------------
(* Instructions.                                                           *)

\* One instruction of one goroutine.
Perform(g, i) ==
  \/ Communicate(g, i) \/ Otherwise(g, i)
  \/ CloseChannel(g, i) \/ CancelContext(g, i)
  \/ TakeLock(g, i) \/ TakeReadLock(g, i) \/ ReleaseLock(g, i) \/ Sleep(g, i) \/ Wake(g, i)
  \/ AddToGroup(g, i) \/ WaitForGroup(g, i)
  \/ StartGoroutines(g, i) \/ PanicHere(g, i) \/ Branch(g, i)
  \/ Count(g, i) \/ Access(g, i) \/ Test(g, i) \/ KeepValue(g, i)

\* A step is the instruction at the goroutine's label.
LEMMA StepPerforms ==
  ASSUME NEW g, Step(g)
  PROVE  Running(g) /\ g \notin asleep /\ Perform(g, Instr(g))
BY DEF Step, AtHand, Perform

\* The operation decides which of the actions is taken.
LEMMA ByOperation ==
  ASSUME NEW g, NEW i, Perform(g, i)
  PROVE  /\ i.op = "lock"   => TakeLock(g, i)
         /\ i.op = "unlock" => ReleaseLock(g, i)
         /\ i.op = "close"  => CloseChannel(g, i)
         /\ i.op = "cancel" => CancelContext(g, i)
         /\ i.op = "go"     => StartGoroutines(g, i)
         /\ i.op = "either" => Branch(g, i)
         /\ i.op = "for"    => Count(g, i)
         /\ i.op = "if"     => Test(g, i)
         /\ i.op \in {"set", "plus", "read", "write"} => Access(g, i)
         /\ i.op = "wgadd"  => AddToGroup(g, i)
         /\ i.op = "wgwait" => WaitForGroup(g, i)
         /\ i.op = "panic"  => PanicHere(g, i)
         /\ i.op = "comm"   => Communicate(g, i) \/ Otherwise(g, i)
BY DEF Perform, Communicate, Otherwise, CloseChannel, CancelContext, TakeLock,
       TakeReadLock, ReleaseLock, Sleep, Wake, AddToGroup, WaitForGroup, StartGoroutines, PanicHere,
       Branch, Count, Access, Test, KeepValue

\* Everything but labels stays.
DataStays == UNCHANGED <<val, buf, closed, lock, wg, asleep, heap, got>>

LEMMA DoesLock ==
  ASSUME NEW g, NEW m, NEW l, Perform(g, Lock(m, l))
  PROVE  /\ Unlocked(m) /\ Goto(g, l) /\ lock' = [lock EXCEPT ![m] = Held(g, 0)]
         /\ UNCHANGED <<prog, val, buf, closed, wg, asleep, heap, got>>
<1>1. TakeLock(g, Lock(m, l))
  BY ByOperation DEF Lock
<1> QED BY <1>1 DEF TakeLock, Lock, None, chanVars, dataVars

LEMMA DoesUnlock ==
  ASSUME NEW g, NEW m, NEW l, Perform(g, Unlock(m, l))
  PROVE  /\ Goto(g, IF Unlocked(m) THEN "panic" ELSE l) /\ lock' = [lock EXCEPT ![m] = Released(m)]
         /\ UNCHANGED <<prog, val, buf, closed, wg, asleep, heap, got>>
<1>1. ReleaseLock(g, Unlock(m, l))
  BY ByOperation DEF Unlock
<1> QED BY <1>1 DEF ReleaseLock, Unlock, chanVars, dataVars

LEMMA DoesClose ==
  ASSUME NEW g, NEW c, NEW l, Perform(g, Close(c, l))
  PROVE  /\ Goto(g, IF c \in closed THEN "panic" ELSE l) /\ closed' = closed \cup {c}
         /\ UNCHANGED <<prog, val, buf, lock, wg, asleep, heap, got>>
<1>1. CloseChannel(g, Close(c, l))
  BY ByOperation DEF Close
<1> QED BY <1>1 DEF CloseChannel, Close, syncVars, dataVars

LEMMA DoesCancel ==
  ASSUME NEW g, NEW c, NEW l, Perform(g, Cancel(c, l))
  PROVE  /\ Goto(g, l) /\ closed' = closed \cup c
         /\ UNCHANGED <<prog, val, buf, lock, wg, asleep, heap, got>>
<1>1. CancelContext(g, Cancel(c, l))
  BY ByOperation DEF Cancel
<1> QED BY <1>1 DEF CancelContext, Cancel, syncVars, dataVars

LEMMA DoesGo ==
  ASSUME NEW g, NEW S, NEW l, Perform(g, Go(S, l))
  PROVE  /\ pc' = [h \in Goroutines |-> IF h = g THEN l ELSE IF h \in S THEN "start" ELSE pc[h]]
         /\ prog' = prog /\ DataStays
<1>1. StartGoroutines(g, Go(S, l))
  BY ByOperation DEF Go
<1> QED BY <1>1 DEF StartGoroutines, Go, DataStays, chanVars, syncVars, dataVars

LEMMA DoesEither ==
  ASSUME NEW g, NEW S, Perform(g, Either(S))
  PROVE  /\ \E l \in S : Goto(g, l)
         /\ prog' = prog /\ DataStays
<1>1. Branch(g, Either(S))
  BY ByOperation DEF Either
<1> QED BY <1>1 DEF Branch, Either, DataStays, chanVars, syncVars, dataVars

LEMMA DoesIf ==
  ASSUME NEW g, NEW x, NEW S, NEW l, NEW m, Perform(g, If(x, S, l, m))
  PROVE  /\ Goto(g, IF heap[x] \in S THEN l ELSE m)
         /\ prog' = prog /\ DataStays
<1>1. Test(g, If(x, S, l, m))
  BY ByOperation DEF If
<1> QED BY <1>1 DEF Test, If, DataStays, chanVars, syncVars, dataVars

LEMMA DoesSet ==
  ASSUME NEW g, NEW x, NEW v, NEW l, Perform(g, Set(x, v, l))
  PROVE  /\ Goto(g, l) /\ heap' = [heap EXCEPT ![x] = v]
         /\ UNCHANGED <<prog, val, buf, closed, lock, wg, asleep, got>>
<1>1. Access(g, Set(x, v, l))
  BY ByOperation DEF Set
<1> QED BY <1>1 DEF Access, Set, chanVars, syncVars

LEMMA DoesFor ==
  ASSUME NEW g, NEW x, NEW n, NEW l, NEW m, Perform(g, For(x, n, l, m))
  PROVE  /\ \/ Goto(g, l) /\ heap' = [heap EXCEPT ![x] = @ + 1]
            \/ Goto(g, m) /\ heap' = heap
         /\ UNCHANGED <<prog, buf, closed, lock, wg, asleep, got>>
<1>1. Count(g, For(x, n, l, m))
  BY ByOperation DEF For
<1> QED BY <1>1 DEF Count, For, chanVars, syncVars

LEMMA DoesPlus ==
  ASSUME NEW g, NEW x, NEW n, NEW l, Perform(g, Plus(x, n, l))
  PROVE  /\ Goto(g, l) /\ heap' = [heap EXCEPT ![x] = @ + n]
         /\ UNCHANGED <<prog, val, buf, closed, lock, wg, asleep, got>>
<1>1. Access(g, Plus(x, n, l))
  BY ByOperation DEF Plus
<1> QED BY <1>1 DEF Access, Plus, chanVars, syncVars

LEMMA DoesRead ==
  ASSUME NEW g, NEW x, NEW l, Perform(g, Read(x, l))
  PROVE  /\ Goto(g, l) /\ val' = [val EXCEPT ![g] = heap[x]]
         /\ UNCHANGED <<prog, buf, closed, lock, wg, asleep, heap, got>>
<1>1. Access(g, Read(x, l))
  BY ByOperation DEF Read
<1> QED BY <1>1 DEF Access, Read, chanVars, syncVars

LEMMA DoesWrite ==
  ASSUME NEW g, NEW x, NEW n, NEW l, Perform(g, Write(x, n, l))
  PROVE  /\ Goto(g, l) /\ heap' = [heap EXCEPT ![x] = val[g] + n]
         /\ UNCHANGED <<prog, val, buf, closed, lock, wg, asleep, got>>
<1>1. Access(g, Write(x, n, l))
  BY ByOperation DEF Write
<1> QED BY <1>1 DEF Access, Write, chanVars, syncVars

LEMMA DoesAdd ==
  ASSUME NEW g, NEW w, NEW n, NEW l, Perform(g, Add(w, n, l))
  PROVE  /\ wg' = [wg EXCEPT ![w] = @ + n] /\ Goto(g, IF wg'[w] < 0 THEN "panic" ELSE l)
         /\ UNCHANGED <<prog, val, buf, closed, lock, asleep, heap, got>>
<1>1. AddToGroup(g, Add(w, n, l))
  BY ByOperation DEF Add
<1> QED BY <1>1 DEF AddToGroup, Add, chanVars, dataVars

LEMMA DoesWait ==
  ASSUME NEW g, NEW w, NEW l, Perform(g, Wait(w, l))
  PROVE  wg[w] = 0 /\ Goto(g, l) /\ prog' = prog /\ DataStays
<1>1. WaitForGroup(g, Wait(w, l))
  BY ByOperation DEF Wait
<1> QED BY <1>1 DEF WaitForGroup, Wait, DataStays, chanVars, syncVars, dataVars

LEMMA DoesPanic ==
  ASSUME NEW g, NEW l, l # None, Perform(g, Panic(l))
  PROVE  Goto(g, l) /\ prog' = prog /\ DataStays
<1>1. PanicHere(g, Panic(l))
  BY ByOperation DEF Panic
<1> QED BY <1>1 DEF PanicHere, Panic, DataStays, chanVars, syncVars, dataVars

\* A select, when no case sends on a channel without a buffer.
LEMMA DoesComm ==
  ASSUME NEW g, NEW S, NEW l,
         \A c \in S : c.dir = "send" => Cap(c.ch) # 0,
         Perform(g, CommOr(S, l))
  PROVE  \/ \E c \in S : Take(g, c)
         \/ l # None /\ Goto(g, l) /\ prog' = prog /\ DataStays
<1>1. Communicate(g, CommOr(S, l)) \/ Otherwise(g, CommOr(S, l))
  BY ByOperation DEF CommOr
<1>2. ASSUME Communicate(g, CommOr(S, l)) PROVE \E c \in S : Take(g, c)
  BY <1>2 DEF Communicate, CommOr, Meet
<1>3. ASSUME Otherwise(g, CommOr(S, l)) PROVE l # None /\ Goto(g, l) /\ prog' = prog /\ DataStays
  BY <1>3 DEF Otherwise, CommOr, DataStays, chanVars, syncVars, dataVars
<1> QED BY <1>1, <1>2, <1>3

LEMMA WithoutDefault ==
  ASSUME NEW S
  PROVE  Comm(S) = CommOr(S, None)
BY DEF Comm, CommOr

LEMMA TakesRecv ==
  ASSUME NEW g, NEW c, NEW l, Take(g, Recv(c, l))
  PROVE  /\ Goto(g, l)
         /\ \/ buf[c] # <<>> /\ buf' = [buf EXCEPT ![c] = Tail(@)]
            \/ c \in closed /\ buf' = buf
         /\ UNCHANGED <<prog, closed, lock, wg, asleep, heap, got>>
BY DEF Take, Recv, RangeOver, syncVars, dataVars

\* From a closed channel that was never sent on comes a zero.
LEMMA TakesNothing ==
  ASSUME NEW g, NEW c, NEW l, buf[c] = <<>>, Take(g, Recv(c, l))
  PROVE  /\ c \in closed /\ Goto(g, l) /\ val' = [val EXCEPT ![g] = 0]
         /\ UNCHANGED <<prog, buf, closed, lock, wg, asleep, heap, got>>
BY DEF Take, Recv, RangeOver, syncVars, dataVars

LEMMA TakesTimer ==
  ASSUME NEW g, NEW l, Take(g, Timer(l))
  PROVE  /\ Goto(g, l)
         /\ UNCHANGED <<prog, val, buf, closed, lock, wg, asleep, heap, got>>
BY DEF Take, Timer, syncVars, dataVars

LEMMA TakesSend ==
  ASSUME NEW g, NEW c, NEW l, Take(g, Send(c, l))
  PROVE  /\ Goto(g, l) \/ (c \in closed /\ Goto(g, "panic"))
         /\ \/ buf' = [buf EXCEPT ![c] = Append(@, val[g])]
            \/ buf' = buf
         /\ UNCHANGED <<prog, val, closed, lock, wg, asleep, heap, got>>
BY DEF Take, Send, syncVars, dataVars

-----------------------------------------------------------------------------
(* The hub: names and code.                                                *)

\* The hub's cells: who is in which subscription.
LEMMA HubCells ==
  /\ In(1, 1) = "conn11" /\ In(1, 2) = "conn12"
  /\ In(2, 1) = "conn21" /\ In(2, 2) = "conn22"
BY HubNames DEF In

LEMMA TwoConns == Conns = {1, 2} /\ Guard(1) = "a" /\ Guard(2) = "b" /\ Other(1) = 2 /\ Other(2) = 1
BY DEF Conns, Guard, Other

LEMMA FromFirst ==
  ASSUME NEW f, NEW h, NEW x \in DOMAIN f
  PROVE  x \in DOMAIN (f ++ h) /\ (f ++ h)[x] = f[x]
BY DEF ++

LEMMA FromSecond ==
  ASSUME NEW f, NEW h, NEW x \in DOMAIN h, x \notin DOMAIN f
  PROVE  x \in DOMAIN (f ++ h) /\ (f ++ h)[x] = h[x]
BY DEF ++

LEMMA DomainOfBoth ==
  ASSUME NEW f, NEW h
  PROVE  DOMAIN (f ++ h) = DOMAIN f \cup DOMAIN h
BY DEF ++

LEMMA OnLabel ==
  ASSUME NEW l, NEW i
  PROVE  DOMAIN On(l, i) = {l} /\ On(l, i)[l] = i
BY DEF On

LEMMA SubscribeCode ==
  ASSUME NEW c \in Conns
  PROVE  /\ DOMAIN subscribe(c) = {"start", "find", "create", "pump", "which", "join1", "add1", "added1",
                                  "join2", "add2", "added2", "joined"}
         /\ subscribe(c)["start"] = Lock("mu", "find") 
         /\ subscribe(c)["find"] = If("sub", {0}, "create", "which")
         /\ subscribe(c)["create"] = Set("sub", c, "pump")
         /\ subscribe(c)["pump"] = Go({Of("pump", c)}, Of("join", c))
         /\ subscribe(c)["which"] = If("sub", {1}, "join1", "join2")
         /\ subscribe(c)["join1"] = Lock("a", "add1")
         /\ subscribe(c)["add1"] = Set(In(1, c), 1, "added1")
         /\ subscribe(c)["added1"] = Unlock("a", "joined")
         /\ subscribe(c)["join2"] = Lock("b", "add2")
         /\ subscribe(c)["add2"] = Set(In(2, c), 1, "added2")
         /\ subscribe(c)["added2"] = Unlock("b", "joined")
         /\ subscribe(c)["joined"] = Unlock("mu", "frames")
BY TwoConns DEF subscribe

LEMMA DepartCode1 ==
  ASSUME NEW c \in Conns
  PROVE  /\ DOMAIN depart(1, c) = {"gone1", "delete1", "empty1", "stay1", "last1", "cancel1"}
         /\ depart(1, c)["gone1"] = Lock("a", "delete1")
         /\ depart(1, c)["delete1"] = Set(In(1, c), 0, "empty1")
         /\ depart(1, c)["empty1"] = If(In(1, Other(c)), {1}, "stay1", "last1")
         /\ depart(1, c)["stay1"] = Unlock("a", "unlock")
         /\ depart(1, c)["last1"] = Unlock("a", "cancel1")
         /\ depart(1, c)["cancel1"] = Cancel({"ctx1"}, "forget")
<1>1. PICK f : f = On("gone1", Lock("a", "delete1")) ++ On("delete1", Set(In(1, c), 0, "empty1"))
           ++ On("empty1", If(In(1, Other(c)), {1}, "stay1", "last1"))
  OBVIOUS
<1>2. /\ DOMAIN f = {"gone1", "delete1", "empty1"}
      /\ f["gone1"] = Lock("a", "delete1") /\ f["delete1"] = Set(In(1, c), 0, "empty1")
      /\ f["empty1"] = If(In(1, Other(c)), {1}, "stay1", "last1")
  BY <1>1 DEF ++, On
<1>3. depart(1, c) = f ++ On("stay1", Unlock("a", "unlock")) ++ On("last1", Unlock("a", "cancel1"))
                     ++ On("cancel1", Cancel({"ctx1"}, "forget"))
  BY <1>1, HubNames, TwoConns DEF depart
<1> QED BY <1>2, <1>3 DEF ++, On

LEMMA DepartCode2 ==
  ASSUME NEW c \in Conns
  PROVE  /\ DOMAIN depart(2, c) = {"gone2", "delete2", "empty2", "stay2", "last2", "cancel2"}
         /\ depart(2, c)["gone2"] = Lock("b", "delete2")
         /\ depart(2, c)["delete2"] = Set(In(2, c), 0, "empty2")
         /\ depart(2, c)["empty2"] = If(In(2, Other(c)), {1}, "stay2", "last2")
         /\ depart(2, c)["stay2"] = Unlock("b", "unlock")
         /\ depart(2, c)["last2"] = Unlock("b", "cancel2")
         /\ depart(2, c)["cancel2"] = Cancel({"ctx2"}, "forget")
<1>1. PICK f : f = On("gone2", Lock("b", "delete2")) ++ On("delete2", Set(In(2, c), 0, "empty2"))
           ++ On("empty2", If(In(2, Other(c)), {1}, "stay2", "last2"))
  OBVIOUS
<1>2. /\ DOMAIN f = {"gone2", "delete2", "empty2"}
      /\ f["gone2"] = Lock("b", "delete2") /\ f["delete2"] = Set(In(2, c), 0, "empty2")
      /\ f["empty2"] = If(In(2, Other(c)), {1}, "stay2", "last2")
  BY <1>1 DEF ++, On
<1>3. depart(2, c) = f ++ On("stay2", Unlock("b", "unlock")) ++ On("last2", Unlock("b", "cancel2"))
                     ++ On("cancel2", Cancel({"ctx2"}, "forget"))
  BY <1>1, HubNames, TwoConns DEF depart
<1> QED BY <1>2, <1>3 DEF ++, On

LEMMA UnsubscribeCode ==
  ASSUME NEW c \in Conns
  PROVE  /\ DOMAIN unsubscribe(c) = {"leave", "ws", "lock", "look", "mine", "forget", "unlock",
                                    "gone1", "delete1", "empty1", "stay1", "last1", "cancel1",
                                    "gone2", "delete2", "empty2", "stay2", "last2", "cancel2"}
         /\ unsubscribe(c)["leave"] = Close(Of("closed", c), "ws")
         /\ unsubscribe(c)["ws"] = Cancel({Of("ws", c)}, "lock")
         /\ unsubscribe(c)["lock"] = Lock("mu", "look")
         /\ unsubscribe(c)["look"] = If("sub", {0}, "unlock", "mine")
         /\ unsubscribe(c)["mine"] = If("sub", {1}, "gone1", "gone2")
         /\ unsubscribe(c)["forget"] = Set("sub", 0, "unlock")
         /\ unsubscribe(c)["unlock"] = Unlock("mu", "end")
         /\ unsubscribe(c)["gone1"] = Lock("a", "delete1")
         /\ unsubscribe(c)["delete1"] = Set(In(1, c), 0, "empty1")
         /\ unsubscribe(c)["empty1"] = If(In(1, Other(c)), {1}, "stay1", "last1")
         /\ unsubscribe(c)["stay1"] = Unlock("a", "unlock")
         /\ unsubscribe(c)["last1"] = Unlock("a", "cancel1")
         /\ unsubscribe(c)["cancel1"] = Cancel({"ctx1"}, "forget")
         /\ unsubscribe(c)["gone2"] = Lock("b", "delete2")
         /\ unsubscribe(c)["delete2"] = Set(In(2, c), 0, "empty2")
         /\ unsubscribe(c)["empty2"] = If(In(2, Other(c)), {1}, "stay2", "last2")
         /\ unsubscribe(c)["stay2"] = Unlock("b", "unlock")
         /\ unsubscribe(c)["last2"] = Unlock("b", "cancel2")
         /\ unsubscribe(c)["cancel2"] = Cancel({"ctx2"}, "forget")
<1>1. PICK f : f = [leave |-> Close(Of("closed", c), "ws"), ws |-> Cancel({Of("ws", c)}, "lock"),
                    lock |-> Lock("mu", "look"), look |-> If("sub", {0}, "unlock", "mine"),
                    mine |-> If("sub", {1}, "gone1", "gone2"), forget |-> Set("sub", 0, "unlock"),
                    unlock |-> Unlock("mu", "end")]
  OBVIOUS
<1>2. unsubscribe(c) = f ++ depart(1, c) ++ depart(2, c)
  BY <1>1 DEF unsubscribe
<1>3. DOMAIN f = {"leave", "ws", "lock", "look", "mine", "forget", "unlock"}
  BY <1>1
<1> QED BY <1>1, <1>2, <1>3, DepartCode1, DepartCode2 DEF ++

\* The labels of a connection's goroutine and what stands there.
ServeCode(c, f) ==
  /\ f["start"] = Lock("mu", "find")
  /\ f["find"] = If("sub", {0}, "create", "which")
  /\ f["create"] = Set("sub", c, "pump")
  /\ f["pump"] = Go({Of("pump", c)}, Of("join", c))
  /\ f["which"] = If("sub", {1}, "join1", "join2")
  /\ f["join1"] = Lock("a", "add1")
  /\ f["add1"] = Set(In(1, c), 1, "added1")
  /\ f["added1"] = Unlock("a", "joined")
  /\ f["join2"] = Lock("b", "add2")
  /\ f["add2"] = Set(In(2, c), 1, "added2")
  /\ f["added2"] = Unlock("b", "joined")
  /\ f["joined"] = Unlock("mu", "frames")
  /\ f["leave"] = Close(Of("closed", c), "ws")
  /\ f["ws"] = Cancel({Of("ws", c)}, "lock")
  /\ f["lock"] = Lock("mu", "look")
  /\ f["look"] = If("sub", {0}, "unlock", "mine")
  /\ f["mine"] = If("sub", {1}, "gone1", "gone2")
  /\ f["forget"] = Set("sub", 0, "unlock")
  /\ f["unlock"] = Unlock("mu", "end")
  /\ f["gone1"] = Lock("a", "delete1")
  /\ f["delete1"] = Set(In(1, c), 0, "empty1")
  /\ f["empty1"] = If(In(1, Other(c)), {1}, "stay1", "last1")
  /\ f["stay1"] = Unlock("a", "unlock")
  /\ f["last1"] = Unlock("a", "cancel1")
  /\ f["cancel1"] = Cancel({"ctx1"}, "forget")
  /\ f["gone2"] = Lock("b", "delete2")
  /\ f["delete2"] = Set(In(2, c), 0, "empty2")
  /\ f["empty2"] = If(In(2, Other(c)), {1}, "stay2", "last2")
  /\ f["stay2"] = Unlock("b", "unlock")
  /\ f["last2"] = Unlock("b", "cancel2")
  /\ f["cancel2"] = Cancel({"ctx2"}, "forget")
  /\ f["frames"] = Either({"serve", "leave"})
  /\ f["serve"] = Go({Of("write", c)}, "read")
  /\ f["read"] = Comm({Recv(Of("ws", c), "leave"), Timer("leave")})

LEMMA ServeCodeIs ==
  ASSUME NEW c \in Conns
  PROVE  ServeCode(c, ServeWS(c))
<1>1. PICK f : f = [frames |-> Either({"serve", "leave"}), serve |-> Go({Of("write", c)}, "read"),
                    read |-> Comm({Recv(Of("ws", c), "leave"), Timer("leave")})]
  OBVIOUS
<1>2. ServeWS(c) = subscribe(c) ++ unsubscribe(c) ++ f
  BY <1>1 DEF ServeWS
<1>3. DOMAIN f = {"frames", "serve", "read"}
  BY <1>1
<1>4. /\ \A x \in DOMAIN subscribe(c) : ServeWS(c)[x] = subscribe(c)[x]
      /\ \A x \in DOMAIN unsubscribe(c) : x \notin DOMAIN subscribe(c) => ServeWS(c)[x] = unsubscribe(c)[x]
      /\ \A x \in DOMAIN f : x \notin DOMAIN subscribe(c) /\ x \notin DOMAIN unsubscribe(c) => ServeWS(c)[x] = f[x]
  BY <1>2 DEF ++
<1>5. \A x \in DOMAIN unsubscribe(c) \cup DOMAIN f : x \notin DOMAIN subscribe(c)
  BY <1>3, SubscribeCode, UnsubscribeCode
<1>6. \A x \in DOMAIN f : x \notin DOMAIN unsubscribe(c)
  BY <1>3, UnsubscribeCode
<1>7. /\ \A x \in DOMAIN unsubscribe(c) : ServeWS(c)[x] = unsubscribe(c)[x]
      /\ \A x \in DOMAIN f : ServeWS(c)[x] = f[x]
  BY <1>4, <1>5, <1>6
<1> QED BY <1>1, <1>3, <1>4, <1>7, SubscribeCode, UnsubscribeCode DEF ServeCode

LEMMA HubGoroutinesRun ==
  /\ DOMAIN Hub = {"main", "serve1", "serve2", "write1", "write2", "pump1", "pump2"}
  /\ Hub["main"] = [start |-> Go({"serve1", "serve2"}, "end")]
  /\ Hub["serve1"] = ServeWS(1) /\ Hub["serve2"] = ServeWS(2)
  /\ Hub["write1"] = writeLoop(1) /\ Hub["write2"] = writeLoop(2)
  /\ Hub["pump1"] = pumpRedis(1) /\ Hub["pump2"] = pumpRedis(2)
BY DEF Hub, Serve, ++

\* The channels the hub sends on have room for a value, and the others none.
LEMMA HubChannels ==
  /\ HubChans["send1"] = 1 /\ HubChans["send2"] = 1
  /\ {"ctx1", "ctx2"} \subseteq DOMAIN HubChans
BY HubNames, TwoConns DEF HubChans, ++

LEMMA HubVariables ==
  /\ {"sub", "conn11", "conn12", "conn21", "conn22"} \subseteq DOMAIN HubVars
  /\ \A x \in {"sub", "conn11", "conn12", "conn21", "conn22"} : HubVars[x] = 0
BY HubNames, HubCells, TwoConns DEF HubVars

\* The program the table has under the hub's name.
LEMMA HubRuns ==
  ASSUME prog = "hub"
  PROVE  Program.code = Hub /\ Program.caps = HubChans /\ Program.vars = HubVars /\ Program.deadlines = {}
<1>1. "hub" \in DOMAIN Servers
      /\ Servers["hub"] = [code |-> Hub, caps |-> HubChans, vars |-> HubVars, deadlines |-> {}]
  BY DEF Servers
<1>2. Programs["hub"] = Servers["hub"]
  BY <1>1, ServersRun
<1> QED BY <1>1, <1>2 DEF Program

-----------------------------------------------------------------------------
(* The hub: what holds while connections come and go.                      *)

At(c)        == pc[Of("serve", c)]
Sub          == heap["sub"]
Joined(i, c) == heap[In(i, c)]
Cancelled(i) == Of("ctx", i) \in closed
Pump(i)      == pc[Of("pump", i)]

\* Where a connection's goroutine holds h.mu, has not looked for a subscription
\* yet, is in one, and is about to leave or has just joined the first or second.
InMu == {"find", "create", "pump", "which", "join1", "add1", "added1", "join2", "add2", "added2", "joined",
         "look", "mine", "gone1", "delete1", "empty1", "stay1", "last1", "cancel1",
         "gone2", "delete2", "empty2", "stay2", "last2", "cancel2", "forget", "unlock"}
Early    == {"idle", "start", "find", "create"}
Attached == {"added1", "added2", "joined", "frames", "serve", "read", "leave", "ws", "lock", "look", "mine",
             "gone1", "delete1", "gone2", "delete2"}
First    == {"join1", "add1", "added1", "gone1", "delete1", "empty1", "stay1", "last1", "cancel1"}
Second   == {"join2", "add2", "added2", "gone2", "delete2", "empty2", "stay2", "last2", "cancel2"}
Leaving  == {"last1", "cancel1", "last2", "cancel2", "forget"}
ServeLabels == InMu \cup Early \cup Attached \cup {"end", "panic"}
PumpLabels == {"idle", "start", "message", "quiet", "lock", "first", "send1", "second", "send2", "unlock", "end", "panic"}
WriteLabels == {"idle", "start", "write", "drop", "end", "panic"}

\* Where each goroutine can be.
LabelsShape ==
  /\ DOMAIN pc = {"main", "serve1", "serve2", "write1", "write2", "pump1", "pump2"}
  /\ \A c \in Conns : At(c) \in ServeLabels /\ pc[Of("write", c)] \in WriteLabels /\ Pump(c) \in PumpLabels
  /\ pc["main"] \in {"start", "end", "panic"}
  /\ pc["main"] = "start" => \A c \in Conns : At(c) = "idle"

\* Nothing is ever sent on a subscription's context.
DataShape ==
  /\ {"sub", "conn11", "conn12", "conn21", "conn22"} \subseteq DOMAIN heap
  /\ DOMAIN lock = Mutexes
  /\ buf["ctx1"] = <<>> /\ buf["ctx2"] = <<>>

\* h.mu serialises those who join and leave.
MuIsHeld == \A c \in Conns : At(c) \in InMu => lock["mu"] = Held(Of("serve", c), 0)

\* A subscription is cancelled by its last connection, which then forgets it.
SubIsKnown ==
  /\ Sub \in {0, 1, 2}
  /\ \A c \in Conns :
       /\ At(c) \in Early => Sub # c /\ ~Cancelled(c)
       /\ At(c) \in {"create"} => Sub = 0
       /\ At(c) \in {"pump"} => Sub = c
       /\ At(c) \in {"which"} => Sub # 0
       /\ At(c) \in First => Sub = 1
       /\ At(c) \in Second => Sub = 2
       /\ At(c) \in Attached => Sub \in Conns /\ Joined(Sub, c) = 1
       /\ At(c) \in Leaving => At(Other(c)) \notin Attached
  /\ \A i \in Conns : Sub = i /\ Cancelled(i) => \E c \in Conns : At(c) = "forget"

PumpsRun == \A i \in Conns : Pump(i) = "end" => Cancelled(i)

HubParts == LabelsShape /\ DataShape /\ MuIsHeld /\ SubIsKnown /\ PumpsRun
HubInv   == prog = "hub" => HubParts

-----------------------------------------------------------------------------
(* Steps of the hub, as what they do to the labels and to what is shared.  *)

\* Only goroutine g moves, to label l.
OnlyMoves(g, l) ==
  /\ pc'[g] = l /\ DOMAIN pc' = DOMAIN pc
  /\ \A h \in DOMAIN pc \ {g} : pc'[h] = pc[h]

LEMMA GotoMoves ==
  ASSUME NEW g \in DOMAIN pc, NEW l, Goto(g, l)
  PROVE  OnlyMoves(g, l)
BY DEF Goto, OnlyMoves

SameSub       == Sub' = Sub
SameJoined    == \A i, c \in Conns : Joined(i, c)' = Joined(i, c)
SameCancelled == \A i \in Conns : Cancelled(i)' <=> Cancelled(i)
SameMu        == lock'["mu"] = lock["mu"]

LEMMA SameHeap ==
  ASSUME heap' = heap
  PROVE  SameSub /\ SameJoined
BY DEF SameSub, SameJoined, Sub, Joined

LEMMA SameClosed ==
  ASSUME closed' = closed
  PROVE  SameCancelled
BY DEF SameCancelled, Cancelled

LEMMA SameLock ==
  ASSUME lock' = lock
  PROVE  SameMu
BY DEF SameMu

\* The locks of subscriptions are not h.mu.
LEMMA OtherLock ==
  ASSUME DataShape, NEW m \in {"a", "b"}, NEW x, lock' = [lock EXCEPT ![m] = x]
  PROVE  SameMu /\ DOMAIN lock' = DOMAIN lock
BY DEF SameMu, DataShape, Mutexes

LEMMA MuLock ==
  ASSUME DataShape, NEW x, lock' = [lock EXCEPT !["mu"] = x]
  PROVE  lock'["mu"] = x /\ DOMAIN lock' = DOMAIN lock
BY DEF DataShape, Mutexes

\* Another variable of the heap.
LEMMA OtherCell ==
  ASSUME DataShape, NEW x, x \notin {"sub", "conn11", "conn12", "conn21", "conn22"},
         NEW v, heap' = [heap EXCEPT ![x] = v]
  PROVE  SameSub /\ SameJoined /\ DOMAIN heap' = DOMAIN heap
BY TwoConns, HubCells DEF DataShape, SameSub, SameJoined, Sub, Joined

LEMMA SubCell ==
  ASSUME DataShape, NEW v, heap' = [heap EXCEPT !["sub"] = v]
  PROVE  Sub' = v /\ SameJoined /\ DOMAIN heap' = DOMAIN heap
BY TwoConns, HubCells DEF DataShape, SameJoined, Sub, Joined

\* Channels other than a subscription's context.
LEMMA OtherChannel ==
  ASSUME DataShape, NEW x, x \notin {"ctx1", "ctx2"}, NEW v, buf' = [buf EXCEPT ![x] = v]
  PROVE  buf'["ctx1"] = <<>> /\ buf'["ctx2"] = <<>>
BY DEF DataShape

LEMMA OtherClosed ==
  ASSUME NEW S, S \cap {"ctx1", "ctx2"} = {}, closed' = closed \cup S
  PROVE  SameCancelled
BY TwoConns, HubNames DEF SameCancelled, Cancelled

LEMMA CtxClosed ==
  ASSUME NEW i \in Conns, closed' = closed \cup {Of("ctx", i)}
  PROVE  \A j \in Conns : Cancelled(j)' <=> j = i \/ Cancelled(j)
BY TwoConns, HubNames DEF Cancelled
\* The goroutine of connection c goes on to l, and those of the hub stay.
After(c, l) == At(c)' = l /\ \A d \in Conns \ {c} : At(d)' = At(d)
SamePumps   == \A i \in Conns : Pump(i)' = Pump(i)

LEMMA ServeMoves ==
  ASSUME LabelsShape, NEW c \in Conns, NEW l \in ServeLabels, At(c) # "idle", OnlyMoves(Of("serve", c), l)
  PROVE  LabelsShape' /\ After(c, l) /\ SamePumps
BY TwoConns, HubNames DEF LabelsShape, OnlyMoves, After, SamePumps, At, Pump

\* Nothing of the hub changes but where one connection's goroutine is.
Undisturbed == SameSub /\ SameJoined /\ SameCancelled /\ SamePumps

\* Where it goes from where it is.
QuietNext(c, l) ==
  \/ At(c) = "find" /\ l = IF Sub = 0 THEN "create" ELSE "which"
  \/ At(c) = "which" /\ l = IF Sub = 1 THEN "join1" ELSE "join2"
  \/ At(c) = "join1" /\ l = "add1"
  \/ At(c) = "join2" /\ l = "add2"
  \/ At(c) \in {"added1", "added2"} /\ l = "joined"
  \/ At(c) = "frames" /\ l \in {"serve", "leave"}
  \/ At(c) = "serve" /\ l = "read"
  \/ At(c) = "read" /\ l = "leave"
  \/ At(c) = "leave" /\ l = "ws"
  \/ At(c) = "ws" /\ l = "lock"
  \/ At(c) = "look" /\ l = IF Sub = 0 THEN "unlock" ELSE "mine"
  \/ At(c) = "mine" /\ l = IF Sub = 1 THEN "gone1" ELSE "gone2"
  \/ At(c) = "gone1" /\ l = "delete1"
  \/ At(c) = "gone2" /\ l = "delete2"
  \/ At(c) = "empty1" /\ l = IF Joined(1, Other(c)) = 1 THEN "stay1" ELSE "last1"
  \/ At(c) = "empty2" /\ l = IF Joined(2, Other(c)) = 1 THEN "stay2" ELSE "last2"
  \/ At(c) \in {"stay1", "stay2"} /\ l = "unlock"
  \/ At(c) = "last1" /\ l = "cancel1"
  \/ At(c) = "last2" /\ l = "cancel2"
  \/ At(c) # "forget" /\ l = "panic"

LEMMA QuietKeepsMu ==
  ASSUME MuIsHeld, NEW c \in Conns, NEW l, QuietNext(c, l), After(c, l), SameMu
  PROVE  MuIsHeld'
BY DEF MuIsHeld, QuietNext, After, SameMu, InMu

LEMMA QuietKeepsPumps ==
  ASSUME PumpsRun, SamePumps, SameCancelled
  PROVE  PumpsRun'
BY DEF PumpsRun, SamePumps, SameCancelled

\* Two goroutines do not hold h.mu at once.
LEMMA MuExcludes ==
  ASSUME MuIsHeld, NEW c \in Conns, At(c) \in InMu
  PROVE  \A d \in Conns \ {c} : At(d) \notin InMu
BY HubNames, TwoConns DEF MuIsHeld, Held

LEMMA QuietKeepsSub ==
  ASSUME SubIsKnown, NEW c \in Conns, NEW l, QuietNext(c, l), After(c, l), SameSub, SameJoined, SameCancelled
  PROVE  SubIsKnown'
<1>1. Sub' \in {0, 1, 2}
  BY DEF SubIsKnown, SameSub
<1>2. \A d \in Conns : At(d)' \in Early => Sub' # d /\ ~Cancelled(d)'
  BY DEF SubIsKnown, SameSub, SameCancelled, After, QuietNext, Early
<1>3. \A d \in Conns : /\ At(d)' = "create" => Sub' = 0
                       /\ At(d)' = "pump" => Sub' = d
                       /\ At(d)' = "which" => Sub' # 0
  BY DEF SubIsKnown, SameSub, After, QuietNext
<1>4. \A d \in Conns : /\ At(d)' \in First => Sub' = 1
                       /\ At(d)' \in Second => Sub' = 2
  BY TwoConns DEF SubIsKnown, SameSub, After, QuietNext, First, Second, Attached
<1>a. \A d \in Conns : At(d)' \in Attached => At(d) \in Attached
  BY DEF After, QuietNext, Attached
<1>b. \A d \in Conns : At(d) \in Attached => Sub \in Conns /\ Joined(Sub, d) = 1
  BY DEF SubIsKnown
<1>5. \A d \in Conns : At(d)' \in Attached => Sub' \in Conns /\ Joined(Sub, d)' = 1
  <2>1. PICK s : s = Sub /\ s = Sub'
    BY DEF SameSub
  <2>2. \A d \in Conns : At(d)' \in Attached => s \in Conns /\ Joined(s, d)' = 1
    BY <1>a, <1>b, <2>1 DEF SameJoined
  <2> QED BY <2>1, <2>2 DEF Joined
<1>6. \A d \in Conns : At(d)' \in Leaving => At(Other(d))' \notin Attached
  <2>1. \A d \in Conns : Other(d) \in Conns /\ Other(d) # d
    BY TwoConns
  <2>2. ASSUME At(c)' \in Leaving PROVE At(c) \in Leaving \/ At(Other(c)) \notin Attached
    <3>1. CASE At(c) \notin {"empty1", "empty2"}
      BY <2>2, <3>1 DEF After, QuietNext, Leaving
    <3>2. CASE At(c) = "empty1"
      <4>1. Sub = 1 /\ Joined(1, Other(c)) # 1
        BY <2>2, <3>2 DEF After, QuietNext, Leaving, SubIsKnown, First
      <4> QED BY <4>1, <1>b, <2>1
    <3>3. CASE At(c) = "empty2"
      <4>1. Sub = 2 /\ Joined(2, Other(c)) # 1
        BY <2>2, <3>3 DEF After, QuietNext, Leaving, SubIsKnown, Second
      <4> QED BY <4>1, <1>b, <2>1
    <3> QED BY <3>1, <3>2, <3>3
  <2>3. \A d \in Conns : At(d) \in Leaving => At(Other(d)) \notin Attached
    BY DEF SubIsKnown
  <2>4. \A d \in Conns : At(d)' \in Leaving => At(Other(d)) \notin Attached
    BY <2>2, <2>3 DEF After
  <2> QED BY <1>a, <2>1, <2>4
<1>7. \A i \in Conns : Sub' = i /\ Cancelled(i)' => \E d \in Conns : At(d)' = "forget"
  BY DEF SubIsKnown, SameSub, SameCancelled, After, QuietNext
<1> QED BY <1>1, <1>2, <1>3, <1>4, <1>5, <1>6, <1>7 DEF SubIsKnown

\* h.mu is taken: at the beginning and before leaving.
LEMMA LockKeeps ==
  ASSUME MuIsHeld, SubIsKnown, NEW c \in Conns, NEW l, Unlocked("mu"),
         (At(c) = "start" /\ l = "find") \/ (At(c) = "lock" /\ l = "look"),
         After(c, l), lock'["mu"] = Held(Of("serve", c), 0), SameSub, SameJoined, SameCancelled
  PROVE  MuIsHeld' /\ SubIsKnown'
<1>1. \A d \in Conns : At(d) \notin InMu
  BY HubNames, TwoConns DEF MuIsHeld, Unlocked, Held, None
<1>2. MuIsHeld'
  BY <1>1 DEF MuIsHeld, After
<1>3. SubIsKnown'
  <2>1. Sub' \in {0, 1, 2}
    BY DEF SubIsKnown, SameSub
  <2>2. \A d \in Conns : /\ At(d)' \in Early => At(d) \in Early
                         /\ At(d)' \in Attached => At(d) \in Attached
                         /\ At(d)' \in First \cup Second \cup Leaving \cup {"create", "pump", "which"} => At(d)' = At(d)
    BY DEF After, Early, Attached, First, Second, Leaving
  <2>3. \A d \in Conns : At(d) \notin First \cup Second \cup Leaving \cup {"create", "pump", "which"}
    BY <1>1 DEF InMu, First, Second, Leaving
  <2>4. \A d \in Conns : At(d)' \notin First \cup Second \cup Leaving \cup {"create", "pump", "which"}
    BY <2>2, <2>3
  <2>5. \A d \in Conns : At(d)' \in Early => Sub' # d /\ ~Cancelled(d)'
    BY <2>2 DEF SubIsKnown, SameSub, SameCancelled
  <2>6. \A d \in Conns : At(d)' \in Attached => Sub' \in Conns /\ Joined(Sub, d)' = 1
    <3>1. PICK s : s = Sub /\ s = Sub'
      BY DEF SameSub
    <3>2. \A d \in Conns : At(d)' \in Attached => s \in Conns /\ Joined(s, d)' = 1
      BY <2>2, <3>1 DEF SameJoined, SubIsKnown
    <3> QED BY <3>1, <3>2 DEF Joined
  <2>7. \A i \in Conns : ~(Sub' = i /\ Cancelled(i)')
    BY <2>3 DEF SubIsKnown, SameSub, SameCancelled, Leaving
  <2> QED BY <2>1, <2>4, <2>5, <2>6, <2>7 DEF SubIsKnown
<1> QED BY <1>2, <1>3

\* h.mu is given back.
LEMMA UnlockKeeps ==
  ASSUME MuIsHeld, SubIsKnown, NEW c \in Conns, NEW l,
         (At(c) = "joined" /\ l = "frames") \/ (At(c) = "unlock" /\ l = "end"),
         After(c, l), SameSub, SameJoined, SameCancelled
  PROVE  MuIsHeld' /\ SubIsKnown'
<1>1. \A d \in Conns \ {c} : At(d) \notin InMu
  BY MuExcludes DEF InMu
<1>2. \A d \in Conns : At(d)' \notin InMu
  BY <1>1 DEF After, InMu
<1>3. MuIsHeld'
  BY <1>2 DEF MuIsHeld
<1>4. SubIsKnown'
  <2>1. Sub' \in {0, 1, 2}
    BY DEF SubIsKnown, SameSub
  <2>2. \A d \in Conns : /\ At(d)' \in Early => At(d) \in Early
                         /\ At(d)' \in Attached => At(d) \in Attached
    BY DEF After, Early, Attached
  <2>3. \A d \in Conns : At(d)' \notin First \cup Second \cup Leaving \cup {"create", "pump", "which"} \/ At(d)' = "added1"
    BY <1>2 DEF InMu, First, Second, Leaving
  <2>4. \A d \in Conns : At(d)' \notin First \cup Second \cup Leaving \cup {"create", "pump", "which"}
    BY <1>2 DEF InMu, First, Second, Leaving
  <2>5. \A d \in Conns : At(d)' \in Early => Sub' # d /\ ~Cancelled(d)'
    BY <2>2 DEF SubIsKnown, SameSub, SameCancelled
  <2>6. \A d \in Conns : At(d)' \in Attached => Sub' \in Conns /\ Joined(Sub, d)' = 1
    <3>1. PICK s : s = Sub /\ s = Sub'
      BY DEF SameSub
    <3>2. \A d \in Conns : At(d)' \in Attached => s \in Conns /\ Joined(s, d)' = 1
      BY <2>2, <3>1 DEF SameJoined, SubIsKnown
    <3> QED BY <3>1, <3>2 DEF Joined
  <2>7. \A i \in Conns : ~(Sub' = i /\ Cancelled(i)')
    BY <1>1 DEF SubIsKnown, SameSub, SameCancelled, InMu
  <2> QED BY <2>1, <2>4, <2>5, <2>6, <2>7 DEF SubIsKnown
<1> QED BY <1>3, <1>4

\* Held by one: while c is inside, the other is outside.
LEMMA HolderKeepsMu ==
  ASSUME MuIsHeld, NEW c \in Conns, NEW l, At(c) \in InMu, After(c, l), SameMu
  PROVE  MuIsHeld' /\ \A d \in Conns \ {c} : At(d)' = At(d) /\ At(d) \notin InMu
<1>1. \A d \in Conns \ {c} : At(d) \notin InMu
  BY MuExcludes
<1> QED BY <1>1 DEF MuIsHeld, After, SameMu

\* A subscription of the connection's own.
LEMMA CreateKeeps ==
  ASSUME MuIsHeld, SubIsKnown, NEW c \in Conns, At(c) = "create", After(c, "pump"), SameMu,
         Sub' = c, SameJoined, SameCancelled
  PROVE  MuIsHeld' /\ SubIsKnown'
<1>1. MuIsHeld' /\ \A d \in Conns \ {c} : At(d)' = At(d) /\ At(d) \notin InMu
  BY HolderKeepsMu DEF InMu
<1>2. Sub = 0 /\ ~Cancelled(c)
  BY DEF SubIsKnown, Early
<1>3. \A d \in Conns \ {c} : At(d) \notin Attached
  BY <1>2, TwoConns DEF SubIsKnown
<1>4. SubIsKnown'
  BY <1>1, <1>2, <1>3, TwoConns DEF SubIsKnown, SameCancelled, After, InMu, Early, First, Second, Attached, Leaving
<1> QED BY <1>1, <1>4

\* Its pump is started.
LEMMA PumpKeeps ==
  ASSUME MuIsHeld, SubIsKnown, NEW c \in Conns, NEW l, At(c) = "pump", After(c, l), SameMu,
         (l = "join1" /\ c = 1) \/ (l = "join2" /\ c = 2), SameSub, SameJoined, SameCancelled
  PROVE  MuIsHeld' /\ SubIsKnown'
<1>1. MuIsHeld' /\ \A d \in Conns \ {c} : At(d)' = At(d) /\ At(d) \notin InMu
  BY HolderKeepsMu DEF InMu
<1>2. Sub = c
  BY DEF SubIsKnown
<1>3. PICK s : s = Sub /\ s = Sub'
  BY DEF SameSub
<1>4. \A d \in Conns : At(d)' \in Attached => s \in Conns /\ Joined(s, d)' = 1
  BY <1>1, <1>3, TwoConns DEF SubIsKnown, SameJoined, After, Attached
<1>5. \A d \in Conns : At(d)' \in Attached => Sub' \in Conns /\ Joined(Sub, d)' = 1
  BY <1>3, <1>4 DEF Joined
<1>6. SubIsKnown'
  BY <1>1, <1>2, <1>3, <1>5, TwoConns DEF SubIsKnown, SameCancelled, After, InMu, Early, First, Second, Leaving
<1> QED BY <1>1, <1>6

\* It joins the subscription.
LEMMA JoinKeeps ==
  ASSUME MuIsHeld, SubIsKnown, NEW c \in Conns, NEW l, NEW i \in Conns,
         (At(c) = "add1" /\ l = "added1" /\ i = 1) \/ (At(c) = "add2" /\ l = "added2" /\ i = 2),
         After(c, l), SameMu, SameSub, SameCancelled,
         \A j, d \in Conns : Joined(j, d)' = IF j = i /\ d = c THEN 1 ELSE Joined(j, d)
  PROVE  MuIsHeld' /\ SubIsKnown'
<1>1. MuIsHeld' /\ \A d \in Conns \ {c} : At(d)' = At(d) /\ At(d) \notin InMu
  BY HolderKeepsMu DEF InMu
<1>2. Sub = i
  BY DEF SubIsKnown, First, Second
<1>3. PICK s : s = Sub /\ s = Sub'
  BY DEF SameSub
<1>4. \A d \in Conns : At(d)' \in Attached => s \in Conns /\ Joined(s, d)' = 1
  BY <1>1, <1>2, <1>3, TwoConns DEF SubIsKnown, After
<1>5. \A d \in Conns : At(d)' \in Attached => Sub' \in Conns /\ Joined(Sub, d)' = 1
  BY <1>3, <1>4 DEF Joined
<1>6. SubIsKnown'
  BY <1>1, <1>2, <1>3, <1>5, TwoConns DEF SubIsKnown, SameCancelled, After, InMu, Early, First, Second, Leaving
<1> QED BY <1>1, <1>6

\* It leaves the subscription.
LEMMA LeaveKeeps ==
  ASSUME MuIsHeld, SubIsKnown, NEW c \in Conns, NEW l, NEW i \in Conns,
         (At(c) = "delete1" /\ l = "empty1" /\ i = 1) \/ (At(c) = "delete2" /\ l = "empty2" /\ i = 2),
         After(c, l), SameMu, SameSub, SameCancelled,
         \A j, d \in Conns : Joined(j, d)' = IF j = i /\ d = c THEN 0 ELSE Joined(j, d)
  PROVE  MuIsHeld' /\ SubIsKnown'
<1>1. MuIsHeld' /\ \A d \in Conns \ {c} : At(d)' = At(d) /\ At(d) \notin InMu
  BY HolderKeepsMu DEF InMu
<1>2. Sub = i
  BY DEF SubIsKnown, First, Second
<1>3. PICK s : s = Sub /\ s = Sub'
  BY DEF SameSub
<1>4. \A d \in Conns : At(d)' \in Attached => s \in Conns /\ Joined(s, d)' = 1
  BY <1>1, <1>2, <1>3, TwoConns DEF SubIsKnown, After, Attached
<1>5. \A d \in Conns : At(d)' \in Attached => Sub' \in Conns /\ Joined(Sub, d)' = 1
  BY <1>3, <1>4 DEF Joined
<1>6. SubIsKnown'
  BY <1>1, <1>2, <1>3, <1>5, TwoConns DEF SubIsKnown, SameCancelled, After, InMu, Early, First, Second, Leaving
<1> QED BY <1>1, <1>6

\* The last one cancels the subscription.
LEMMA CancelKeeps ==
  ASSUME MuIsHeld, SubIsKnown, NEW c \in Conns, NEW i \in Conns,
         (At(c) = "cancel1" /\ i = 1) \/ (At(c) = "cancel2" /\ i = 2),
         After(c, "forget"), SameMu, SameSub, SameJoined,
         \A j \in Conns : Cancelled(j)' <=> j = i \/ Cancelled(j)
  PROVE  MuIsHeld' /\ SubIsKnown'
<1>1. MuIsHeld' /\ \A d \in Conns \ {c} : At(d)' = At(d) /\ At(d) \notin InMu
  BY HolderKeepsMu DEF InMu
<1>2. Sub = i /\ At(Other(c)) \notin Attached
  BY DEF SubIsKnown, First, Second, Leaving
<1>3. Other(c) \in Conns \ {c} /\ \A d \in Conns \ {c} : d = Other(c)
  BY TwoConns
<1>4. \A d \in Conns : At(d)' \notin Attached
  BY <1>1, <1>2, <1>3 DEF After, Attached
<1>5. \A d \in Conns : At(d)' \in Early => Sub' # d /\ ~Cancelled(d)'
  <2>1. \A d \in Conns : At(d)' \in Early => At(d) \in Early
    BY <1>1 DEF After, Early
  <2> QED BY <1>2, <2>1 DEF SubIsKnown, SameSub
<1>6. \A d \in Conns : At(d)' \notin First \cup Second \cup {"create", "pump", "which"}
  BY <1>1 DEF After, InMu, First, Second
<1>7. Sub' \in {0, 1, 2}
  BY DEF SubIsKnown, SameSub
<1>8. At(c)' = "forget"
  BY DEF After
<1>9. \A d \in Conns : Other(d) \in Conns
  BY TwoConns
<1>10. SubIsKnown'
  BY <1>4, <1>5, <1>6, <1>7, <1>8, <1>9 DEF SubIsKnown
<1> QED BY <1>1, <1>10

\* And forgets it.
LEMMA ForgetKeeps ==
  ASSUME MuIsHeld, SubIsKnown, NEW c \in Conns, At(c) = "forget", After(c, "unlock"), SameMu,
         Sub' = 0, SameJoined, SameCancelled
  PROVE  MuIsHeld' /\ SubIsKnown'
<1>1. MuIsHeld' /\ \A d \in Conns \ {c} : At(d)' = At(d) /\ At(d) \notin InMu
  BY HolderKeepsMu DEF InMu
<1>2. At(Other(c)) \notin Attached
  BY DEF SubIsKnown, Leaving
<1>3. Other(c) \in Conns \ {c} /\ \A d \in Conns \ {c} : d = Other(c)
  BY TwoConns
<1>4. \A d \in Conns : At(d)' \notin Attached
  BY <1>1, <1>2, <1>3 DEF After, Attached
<1>5. \A d \in Conns : At(d)' \in Early => Sub' # d /\ ~Cancelled(d)'
  <2>1. \A d \in Conns : At(d)' \in Early => At(d) \in Early
    BY <1>1 DEF After, Early
  <2>2. \A d \in Conns : d # 0
    BY TwoConns
  <2> QED BY <2>1, <2>2 DEF SubIsKnown, SameCancelled
<1>6. \A d \in Conns : At(d)' \notin First \cup Second \cup Leaving \cup {"create", "pump", "which"}
  BY <1>1 DEF After, InMu, First, Second, Leaving
<1>7. \A i \in Conns : i # 0
  BY TwoConns
<1>9. SubIsKnown'
  BY <1>4, <1>5, <1>6, <1>7 DEF SubIsKnown
<1> QED BY <1>1, <1>9

-----------------------------------------------------------------------------
(* The steps of a connection's goroutine.                                  *)

\* Nothing that the hub shares changes.
Steady == SameSub /\ SameJoined /\ SameCancelled /\ SameMu /\ DataShape'

LEMMA StaysSteady ==
  ASSUME DataShape, DataStays
  PROVE  Steady
BY SameHeap, SameClosed, SameLock DEF DataStays, Steady, DataShape

LEMMA OtherLockSteady ==
  ASSUME DataShape, NEW m \in {"a", "b"}, NEW x, lock' = [lock EXCEPT ![m] = x],
         heap' = heap, closed' = closed, buf' = buf
  PROVE  Steady
<1>1. SameMu /\ DOMAIN lock' = DOMAIN lock
  BY OtherLock
<1> QED BY <1>1, SameHeap, SameClosed DEF Steady, DataShape

LEMMA OtherClosedSteady ==
  ASSUME DataShape, NEW S, S \cap {"ctx1", "ctx2"} = {}, closed' = closed \cup S,
         heap' = heap, lock' = lock, buf' = buf
  PROVE  Steady
<1>1. SameCancelled
  BY OtherClosed
<1> QED BY <1>1, SameHeap, SameLock DEF Steady, DataShape

LEMMA OtherCellSteady ==
  ASSUME DataShape, NEW x, x \notin {"sub", "conn11", "conn12", "conn21", "conn22"},
         NEW v, heap' = [heap EXCEPT ![x] = v], closed' = closed, lock' = lock, buf' = buf
  PROVE  Steady
<1>1. SameSub /\ SameJoined /\ DOMAIN heap' = DOMAIN heap
  BY OtherCell
<1> QED BY <1>1, SameClosed, SameLock DEF Steady, DataShape

LEMMA OtherChannelSteady ==
  ASSUME DataShape, NEW x, x \notin {"ctx1", "ctx2"}, NEW v, buf' = [buf EXCEPT ![x] = v],
         heap' = heap, closed' = closed, lock' = lock
  PROVE  Steady
<1>1. buf'["ctx1"] = <<>> /\ buf'["ctx2"] = <<>>
  BY OtherChannel
<1> QED BY <1>1, SameHeap, SameClosed, SameLock DEF Steady, DataShape

LEMMA QuietKeeps ==
  ASSUME HubParts, NEW c \in Conns, NEW l, QuietNext(c, l), After(c, l), SamePumps, LabelsShape', Steady
  PROVE  HubParts'
BY QuietKeepsMu, QuietKeepsSub, QuietKeepsPumps DEF HubParts, Steady

\* The labels a connection's goroutine runs at.
LEMMA ServeInstr ==
  ASSUME prog = "hub", HubParts, NEW c \in Conns
  PROVE  /\ Instr(Of("serve", c)) = ServeWS(c)[At(c)]
         /\ Of("serve", c) \in DOMAIN pc
         /\ ServeCode(c, ServeWS(c))
         /\ At(c) \in ServeLabels
BY HubRuns, HubGoroutinesRun, HubNames, TwoConns, ServeCodeIs DEF Instr, At, HubParts, LabelsShape

\* One goroutine of the hub moves.
LEMMA ServeGoto ==
  ASSUME HubParts, NEW c \in Conns, NEW l \in ServeLabels, At(c) # "idle", Of("serve", c) \in DOMAIN pc,
         Goto(Of("serve", c), l)
  PROVE  LabelsShape' /\ After(c, l) /\ SamePumps
BY GotoMoves, ServeMoves DEF HubParts

LEMMA QuietGoto ==
  ASSUME HubParts, NEW c \in Conns, NEW l \in ServeLabels, At(c) # "idle", Of("serve", c) \in DOMAIN pc,
         Goto(Of("serve", c), l), QuietNext(c, l), Steady
  PROVE  HubParts'
BY ServeGoto, QuietKeeps

\* It starts a goroutine of its own.
LEMMA ServeGoes ==
  ASSUME prog = "hub", HubParts, NEW c \in Conns, NEW l \in ServeLabels, At(c) # "idle",
         NEW x \in {"write", "pump"},
         pc' = [h \in Goroutines |-> IF h = Of("serve", c) THEN l ELSE IF h \in {Of(x, c)} THEN "start" ELSE pc[h]]
  PROVE  /\ LabelsShape' /\ After(c, l)
         /\ x = "write" => SamePumps
         /\ \A i \in Conns : Pump(i)' \in {"start", Pump(i)}
<1>1. Goroutines = {"main", "serve1", "serve2", "write1", "write2", "pump1", "pump2"}
  BY HubRuns, HubGoroutinesRun DEF Goroutines
<1>2. pc["main"] # "start"
  BY DEF HubParts, LabelsShape
<1> QED BY <1>1, <1>2, HubNames, TwoConns
        DEF HubParts, LabelsShape, After, SamePumps, At, Pump, ServeLabels, WriteLabels, PumpLabels

\* A test, a choice or a wait: only the label changes.
LEMMA ServeTests ==
  ASSUME prog = "hub", HubParts, NEW c \in Conns, Perform(Of("serve", c), ServeWS(c)[At(c)]),
         At(c) \in {"find", "which", "frames", "read", "look", "mine", "empty1", "empty2"}
  PROVE  HubParts'
<1> DEFINE g == Of("serve", c)
<1>1. /\ g \in DOMAIN pc /\ ServeCode(c, ServeWS(c)) /\ At(c) # "idle" /\ DataShape
  BY ServeInstr DEF HubParts
<1>2. ASSUME NEW x, NEW S, NEW l \in ServeLabels, NEW m \in ServeLabels, ServeWS(c)[At(c)] = If(x, S, l, m),
             QuietNext(c, IF heap[x] \in S THEN l ELSE m)
      PROVE  HubParts'
  <2>1. PICK k : k = IF heap[x] \in S THEN l ELSE m
    OBVIOUS
  <2>2. Goto(g, k) /\ DataStays
    BY <1>2, <2>1, DoesIf
  <2> QED BY <1>1, <1>2, <2>1, <2>2, StaysSteady, QuietGoto
<1>3. CASE At(c) = "find"
  <2>1. ServeWS(c)[At(c)] = If("sub", {0}, "create", "which")
    BY <1>1, <1>3 DEF ServeCode
  <2>2. QuietNext(c, IF heap["sub"] \in {0} THEN "create" ELSE "which")
    BY <1>3 DEF QuietNext, Sub, Joined
  <2> QED BY <1>2, <2>1, <2>2 DEF ServeLabels, InMu
<1>4. CASE At(c) = "which"
  <2>1. ServeWS(c)[At(c)] = If("sub", {1}, "join1", "join2")
    BY <1>1, <1>4 DEF ServeCode
  <2>2. QuietNext(c, IF heap["sub"] \in {1} THEN "join1" ELSE "join2")
    BY <1>4 DEF QuietNext, Sub, Joined
  <2> QED BY <1>2, <2>1, <2>2 DEF ServeLabels, InMu
<1>5. CASE At(c) = "look"
  <2>1. ServeWS(c)[At(c)] = If("sub", {0}, "unlock", "mine")
    BY <1>1, <1>5 DEF ServeCode
  <2>2. QuietNext(c, IF heap["sub"] \in {0} THEN "unlock" ELSE "mine")
    BY <1>5 DEF QuietNext, Sub, Joined
  <2> QED BY <1>2, <2>1, <2>2 DEF ServeLabels, InMu
<1>6. CASE At(c) = "mine"
  <2>1. ServeWS(c)[At(c)] = If("sub", {1}, "gone1", "gone2")
    BY <1>1, <1>6 DEF ServeCode
  <2>2. QuietNext(c, IF heap["sub"] \in {1} THEN "gone1" ELSE "gone2")
    BY <1>6 DEF QuietNext, Sub, Joined
  <2> QED BY <1>2, <2>1, <2>2 DEF ServeLabels, InMu
<1>7. CASE At(c) = "empty1"
  <2>1. ServeWS(c)[At(c)] = If(In(1, Other(c)), {1}, "stay1", "last1")
    BY <1>1, <1>7 DEF ServeCode
  <2>2. QuietNext(c, IF heap[In(1, Other(c))] \in {1} THEN "stay1" ELSE "last1")
    BY <1>7 DEF QuietNext, Sub, Joined
  <2> QED BY <1>2, <2>1, <2>2 DEF ServeLabels, InMu
<1>8. CASE At(c) = "empty2"
  <2>1. ServeWS(c)[At(c)] = If(In(2, Other(c)), {1}, "stay2", "last2")
    BY <1>1, <1>8 DEF ServeCode
  <2>2. QuietNext(c, IF heap[In(2, Other(c))] \in {1} THEN "stay2" ELSE "last2")
    BY <1>8 DEF QuietNext, Sub, Joined
  <2> QED BY <1>2, <2>1, <2>2 DEF ServeLabels, InMu
<1>9. CASE At(c) = "frames"
  <2>1. ServeWS(c)[At(c)] = Either({"serve", "leave"})
    BY <1>1, <1>9 DEF ServeCode
  <2>2. PICK l \in {"serve", "leave"} : Goto(g, l) /\ DataStays
    BY <2>1, DoesEither
  <2>3. QuietNext(c, l) /\ l \in ServeLabels
    BY <1>9 DEF QuietNext, ServeLabels, Attached
  <2> QED BY <1>1, <2>2, <2>3, StaysSteady, QuietGoto
<1>10. CASE At(c) = "read"
  <2>1. ServeWS(c)[At(c)] = CommOr({Recv(Of("ws", c), "leave"), Timer("leave")}, None)
    BY <1>1, <1>10, WithoutDefault DEF ServeCode
  <2>2. PICK k \in {Recv(Of("ws", c), "leave"), Timer("leave")} : Take(g, k)
    <3>1. \A k \in {Recv(Of("ws", c), "leave"), Timer("leave")} : k.dir # "send"
      BY DEF Recv, RangeOver, Timer
    <3> QED BY <2>1, <3>1, DoesComm
  <2>3. Goto(g, "leave") /\ heap' = heap /\ closed' = closed /\ lock' = lock
        /\ (buf' = buf \/ buf' = [buf EXCEPT ![Of("ws", c)] = Tail(@)])
    BY <2>2, TakesRecv, TakesTimer
  <2>4. Of("ws", c) \notin {"ctx1", "ctx2"}
    BY HubNames, TwoConns
  <2>5. Steady
    <3>1. CASE buf' = buf
      BY <1>1, <2>3, <3>1, SameHeap, SameClosed, SameLock DEF Steady, DataShape
    <3>2. CASE buf' = [buf EXCEPT ![Of("ws", c)] = Tail(@)]
      BY <1>1, <2>3, <2>4, <3>2, OtherChannelSteady
    <3> QED BY <2>3, <3>1, <3>2
  <2>6. QuietNext(c, "leave") /\ "leave" \in ServeLabels
    BY <1>10 DEF QuietNext, ServeLabels, Attached
  <2> QED BY <1>1, <2>3, <2>5, <2>6, QuietGoto
<1> QED BY <1>3, <1>4, <1>5, <1>6, <1>7, <1>8, <1>9, <1>10

\* The lock of a subscription, or a channel of the connection's own.
LEMMA ServeOwn ==
  ASSUME prog = "hub", HubParts, NEW c \in Conns, Perform(Of("serve", c), ServeWS(c)[At(c)]),
         At(c) \in {"join1", "join2", "gone1", "gone2", "added1", "added2", "stay1", "stay2", "last1", "last2", "leave", "ws"}
  PROVE  HubParts'
<1> DEFINE g == Of("serve", c)
<1>1. /\ g \in DOMAIN pc /\ ServeCode(c, ServeWS(c)) /\ At(c) # "idle" /\ DataShape
  BY ServeInstr DEF HubParts
<1>2. ASSUME NEW m \in {"a", "b"}, NEW l \in ServeLabels, ServeWS(c)[At(c)] = Lock(m, l), QuietNext(c, l)
      PROVE  HubParts'
  <2>1. Goto(g, l) /\ lock' = [lock EXCEPT ![m] = Held(g, 0)] /\ heap' = heap /\ closed' = closed /\ buf' = buf
    BY <1>2, DoesLock
  <2> QED BY <1>1, <1>2, <2>1, OtherLockSteady, QuietGoto
<1>3. ASSUME NEW m \in {"a", "b"}, NEW l \in ServeLabels, ServeWS(c)[At(c)] = Unlock(m, l), QuietNext(c, l),
             QuietNext(c, "panic")
      PROVE  HubParts'
  <2>1. PICK k : k = IF Unlocked(m) THEN "panic" ELSE l
    OBVIOUS
  <2>2. Goto(g, k) /\ lock' = [lock EXCEPT ![m] = Released(m)] /\ heap' = heap /\ closed' = closed /\ buf' = buf
    BY <1>3, <2>1, DoesUnlock
  <2>3. QuietNext(c, k) /\ k \in ServeLabels
    BY <1>3, <2>1 DEF ServeLabels
  <2> QED BY <1>1, <2>2, <2>3, OtherLockSteady, QuietGoto
<1>4. CASE At(c) = "join1"
  <2>1. ServeWS(c)[At(c)] = Lock("a", "add1") /\ QuietNext(c, "add1")
    BY <1>1, <1>4 DEF ServeCode, QuietNext
  <2> QED BY <1>2, <2>1 DEF ServeLabels, InMu
<1>5. CASE At(c) = "join2"
  <2>1. ServeWS(c)[At(c)] = Lock("b", "add2") /\ QuietNext(c, "add2")
    BY <1>1, <1>5 DEF ServeCode, QuietNext
  <2> QED BY <1>2, <2>1 DEF ServeLabels, InMu
<1>6. CASE At(c) = "gone1"
  <2>1. ServeWS(c)[At(c)] = Lock("a", "delete1") /\ QuietNext(c, "delete1")
    BY <1>1, <1>6 DEF ServeCode, QuietNext
  <2> QED BY <1>2, <2>1 DEF ServeLabels, InMu
<1>7. CASE At(c) = "gone2"
  <2>1. ServeWS(c)[At(c)] = Lock("b", "delete2") /\ QuietNext(c, "delete2")
    BY <1>1, <1>7 DEF ServeCode, QuietNext
  <2> QED BY <1>2, <2>1 DEF ServeLabels, InMu
<1>8. CASE At(c) = "added1"
  <2>1. ServeWS(c)[At(c)] = Unlock("a", "joined") /\ QuietNext(c, "joined") /\ QuietNext(c, "panic")
    BY <1>1, <1>8 DEF ServeCode, QuietNext
  <2> QED BY <1>3, <2>1 DEF ServeLabels, InMu
<1>9. CASE At(c) = "added2"
  <2>1. ServeWS(c)[At(c)] = Unlock("b", "joined") /\ QuietNext(c, "joined") /\ QuietNext(c, "panic")
    BY <1>1, <1>9 DEF ServeCode, QuietNext
  <2> QED BY <1>3, <2>1 DEF ServeLabels, InMu
<1>10. CASE At(c) = "stay1"
  <2>1. ServeWS(c)[At(c)] = Unlock("a", "unlock") /\ QuietNext(c, "unlock") /\ QuietNext(c, "panic")
    BY <1>1, <1>10 DEF ServeCode, QuietNext
  <2> QED BY <1>3, <2>1 DEF ServeLabels, InMu
<1>11. CASE At(c) = "stay2"
  <2>1. ServeWS(c)[At(c)] = Unlock("b", "unlock") /\ QuietNext(c, "unlock") /\ QuietNext(c, "panic")
    BY <1>1, <1>11 DEF ServeCode, QuietNext
  <2> QED BY <1>3, <2>1 DEF ServeLabels, InMu
<1>12. CASE At(c) = "last1"
  <2>1. ServeWS(c)[At(c)] = Unlock("a", "cancel1") /\ QuietNext(c, "cancel1") /\ QuietNext(c, "panic")
    BY <1>1, <1>12 DEF ServeCode, QuietNext
  <2> QED BY <1>3, <2>1 DEF ServeLabels, InMu
<1>13. CASE At(c) = "last2"
  <2>1. ServeWS(c)[At(c)] = Unlock("b", "cancel2") /\ QuietNext(c, "cancel2") /\ QuietNext(c, "panic")
    BY <1>1, <1>13 DEF ServeCode, QuietNext
  <2> QED BY <1>3, <2>1 DEF ServeLabels, InMu
<1>14. CASE At(c) = "leave"
  <2>1. ServeWS(c)[At(c)] = Close(Of("closed", c), "ws")
    BY <1>1, <1>14 DEF ServeCode
  <2>2. PICK k : k = IF Of("closed", c) \in closed THEN "panic" ELSE "ws"
    OBVIOUS
  <2>3. Goto(g, k) /\ closed' = closed \cup {Of("closed", c)} /\ heap' = heap /\ lock' = lock /\ buf' = buf
    BY <2>1, <2>2, DoesClose
  <2>4. {Of("closed", c)} \cap {"ctx1", "ctx2"} = {}
    BY HubNames, TwoConns
  <2>5. QuietNext(c, k) /\ k \in ServeLabels
    BY <1>14, <2>2 DEF QuietNext, ServeLabels, Attached
  <2> QED BY <1>1, <2>3, <2>4, <2>5, OtherClosedSteady, QuietGoto
<1>15. CASE At(c) = "ws"
  <2>1. ServeWS(c)[At(c)] = Cancel({Of("ws", c)}, "lock")
    BY <1>1, <1>15 DEF ServeCode
  <2>2. Goto(g, "lock") /\ closed' = closed \cup {Of("ws", c)} /\ heap' = heap /\ lock' = lock /\ buf' = buf
    BY <2>1, DoesCancel
  <2>3. {Of("ws", c)} \cap {"ctx1", "ctx2"} = {}
    BY HubNames, TwoConns
  <2>4. QuietNext(c, "lock") /\ "lock" \in ServeLabels
    BY <1>15 DEF QuietNext, ServeLabels, Attached
  <2> QED BY <1>1, <2>2, <2>3, <2>4, OtherClosedSteady, QuietGoto
<1> QED BY <1>4, <1>5, <1>6, <1>7, <1>8, <1>9, <1>10, <1>11, <1>12, <1>13, <1>14, <1>15

\* It starts its pump, or the goroutine that writes.
LEMMA ServeStarts ==
  ASSUME prog = "hub", HubParts, NEW c \in Conns, Perform(Of("serve", c), ServeWS(c)[At(c)]),
         At(c) \in {"pump", "serve"}
  PROVE  HubParts'
<1> DEFINE g == Of("serve", c)
<1>1. /\ g \in DOMAIN pc /\ ServeCode(c, ServeWS(c)) /\ At(c) # "idle" /\ DataShape
  BY ServeInstr DEF HubParts
<1>2. CASE At(c) = "serve"
  <2>1. ServeWS(c)[At(c)] = Go({Of("write", c)}, "read")
    BY <1>1, <1>2 DEF ServeCode
  <2>2. pc' = [h \in Goroutines |-> IF h = g THEN "read" ELSE IF h \in {Of("write", c)} THEN "start" ELSE pc[h]]
        /\ DataStays
    BY <2>1, DoesGo
  <2>3. QuietNext(c, "read") /\ "read" \in ServeLabels
    BY <1>2 DEF QuietNext, ServeLabels, Attached
  <2>4. LabelsShape' /\ After(c, "read") /\ SamePumps
    BY <1>1, <2>2, <2>3, ServeGoes
  <2> QED BY <1>1, <2>2, <2>3, <2>4, StaysSteady, QuietKeeps
<1>3. CASE At(c) = "pump"
  <2>1. PICK l : l = Of("join", c)
    OBVIOUS
  <2>2. ((l = "join1" /\ c = 1) \/ (l = "join2" /\ c = 2)) /\ l \in ServeLabels
    BY <2>1, HubNames, TwoConns DEF ServeLabels, InMu
  <2>3. ServeWS(c)[At(c)] = Go({Of("pump", c)}, l)
    BY <1>1, <1>3, <2>1 DEF ServeCode
  <2>4. pc' = [h \in Goroutines |-> IF h = g THEN l ELSE IF h \in {Of("pump", c)} THEN "start" ELSE pc[h]]
        /\ DataStays
    BY <2>3, DoesGo
  <2>5. LabelsShape' /\ After(c, l) /\ \A i \in Conns : Pump(i)' \in {"start", Pump(i)}
    BY <1>1, <2>2, <2>4, ServeGoes
  <2>6. Steady
    BY <1>1, <2>4, StaysSteady
  <2>7. MuIsHeld' /\ SubIsKnown'
    BY <1>3, <2>2, <2>5, <2>6, PumpKeeps DEF HubParts, Steady
  <2>8. PumpsRun'
    BY <2>5, <2>6 DEF HubParts, PumpsRun, Steady, SameCancelled
  <2> QED BY <2>5, <2>6, <2>7, <2>8 DEF HubParts, Steady
<1> QED BY <1>2, <1>3

\* h.mu.
LEMMA ServeLocks ==
  ASSUME prog = "hub", HubParts, NEW c \in Conns, Perform(Of("serve", c), ServeWS(c)[At(c)]),
         At(c) \in {"start", "lock", "joined", "unlock"}
  PROVE  HubParts'
<1> DEFINE g == Of("serve", c)
<1>1. /\ g \in DOMAIN pc /\ ServeCode(c, ServeWS(c)) /\ At(c) # "idle" /\ DataShape
  BY ServeInstr DEF HubParts
<1>2. CASE At(c) \in {"start", "lock"}
  <2>1. PICK l \in ServeLabels : ((At(c) = "start" /\ l = "find") \/ (At(c) = "lock" /\ l = "look"))
                                 /\ ServeWS(c)[At(c)] = Lock("mu", l)
    BY <1>1, <1>2 DEF ServeCode, ServeLabels, InMu
  <2>2. Unlocked("mu") /\ Goto(g, l) /\ lock' = [lock EXCEPT !["mu"] = Held(g, 0)]
        /\ heap' = heap /\ closed' = closed /\ buf' = buf
    BY <2>1, DoesLock
  <2>3. lock'["mu"] = Held(g, 0) /\ DataShape'
    BY <1>1, <2>2, MuLock DEF DataShape
  <2>4. SameSub /\ SameJoined /\ SameCancelled
    BY <2>2, SameHeap, SameClosed
  <2>5. LabelsShape' /\ After(c, l) /\ SamePumps
    BY <1>1, <2>2, ServeGoto
  <2> QED BY <2>1, <2>2, <2>3, <2>4, <2>5, LockKeeps, QuietKeepsPumps DEF HubParts
<1>3. CASE At(c) \in {"joined", "unlock"}
  <2>1. PICK l \in ServeLabels : ((At(c) = "joined" /\ l = "frames") \/ (At(c) = "unlock" /\ l = "end"))
                                 /\ ServeWS(c)[At(c)] = Unlock("mu", l)
    BY <1>1, <1>3 DEF ServeCode, ServeLabels, Attached
  <2>2. lock["mu"] = Held(g, 0)
    BY <1>3 DEF HubParts, MuIsHeld, InMu
  <2>3. ~Unlocked("mu")
    BY <2>2, HubNames, TwoConns DEF Unlocked, Held, None
  <2>4. Goto(g, l) /\ lock' = [lock EXCEPT !["mu"] = Released("mu")] /\ heap' = heap /\ closed' = closed /\ buf' = buf
    BY <2>1, <2>3, DoesUnlock
  <2>5. DataShape'
    BY <1>1, <2>4, MuLock DEF DataShape
  <2>6. SameSub /\ SameJoined /\ SameCancelled
    BY <2>4, SameHeap, SameClosed
  <2>7. LabelsShape' /\ After(c, l) /\ SamePumps
    BY <1>1, <2>4, ServeGoto
  <2> QED BY <2>1, <2>5, <2>6, <2>7, UnlockKeeps, QuietKeepsPumps DEF HubParts
<1> QED BY <1>2, <1>3

\* The subscription and who is in it.
LEMMA ServeWrites ==
  ASSUME prog = "hub", HubParts, NEW c \in Conns, Perform(Of("serve", c), ServeWS(c)[At(c)]),
         At(c) \in {"create", "add1", "add2", "delete1", "delete2", "cancel1", "cancel2", "forget"}
  PROVE  HubParts'
<1> DEFINE g == Of("serve", c)
<1>1. /\ g \in DOMAIN pc /\ ServeCode(c, ServeWS(c)) /\ At(c) # "idle" /\ DataShape
  BY ServeInstr DEF HubParts
<1>2. ASSUME NEW x, NEW v, NEW l \in ServeLabels, ServeWS(c)[At(c)] = Set(x, v, l)
      PROVE  /\ Goto(g, l) /\ heap' = [heap EXCEPT ![x] = v]
             /\ LabelsShape' /\ After(c, l) /\ SamePumps
             /\ SameCancelled /\ SameMu /\ PumpsRun' /\ UNCHANGED <<buf, lock>>
  <2>1. Goto(g, l) /\ heap' = [heap EXCEPT ![x] = v] /\ closed' = closed /\ lock' = lock /\ buf' = buf
    BY <1>2, DoesSet
  <2>2. LabelsShape' /\ After(c, l) /\ SamePumps
    BY <1>1, <2>1, ServeGoto
  <2>3. SameCancelled /\ SameMu
    BY <2>1, SameClosed, SameLock
  <2> QED BY <2>1, <2>2, <2>3, QuietKeepsPumps DEF HubParts
<1>3. CASE At(c) \in {"create", "forget"}
  <2>1. PICK v \in {c, 0}, l \in ServeLabels : ((At(c) = "create" /\ l = "pump" /\ v = c) \/ (At(c) = "forget" /\ l = "unlock" /\ v = 0))
                                 /\ ServeWS(c)[At(c)] = Set("sub", v, l)
    BY <1>1, <1>3 DEF ServeCode, ServeLabels, InMu
  <2>2. /\ heap' = [heap EXCEPT !["sub"] = v] /\ LabelsShape' /\ After(c, l)
        /\ SameCancelled /\ SameMu /\ PumpsRun' /\ UNCHANGED <<buf, lock>>
    BY <1>2, <2>1
  <2>3. Sub' = v /\ SameJoined /\ DataShape'
    BY <1>1, <2>2, SubCell DEF DataShape
  <2> QED BY <2>1, <2>2, <2>3, CreateKeeps, ForgetKeeps DEF HubParts
<1>4. CASE At(c) \in {"add1", "add2", "delete1", "delete2"}
  <2> DEFINE Writes(i, v, l) ==
          /\ \/ v = 1 /\ ((At(c) = "add1" /\ l = "added1" /\ i = 1) \/ (At(c) = "add2" /\ l = "added2" /\ i = 2))
             \/ v = 0 /\ ((At(c) = "delete1" /\ l = "empty1" /\ i = 1) \/ (At(c) = "delete2" /\ l = "empty2" /\ i = 2))
          /\ ServeWS(c)[At(c)] = Set(In(i, c), v, l)
  <2>1. PICK i \in Conns, v \in {0, 1}, l \in ServeLabels : Writes(i, v, l)
    BY <1>1, <1>4, TwoConns DEF ServeCode, ServeLabels, InMu
  <2>4. /\ heap' = [heap EXCEPT ![In(i, c)] = v] /\ LabelsShape' /\ After(c, l)
        /\ SameCancelled /\ SameMu /\ PumpsRun' /\ UNCHANGED <<buf, lock>>
    BY <1>2, <2>1
  <2>5. /\ SameSub /\ DOMAIN heap' = DOMAIN heap
        /\ \A j, d \in Conns : Joined(j, d)' = IF j = i /\ d = c THEN v ELSE Joined(j, d)
    BY <1>1, <2>4, TwoConns, HubCells DEF DataShape, SameSub, Sub, Joined
  <2>6. DataShape'
    BY <1>1, <2>4, <2>5 DEF DataShape
  <2> QED BY <2>1, <2>4, <2>5, <2>6, JoinKeeps, LeaveKeeps DEF HubParts
<1>5. CASE At(c) \in {"cancel1", "cancel2"}
  <2>1. PICK i \in Conns : ((At(c) = "cancel1" /\ i = 1) \/ (At(c) = "cancel2" /\ i = 2))
                          /\ ServeWS(c)[At(c)] = Cancel({Of("ctx", i)}, "forget")
    BY <1>1, <1>5, TwoConns, HubNames DEF ServeCode
  <2>2. Goto(g, "forget") /\ closed' = closed \cup {Of("ctx", i)} /\ heap' = heap /\ lock' = lock /\ buf' = buf
    BY <2>1, DoesCancel
  <2>3. "forget" \in ServeLabels
    BY DEF ServeLabels, InMu
  <2>4. LabelsShape' /\ After(c, "forget") /\ SamePumps
    BY <1>1, <2>2, <2>3, ServeGoto
  <2>5. SameSub /\ SameJoined /\ SameMu /\ DataShape'
    BY <1>1, <2>2, SameHeap, SameLock DEF DataShape
  <2>6. \A j \in Conns : Cancelled(j)' <=> j = i \/ Cancelled(j)
    BY <2>2, CtxClosed
  <2>7. PumpsRun'
    BY <2>4, <2>6 DEF HubParts, PumpsRun, SamePumps
  <2> QED BY <2>1, <2>4, <2>5, <2>6, <2>7, CancelKeeps DEF HubParts
<1> QED BY <1>3, <1>4, <1>5

\* serveWS, subscribe and unsubscribe.
LEMMA ServeKeeps ==
  ASSUME prog = "hub", HubParts, NEW c \in Conns, Step(Of("serve", c))
  PROVE  HubParts'
<1>1. /\ Perform(Of("serve", c), ServeWS(c)[At(c)])
      /\ At(c) \in ServeLabels \ {"idle", "end", "panic"}
  BY StepPerforms, ServeInstr DEF Running, At
<1>2. At(c) \in {"find", "which", "frames", "read", "look", "mine", "empty1", "empty2"}
           \cup {"join1", "join2", "gone1", "gone2", "added1", "added2", "stay1", "stay2", "last1", "last2", "leave", "ws"}
           \cup {"pump", "serve"} \cup {"start", "lock", "joined", "unlock"}
           \cup {"create", "add1", "add2", "delete1", "delete2", "cancel1", "cancel2", "forget"}
  BY <1>1 DEF ServeLabels, InMu, Early, Attached
<1> QED BY <1>1, <1>2, ServeTests, ServeOwn, ServeStarts, ServeLocks, ServeWrites

-----------------------------------------------------------------------------
(* The steps of the pumps, of the writers and of main.                     *)

\* What the goroutines of connections and pumps rely on, when another moves.
LEMMA OthersKeep ==
  ASSUME HubParts, LabelsShape', Steady, \A c \in Conns : At(c)' = At(c),
         \A i \in Conns : Pump(i)' = "end" => Pump(i) = "end" \/ Cancelled(i)
  PROVE  HubParts'
<1>1. MuIsHeld'
  BY DEF HubParts, MuIsHeld, Steady, SameMu
<1>2. PumpsRun'
  BY DEF HubParts, PumpsRun, Steady, SameCancelled
<1>3. SubIsKnown'
  <2>1. PICK s : s = Sub /\ s = Sub'
    BY DEF Steady, SameSub
  <2>2. \A d \in Conns : At(d)' \in Attached => s \in Conns /\ Joined(s, d)' = 1
    BY <2>1 DEF HubParts, SubIsKnown, Steady, SameJoined
  <2>3. \A d \in Conns : At(d)' \in Attached => Sub' \in Conns /\ Joined(Sub, d)' = 1
    BY <2>1, <2>2 DEF Joined
  <2>4. \A d \in Conns : Other(d) \in Conns
    BY TwoConns
  <2>5. SameCancelled
    BY DEF Steady
  <2> QED BY <2>1, <2>3, <2>4, <2>5 DEF HubParts, SubIsKnown, SameCancelled
<1> QED BY <1>1, <1>2, <1>3 DEF HubParts, Steady

LEMMA PumpMoves ==
  ASSUME LabelsShape, NEW i \in Conns, NEW l \in PumpLabels, OnlyMoves(Of("pump", i), l)
  PROVE  /\ LabelsShape' /\ \A c \in Conns : At(c)' = At(c)
         /\ Pump(i)' = l /\ \A j \in Conns \ {i} : Pump(j)' = Pump(j)
BY TwoConns, HubNames DEF LabelsShape, OnlyMoves, At, Pump

LEMMA WriteMoves ==
  ASSUME LabelsShape, NEW c \in Conns, NEW l \in WriteLabels, OnlyMoves(Of("write", c), l)
  PROVE  /\ LabelsShape' /\ \A d \in Conns : At(d)' = At(d) /\ Pump(d)' = Pump(d)
BY TwoConns, HubNames DEF LabelsShape, OnlyMoves, At, Pump

\* A pump ends when its subscription has been cancelled.
LEMMA PumpGoto ==
  ASSUME HubParts, NEW i \in Conns, NEW l \in PumpLabels, Goto(Of("pump", i), l), Steady,
         l = "end" => Cancelled(i)
  PROVE  HubParts'
<1>1. Of("pump", i) \in DOMAIN pc
  BY TwoConns, HubNames DEF HubParts, LabelsShape
<1>2. OnlyMoves(Of("pump", i), l)
  BY <1>1, GotoMoves
<1>3. /\ LabelsShape' /\ \A c \in Conns : At(c)' = At(c)
      /\ Pump(i)' = l /\ \A j \in Conns \ {i} : Pump(j)' = Pump(j)
  BY <1>2, PumpMoves DEF HubParts
<1> QED BY <1>3, OthersKeep

LEMMA WriteGoto ==
  ASSUME HubParts, NEW c \in Conns, NEW l \in WriteLabels, Goto(Of("write", c), l), Steady
  PROVE  HubParts'
<1>1. Of("write", c) \in DOMAIN pc
  BY TwoConns, HubNames DEF HubParts, LabelsShape
<1>2. OnlyMoves(Of("write", c), l)
  BY <1>1, GotoMoves
<1>3. LabelsShape' /\ \A d \in Conns : At(d)' = At(d) /\ Pump(d)' = Pump(d)
  BY <1>2, WriteMoves DEF HubParts
<1> QED BY <1>3, OthersKeep

\* The labels of a pump and of a writer.
PumpCode(i, f) ==
  /\ f["start"] = Comm({Recv(Of("ctx", i), "end"), Timer("message")})
  /\ f["message"] = For(Of("messages", i), Messages, "lock", "quiet")
  /\ f["quiet"] = Comm({Recv(Of("ctx", i), "end")})
  /\ f["lock"] = Lock(Guard(i), "first")
  /\ f["first"] = If(In(i, 1), {1}, "send1", "second")
  /\ f["send1"] = CommOr({Send("send1", "second")}, "second")
  /\ f["second"] = If(In(i, 2), {1}, "send2", "unlock")
  /\ f["send2"] = CommOr({Send("send2", "unlock")}, "unlock")
  /\ f["unlock"] = Unlock(Guard(i), "start")

LEMMA PumpInstr ==
  ASSUME prog = "hub", HubParts, NEW i \in Conns
  PROVE  /\ Instr(Of("pump", i)) = pumpRedis(i)[Pump(i)]
         /\ PumpCode(i, pumpRedis(i))
         /\ Pump(i) \in PumpLabels
         /\ Cap("send1") = 1 /\ Cap("send2") = 1
<1>1. Instr(Of("pump", i)) = pumpRedis(i)[Pump(i)]
  BY HubRuns, HubGoroutinesRun, HubNames, TwoConns DEF Instr, Pump
<1>2. PumpCode(i, pumpRedis(i))
  BY DEF PumpCode, pumpRedis
<1>3. Cap("send1") = 1 /\ Cap("send2") = 1
  BY HubRuns, HubChannels DEF Cap
<1> QED BY <1>1, <1>2, <1>3 DEF HubParts, LabelsShape

WriteCode(c, f) ==
  /\ f["start"] = Comm({Recv(Of("closed", c), "end"), Timer("write"), Recv(Of("send", c), "write")})
  /\ f["write"] = Either({"start", "drop"})
  /\ f["drop"] = Cancel({Of("ws", c)}, "end")

LEMMA WriteInstr ==
  ASSUME prog = "hub", HubParts, NEW c \in Conns
  PROVE  /\ Instr(Of("write", c)) = writeLoop(c)[pc[Of("write", c)]]
         /\ WriteCode(c, writeLoop(c))
         /\ pc[Of("write", c)] \in WriteLabels
<1>1. Instr(Of("write", c)) = writeLoop(c)[pc[Of("write", c)]]
  BY HubRuns, HubGoroutinesRun, HubNames, TwoConns DEF Instr
<1>2. WriteCode(c, writeLoop(c))
  BY DEF WriteCode, writeLoop
<1> QED BY <1>1, <1>2 DEF HubParts, LabelsShape

\* Receiving leaves the hub as it is.
LEMMA RecvSteady ==
  ASSUME DataShape, NEW g, NEW x, NEW l, Take(g, Recv(x, l))
  PROVE  /\ Goto(g, l) /\ Steady
         /\ x \in {"ctx1", "ctx2"} => x \in closed
<1>1. /\ Goto(g, l)
      /\ \/ buf[x] # <<>> /\ buf' = [buf EXCEPT ![x] = Tail(@)]
         \/ x \in closed /\ buf' = buf
      /\ UNCHANGED <<prog, closed, lock, wg, asleep, heap, got>>
  BY TakesRecv
<1>2. CASE buf' = buf
  BY <1>1, <1>2, SameHeap, SameClosed, SameLock DEF Steady, DataShape
<1>3. CASE buf[x] # <<>> /\ buf' = [buf EXCEPT ![x] = Tail(@)]
  <2>1. x \notin {"ctx1", "ctx2"}
    BY <1>3 DEF DataShape
  <2> QED BY <1>1, <1>3, <2>1, OtherChannelSteady
<1>4. x \in {"ctx1", "ctx2"} => x \in closed
  BY <1>1 DEF DataShape
<1> QED BY <1>1, <1>2, <1>3, <1>4

LEMMA TimerSteady ==
  ASSUME DataShape, NEW g, NEW l, Take(g, Timer(l))
  PROVE  Goto(g, l) /\ Steady
BY TakesTimer, SameHeap, SameClosed, SameLock DEF Steady, DataShape

LEMMA SendSteady ==
  ASSUME DataShape, NEW g, NEW x, x \notin {"ctx1", "ctx2"}, NEW l, Take(g, Send(x, l))
  PROVE  (Goto(g, l) \/ Goto(g, "panic")) /\ Steady
<1>1. /\ Goto(g, l) \/ Goto(g, "panic")
      /\ \/ buf' = [buf EXCEPT ![x] = Append(@, val[g])]
         \/ buf' = buf
      /\ UNCHANGED <<prog, val, closed, lock, wg, asleep, heap, got>>
  BY TakesSend
<1>2. CASE buf' = buf
  BY <1>1, <1>2, SameHeap, SameClosed, SameLock DEF Steady, DataShape
<1>3. CASE buf' = [buf EXCEPT ![x] = Append(@, val[g])]
  BY <1>1, <1>3, OtherChannelSteady
<1> QED BY <1>1, <1>2, <1>3

\* pumpRedis.
LEMMA PumpStepKeeps ==
  ASSUME prog = "hub", HubParts, NEW i \in Conns, Step(Of("pump", i))
  PROVE  HubParts'
<1> DEFINE g == Of("pump", i)
<1>1. /\ Perform(g, pumpRedis(i)[Pump(i)]) /\ PumpCode(i, pumpRedis(i)) /\ DataShape
      /\ Pump(i) \in PumpLabels \ {"idle", "end", "panic"}
  BY StepPerforms, PumpInstr DEF Running, Pump, HubParts
<1>2. Of("ctx", i) \in {"ctx1", "ctx2"} /\ Guard(i) \in {"a", "b"}
      /\ Of("messages", i) \notin {"sub", "conn11", "conn12", "conn21", "conn22"}
  BY HubNames, TwoConns
<1>3. CASE Pump(i) \in {"start", "quiet"}
  <2>1. PICK S : /\ S \subseteq {Recv(Of("ctx", i), "end"), Timer("message")}
                 /\ pumpRedis(i)[Pump(i)] = CommOr(S, None)
    BY <1>1, <1>3, WithoutDefault DEF PumpCode
  <2>2. PICK k \in {Recv(Of("ctx", i), "end"), Timer("message")} : Take(g, k)
    <3>1. \A k \in {Recv(Of("ctx", i), "end"), Timer("message")} : k.dir # "send"
      BY DEF Recv, RangeOver, Timer
    <3> QED BY <1>1, <2>1, <3>1, DoesComm
  <2>3. CASE k = Recv(Of("ctx", i), "end")
    <3>1. Goto(g, "end") /\ Steady /\ Cancelled(i)
      BY <1>1, <1>2, <2>2, <2>3, RecvSteady DEF Cancelled
    <3> QED BY <3>1, PumpGoto DEF PumpLabels
  <2>4. CASE k = Timer("message")
    <3>1. Goto(g, "message") /\ Steady
      BY <1>1, <2>2, <2>4, TimerSteady
    <3> QED BY <3>1, PumpGoto DEF PumpLabels
  <2> QED BY <2>2, <2>3, <2>4
<1>4. CASE Pump(i) = "message"
  <2>1. pumpRedis(i)[Pump(i)] = For(Of("messages", i), Messages, "lock", "quiet")
    BY <1>1, <1>4 DEF PumpCode
  <2>2. PICK l \in {"lock", "quiet"} :
          /\ Goto(g, l) /\ (heap' = heap \/ heap' = [heap EXCEPT ![Of("messages", i)] = @ + 1])
          /\ UNCHANGED <<buf, closed, lock>>
    BY <1>1, <2>1, DoesFor
  <2>3. Steady
    <3>1. CASE heap' = heap
      BY <1>1, <2>2, <3>1, SameHeap, SameClosed, SameLock DEF Steady, DataShape
    <3>2. CASE heap' = [heap EXCEPT ![Of("messages", i)] = @ + 1]
      BY <1>1, <1>2, <2>2, <3>2, OtherCellSteady
    <3> QED BY <2>2, <3>1, <3>2
  <2> QED BY <2>2, <2>3, PumpGoto DEF PumpLabels
<1>5. CASE Pump(i) \in {"first", "second"}
  <2>1. PICK x \in {In(i, 1), In(i, 2)}, l \in PumpLabels \ {"end"}, m \in PumpLabels \ {"end"} : pumpRedis(i)[Pump(i)] = If(x, {1}, l, m)
    BY <1>1, <1>5 DEF PumpCode, PumpLabels
  <2>2. PICK k : k = IF heap[x] \in {1} THEN l ELSE m
    OBVIOUS
  <2>3. Goto(g, k) /\ DataStays
    BY <1>1, <2>1, <2>2, DoesIf
  <2> QED BY <1>1, <2>2, <2>3, StaysSteady, PumpGoto
<1>6. CASE Pump(i) = "lock"
  <2>1. pumpRedis(i)[Pump(i)] = Lock(Guard(i), "first")
    BY <1>1, <1>6 DEF PumpCode
  <2>2. Goto(g, "first") /\ lock' = [lock EXCEPT ![Guard(i)] = Held(g, 0)] /\ UNCHANGED <<buf, closed, heap>>
    BY <1>1, <2>1, DoesLock
  <2> QED BY <1>1, <1>2, <2>2, OtherLockSteady, PumpGoto DEF PumpLabels
<1>7. CASE Pump(i) = "unlock"
  <2>1. pumpRedis(i)[Pump(i)] = Unlock(Guard(i), "start")
    BY <1>1, <1>7 DEF PumpCode
  <2>2. PICK k : k = IF Unlocked(Guard(i)) THEN "panic" ELSE "start"
    OBVIOUS
  <2>3. Goto(g, k) /\ lock' = [lock EXCEPT ![Guard(i)] = Released(Guard(i))] /\ UNCHANGED <<buf, closed, heap>>
    BY <1>1, <2>1, <2>2, DoesUnlock
  <2> QED BY <1>1, <1>2, <2>2, <2>3, OtherLockSteady, PumpGoto DEF PumpLabels
<1>8. CASE Pump(i) \in {"send1", "send2"}
  <2>1. PICK x \in {"send1", "send2"}, l \in {"second", "unlock"} : pumpRedis(i)[Pump(i)] = CommOr({Send(x, l)}, l)
    BY <1>1, <1>8 DEF PumpCode
  <2>2. Cap(Send(x, l).ch) # 0 /\ Send(x, l).ch = x
    BY PumpInstr DEF Send
  <2>3. Take(g, Send(x, l)) \/ (Goto(g, l) /\ DataStays)
    BY <1>1, <2>1, <2>2, DoesComm
  <2>4. (Goto(g, l) \/ Goto(g, "panic")) /\ Steady
    BY <1>1, <2>3, SendSteady, StaysSteady
  <2> QED BY <2>4, PumpGoto DEF PumpLabels
<1> QED BY <1>1, <1>3, <1>4, <1>5, <1>6, <1>7, <1>8 DEF PumpLabels

\* writeLoop.
LEMMA WriteStepKeeps ==
  ASSUME prog = "hub", HubParts, NEW c \in Conns, Step(Of("write", c))
  PROVE  HubParts'
<1> DEFINE g == Of("write", c)
           At0 == pc[g]
<1>1. /\ Perform(g, writeLoop(c)[At0]) /\ WriteCode(c, writeLoop(c)) /\ DataShape
      /\ At0 \in WriteLabels \ {"idle", "end", "panic"}
  BY StepPerforms, WriteInstr DEF Running, HubParts
<1>2. {Of("ws", c)} \cap {"ctx1", "ctx2"} = {}
  BY HubNames, TwoConns
<1>3. CASE At0 = "start"
  <2> DEFINE S == {Recv(Of("closed", c), "end"), Timer("write"), Recv(Of("send", c), "write")}
  <2>1. writeLoop(c)[At0] = CommOr(S, None)
    BY <1>1, <1>3, WithoutDefault DEF WriteCode
  <2>2. PICK k \in S : Take(g, k)
    <3>1. \A k \in S : k.dir # "send"
      BY DEF Recv, RangeOver, Timer
    <3> HIDE DEF S
    <3> QED BY <1>1, <2>1, <3>1, DoesComm
  <2>3. PICK l \in {"end", "write"} : Goto(g, l) /\ Steady
    BY <1>1, <2>2, RecvSteady, TimerSteady
  <2> QED BY <2>3, WriteGoto DEF WriteLabels
<1>4. CASE At0 = "write"
  <2>1. writeLoop(c)[At0] = Either({"start", "drop"})
    BY <1>1, <1>4 DEF WriteCode
  <2>2. PICK l \in {"start", "drop"} : Goto(g, l) /\ DataStays
    BY <1>1, <2>1, DoesEither
  <2> QED BY <1>1, <2>2, StaysSteady, WriteGoto DEF WriteLabels
<1>5. CASE At0 = "drop"
  <2>1. writeLoop(c)[At0] = Cancel({Of("ws", c)}, "end")
    BY <1>1, <1>5 DEF WriteCode
  <2>2. Goto(g, "end") /\ closed' = closed \cup {Of("ws", c)} /\ UNCHANGED <<heap, lock, buf>>
    BY <1>1, <2>1, DoesCancel
  <2> QED BY <1>1, <1>2, <2>2, OtherClosedSteady, WriteGoto DEF WriteLabels
<1> QED BY <1>1, <1>3, <1>4, <1>5 DEF WriteLabels

\* The server accepts both connections.
LEMMA MainKeeps ==
  ASSUME prog = "hub", HubParts, Step("main")
  PROVE  HubParts'
<1>1. /\ Perform("main", Go({"serve1", "serve2"}, "end")) /\ pc["main"] = "start"
  <2>1. Running("main") /\ Perform("main", Instr("main"))
    BY StepPerforms
  <2>2. pc["main"] = "start"
    BY <2>1 DEF Running, HubParts, LabelsShape
  <2>3. Instr("main") = Go({"serve1", "serve2"}, "end")
    BY <2>2, HubRuns, HubGoroutinesRun DEF Instr
  <2> QED BY <2>1, <2>2, <2>3
<1>2. /\ pc' = [h \in Goroutines |-> IF h = "main" THEN "end" ELSE IF h \in {"serve1", "serve2"} THEN "start" ELSE pc[h]]
      /\ DataStays
  BY <1>1, DoesGo
<1>3. Goroutines = {"main", "serve1", "serve2", "write1", "write2", "pump1", "pump2"}
  BY HubRuns, HubGoroutinesRun DEF Goroutines
<1>4. \A c \in Conns : At(c) = "idle" /\ At(c)' = "start" /\ Pump(c)' = Pump(c)
  BY <1>1, <1>2, <1>3, HubNames, TwoConns DEF HubParts, LabelsShape, At, Pump
<1>5. LabelsShape'
  BY <1>2, <1>3, <1>4, HubNames, TwoConns DEF HubParts, LabelsShape, At, Pump, ServeLabels, Early
<1>6. Steady
  BY <1>2, StaysSteady DEF HubParts
<1>7. MuIsHeld'
  BY <1>4 DEF MuIsHeld, InMu
<1>8. PumpsRun'
  BY <1>4, <1>6 DEF HubParts, PumpsRun, Steady, SameCancelled
<1>9. SubIsKnown'
  <2>1. \A c \in Conns : At(c)' \in Early /\ At(c)' \notin First \cup Second \cup Attached \cup Leaving \cup {"create", "pump", "which"}
    BY <1>4 DEF Early, First, Second, Attached, Leaving
  <2>2. \A c \in Conns : At(c) \in Early /\ At(c) # "forget"
    BY <1>4 DEF Early
  <2>3. Sub' = Sub /\ \A c \in Conns : Cancelled(c)' <=> Cancelled(c)
    BY <1>6 DEF Steady, SameSub, SameCancelled
  <2> QED BY <2>1, <2>2, <2>3 DEF HubParts, SubIsKnown
<1> QED BY <1>5, <1>6, <1>7, <1>8, <1>9 DEF HubParts, Steady

\* No deadline, and the seven goroutines.
LEMMA HubStepKeeps ==
  ASSUME prog = "hub", HubParts, [Next]_vars
  PROVE  HubParts'
<1>1. CASE UNCHANGED vars
  BY <1>1 DEF vars, chanVars, syncVars, dataVars, HubParts, LabelsShape, DataShape, MuIsHeld, SubIsKnown, PumpsRun,
              At, Sub, Joined, Cancelled, Pump
<1>2. ASSUME NEW g \in Goroutines, Step(g) PROVE HubParts'
  <2>1. g \in {"main", "serve1", "serve2", "write1", "write2", "pump1", "pump2"}
    BY HubRuns, HubGoroutinesRun DEF Goroutines
  <2> QED BY <1>2, <2>1, HubNames, TwoConns, ServeKeeps, PumpStepKeeps, WriteStepKeeps, MainKeeps
<1>3. ~Expire
  BY HubRuns DEF Expire
<1> QED BY <1>1, <1>2, <1>3 DEF Next

LEMMA HubBegins ==
  ASSUME Init, prog = "hub"
  PROVE  HubParts
<1>1. Goroutines = {"main", "serve1", "serve2", "write1", "write2", "pump1", "pump2"}
  BY HubRuns, HubGoroutinesRun DEF Goroutines
<1>2. /\ pc = [g \in Goroutines |-> IF g = "main" THEN "start" ELSE "idle"]
      /\ buf = [c \in DOMAIN HubChans |-> <<>>] /\ closed = {}
      /\ lock = [m \in Mutexes |-> Held(None, 0)] /\ heap = HubVars
  BY HubRuns DEF Init
<1>3. \A c \in Conns : At(c) = "idle" /\ Pump(c) = "idle" /\ pc[Of("write", c)] = "idle" /\ ~Cancelled(c)
  BY <1>1, <1>2, HubNames, TwoConns DEF At, Pump, Cancelled
<1>4. LabelsShape
  BY <1>1, <1>2, <1>3 DEF LabelsShape, ServeLabels, Early, WriteLabels, PumpLabels
<1>5. DataShape
  BY <1>2, HubChannels, HubVariables DEF DataShape
<1>6. MuIsHeld /\ PumpsRun
  BY <1>3 DEF MuIsHeld, PumpsRun, InMu
<1>7. SubIsKnown
  <2>1. Sub = 0
    BY <1>2, HubVariables DEF Sub
  <2>2. \A c \in Conns : At(c) \notin First \cup Second \cup Attached \cup Leaving \cup {"create", "pump", "which"}
    BY <1>3 DEF First, Second, Attached, Leaving
  <2> QED BY <1>3, <2>1, <2>2, TwoConns DEF SubIsKnown
<1> QED BY <1>4, <1>5, <1>6, <1>7 DEF HubParts

\* A connection that is served is in a subscription that lives.
LEMMA HubServes ==
  ASSUME prog = "hub", HubParts
  PROVE  LiveIsServed
<1> SUFFICES ASSUME NEW c \in Conns, pc[Of("serve", c)] \in {"frames", "serve", "read"}
             PROVE  \E i \in Conns : heap["sub"] = i /\ heap[In(i, c)] = 1 /\ Of("ctx", i) \notin closed /\ pc[Of("pump", i)] # "end"
  BY DEF LiveIsServed
<1>1. At(c) \in Attached
  BY DEF At, Attached
<1>2. Sub \in Conns /\ Joined(Sub, c) = 1
  BY <1>1 DEF HubParts, SubIsKnown
<1>3. \A d \in Conns : At(d) # "forget"
  <2>1. At(c) # "forget"
    BY <1>1 DEF Attached
  <2>2. \A d \in Conns \ {c} : Other(d) = c
    BY TwoConns
  <2> QED BY <1>1, <2>1, <2>2 DEF HubParts, SubIsKnown, Leaving
<1>4. ~Cancelled(Sub)
  BY <1>2, <1>3 DEF HubParts, SubIsKnown
<1>5. Pump(Sub) # "end"
  BY <1>2, <1>4 DEF HubParts, PumpsRun
<1> QED BY <1>2, <1>4, <1>5 DEF Sub, Joined, Cancelled, Pump

-----------------------------------------------------------------------------
\* A program stays the program that runs.
LEMMA ProgStays ==
  ASSUME [Next]_vars
  PROVE  prog' = prog
<1>1. CASE UNCHANGED vars
  BY <1>1 DEF vars
<1>2. ASSUME NEW g, Step(g) PROVE prog' = prog
  BY <1>2 DEF Step, Communicate, Take, Meet, Otherwise, CloseChannel, CancelContext, TakeLock, TakeReadLock, ReleaseLock,
              Sleep, Wake, AddToGroup, WaitForGroup, StartGoroutines, PanicHere, Branch, Count, Access, Test, KeepValue
<1>3. CASE Expire
  BY <1>3 DEF Expire
<1> QED BY <1>1, <1>2, <1>3 DEF Next

\* In every state of the hub: h.mu is held by whoever is between its Lock and its
\* Unlock in subscribe or unsubscribe; a connection that is served has joined the
\* subscription h.subs names; a subscription is cancelled, by the last connection
\* out of it, only while h.mu is held and before h.subs forgets it; and pumpRedis
\* returns only when its subscription is cancelled.
THEOREM HubHolds == Spec => []HubInv
<1>1. Init => HubInv
  BY HubBegins DEF HubInv
<1>2. HubInv /\ [Next]_vars => HubInv'
  <2> SUFFICES ASSUME HubInv, [Next]_vars, prog' = "hub" PROVE HubParts'
    BY DEF HubInv
  <2>1. prog = "hub"
    BY ProgStays
  <2> QED BY <2>1, HubStepKeeps DEF HubInv
<1> QED BY <1>1, <1>2, PTL DEF Spec

\* wshub.go subscribe and unsubscribe: whatever the two connections, their write
\* loops and the subscriptions' loops do and in any order, a connection being served
\* is in the event's subscription, which is not cancelled and whose loop runs.
THEOREM HubServesLive == Spec => []LiveIsServed
<1>1. HubInv => LiveIsServed
  <2>1. CASE prog = "hub"
    BY <2>1, HubServes DEF HubInv
  <2>2. CASE prog # "hub"
    BY <2>2 DEF LiveIsServed
  <2> QED BY <2>1, <2>2
<1> QED BY <1>1, HubHolds, PTL

-----------------------------------------------------------------------------
(* The batching cache: what holds while callers, timers and full batches   *)
(* race.                                                                   *)

Callers == {"c1", "c2", "c3"}

\* Who asks for what in the program that runs.
Asking(keyOf) == (prog = "distinctKeys" /\ keyOf = Distinct) \/ (prog = "sharedKey" /\ keyOf = Shared)

\* What a caller's label says: what it does, and with which batch.
StageOf == [
  idle |-> "idle", start |-> "start", cached |-> "cached", cached1 |-> "cached1", cached2 |-> "cached2",
  enqueue |-> "enqueue", open |-> "open", after |-> "after", pending1 |-> "pending1", pending2 |-> "pending2",
  done |-> "done", end |-> "end",
  add1 |-> "add", add2 |-> "add", add3 |-> "add",          key1 |-> "key", key2 |-> "key", key3 |-> "key",
  full1 |-> "full", full2 |-> "full", full3 |-> "full",    send1 |-> "send", send2 |-> "send", send3 |-> "send",
  clear1 |-> "clear", clear2 |-> "clear", clear3 |-> "clear", go1 |-> "go", go2 |-> "go", go3 |-> "go",
  leave1 |-> "leave", leave2 |-> "leave", leave3 |-> "leave", wait1 |-> "wait", wait2 |-> "wait", wait3 |-> "wait",
  read1 |-> "read", read2 |-> "read", read3 |-> "read" ]
BatchAt == [
  add1 |-> 1, add2 |-> 2, add3 |-> 3,       key1 |-> 1, key2 |-> 2, key3 |-> 3,
  full1 |-> 1, full2 |-> 2, full3 |-> 3,    send1 |-> 1, send2 |-> 2, send3 |-> 3,
  clear1 |-> 1, clear2 |-> 2, clear3 |-> 3, go1 |-> 1, go2 |-> 2, go3 |-> 3,
  leave1 |-> 1, leave2 |-> 2, leave3 |-> 3, wait1 |-> 1, wait2 |-> 2, wait3 |-> 3,
  read1 |-> 1, read2 |-> 2, read3 |-> 3 ] ++ [l \in DOMAIN StageOf |-> 0]

Stage(c)   == StageOf[pc[c]]
Batch(c)   == BatchAt[pc[c]]
Flush(b)   == pc[Of("flush", b)]
Runner(b)  == pc[Of("run", b)]
Pending    == heap["pending"]
BatchOf(k) == heap[Of("batch", k)]
KeysIn(b)  == heap[Of("keys", b)]
Sent(b)    == heap[Of("sent", b)]
Results(b) == heap[Of("results", b)]
Done(b)    == Of("done", b) \in closed
FlushHas(b)  == val[Of("flush", b)]
RunnerHas(b) == val[Of("run", b)]

\* Where l.mu is held; what runs the batch, and what is about to.
LoadMu   == {"cached", "cached1", "cached2", "enqueue", "open", "after", "pending1", "pending2",
             "add", "key", "full", "send", "clear", "go", "leave"}
FlushMu  == {"check", "leave", "sent", "pending", "unlock"}
Fetching == {"fetch", "rows", "error", "crash", "close"}
FlushRuns(b) == Flush(b) \in {"pending", "unlock", "run"} \cup Fetching
RunRuns(b)   == Runner(b) \in {"start"} \cup Fetching
Going(b)     == \E c \in Callers : Stage(c) \in {"clear", "go"} /\ Batch(c) = b

\* A key is written down in its batch: cached there and in the list.
Half(keyOf, k)       == \E c \in Callers : keyOf[c] = k /\ Stage(c) = "key"
Written(keyOf, k, b) == BatchOf(k) = b /\ ~Half(keyOf, k)
Share(keyOf, k, b)   == IF Written(keyOf, k, b) THEN Bit[k] ELSE 0
OneKey        == {0, 1, 2, 4}
Holding       == <<{1, 3, 5, 7}, {2, 3, 6, 7}, {4, 5, 6, 7}>>     \* the sums with a key's bit

LoaderLabels ==
  /\ DOMAIN pc = {"main", "flush1", "flush2", "flush3", "run1", "run2", "run3"} \cup Callers
  /\ DOMAIN val = DOMAIN pc
  /\ \A c \in Callers : pc[c] \in DOMAIN StageOf
  /\ \A b \in Keys : /\ Flush(b) \in {"idle", "start", "run", "end"} \cup FlushMu \cup Fetching
                     /\ Runner(b) \in {"idle", "start", "end"} \cup Fetching
  /\ pc["main"] \in {"start", "go", "wait", "cancel", "end"}
  /\ pc["main"] \in {"start", "go"} => \A c \in Callers : Stage(c) = "idle"

LoaderCells ==
  /\ DOMAIN heap = LoaderVars /\ DOMAIN lock = Mutexes /\ DOMAIN wg = Groups
  /\ buf["ctx"] = <<>> /\ \A b \in Keys : buf[Of("done", b)] = <<>>
  /\ Pending \in 0 .. 3 /\ \A k \in Keys : BatchOf(k) \in 0 .. 3

\* The wait group counts the callers that have not returned.
Unreturned(c) == IF Stage(c) = "end" THEN 0 ELSE 1
CallersCounted == wg["wg"] = IF pc["main"] = "start" THEN 0 ELSE Unreturned("c1") + Unreturned("c2") + Unreturned("c3")

\* l.mu serialises callers and timers.
LoaderMu ==
  /\ \A c \in Callers : Stage(c) \in LoadMu => lock["mu"] = Held(c, 0)
  /\ \A b \in Keys : Flush(b) \in FlushMu => lock["mu"] = Held(Of("flush", b), 0)

\* What a caller knows at its stage, when it asks for key k.
Knows(keyOf, c, k) ==
  /\ Stage(c) \in {"cached1", "cached2"} => BatchOf(k) # 0
  /\ Stage(c) = "cached2" => BatchOf(k) # 1
  /\ Stage(c) \in {"enqueue", "open", "after", "pending1", "pending2", "add"} => BatchOf(k) = 0
  /\ Stage(c) \in {"pending1", "pending2"} => Pending # 0
  /\ Stage(c) = "pending2" => Pending # 1
  /\ Stage(c) \in {"open", "go"} => Pending = 0
  /\ Stage(c) = "after" => Pending = k
  /\ Stage(c) \in {"add", "key", "full", "send", "clear"} => Pending = Batch(c)
  /\ Stage(c) = "key" => BatchOf(k) = Batch(c)
  /\ Stage(c) \in {"full", "send", "clear", "go", "leave", "wait", "read"} => Written(keyOf, k, Batch(c))
  /\ Stage(c) = "clear" => Sent(Batch(c)) = 1
  /\ Stage(c) = "read" => Done(Batch(c))
  /\ Stage(c) = "done" /\ val[c] # Failed => val[c] \in Holding[k]
CallersKnow(keyOf) == \A c \in Callers : Knows(keyOf, c, keyOf[c])

\* The list of a batch is the keys cached in it.
KeysFit(keyOf) ==
  \A b \in Keys : /\ KeysIn(b) = Share(keyOf, 1, b) + Share(keyOf, 2, b) + Share(keyOf, 3, b)
                  /\ KeysIn(b) # 7

\* The pending batch is open and has room, but for who is about to send it.
PendingFits ==
  \A b \in Keys : Pending = b =>
    /\ Sent(b) = 0 \/ Going(b) \/ \E a \in Keys : Flush(a) = "pending"
    /\ KeysIn(b) \in OneKey \/ (\E c \in Callers : Stage(c) \in {"full", "send", "clear"})
                            \/ \E a \in Keys : Flush(a) = "pending"

\* A key that is not cached has opened no batch.
Fresh(keyOf, k) == BatchOf(k) = 0 /\ \A c \in Callers : keyOf[c] = k => Stage(c) \notin {"after", "add"}
FreshFits(keyOf) ==
  \A k \in Keys : Fresh(keyOf, k) =>
    Sent(k) = 0 /\ Pending # k /\ Flush(k) = "idle" /\ \A j \in Keys : BatchOf(j) # k

\* A batch is sent once, run once, and what it answers is what it was sent with.
RunsFit ==
  \A b \in Keys :
    /\ FlushRuns(b) \/ RunRuns(b) \/ Going(b) => Sent(b) = 1 /\ ~Done(b)
    /\ ~(FlushRuns(b) /\ RunRuns(b)) /\ ~(FlushRuns(b) /\ Going(b)) /\ ~(RunRuns(b) /\ Going(b))
    /\ Sent(b) \in {0, 1} /\ (Sent(b) = 0 => ~Done(b))
    /\ Flush(b) = "sent" => Sent(b) = 0
    /\ Flush(b) \in {"fetch", "rows"} => FlushHas(b) = KeysIn(b)
    /\ Runner(b) \in {"fetch", "rows"} => RunnerHas(b) = KeysIn(b)
    /\ Results(b) = Failed \/ (Sent(b) = 1 /\ Results(b) = KeysIn(b))

\* How the program's parts stand to one another, and what its cells hold.
Orderly      == LoaderLabels /\ LoaderCells /\ CallersCounted /\ LoaderMu
Sound(keyOf) == CallersKnow(keyOf) /\ KeysFit(keyOf) /\ PendingFits /\ FreshFits(keyOf) /\ RunsFit

LoaderParts(keyOf) == Orderly /\ Sound(keyOf)
LoaderInv == \A keyOf \in {Distinct, Shared} : Asking(keyOf) => LoaderParts(keyOf)

-----------------------------------------------------------------------------
(* The batching cache: names and code.                                     *)

LEMMA ThreeKeys == Keys = {1, 2, 3} /\ Bit[1] = 1 /\ Bit[2] = 2 /\ Bit[3] = 4
BY DEF Keys, Bit

Numbers == {"add", "key", "full", "send", "clear", "go", "leave", "wait", "read"}
Plain   == {"idle", "start", "cached", "cached1", "cached2", "enqueue", "open", "after", "pending1", "pending2", "done", "end"}

\* The table of stages.
LEMMA StageTable ==
  /\ \A l \in Plain : l \in DOMAIN StageOf /\ StageOf[l] = l
  /\ \A l \in DOMAIN StageOf : StageOf[l] \in Numbers \cup Plain
  /\ \A l \in DOMAIN StageOf : StageOf[l] \in Plain => l = StageOf[l]
BY DEF StageOf, Numbers, Plain

LEMMA NumberTable ==
  ASSUME NEW x \in Numbers, NEW b \in Keys
  PROVE  Of(x, b) \in DOMAIN StageOf /\ StageOf[Of(x, b)] = x /\ BatchAt[Of(x, b)] = b
<1>1. Of(x, b) \in DOMAIN StageOf /\ StageOf[Of(x, b)] = x
  BY ThreeKeys, CallerNames DEF Numbers, StageOf
<1>2. BatchAt[Of(x, b)] = b
  BY ThreeKeys, CallerNames DEF Numbers, BatchAt, ++
<1> QED BY <1>1, <1>2

LEMMA NumberOf ==
  ASSUME NEW l \in DOMAIN StageOf, StageOf[l] \in Numbers
  PROVE  BatchAt[l] \in Keys /\ l = Of(StageOf[l], BatchAt[l])
<1>1. PICK x \in Numbers, b \in Keys : l = Of(x, b)
  BY ThreeKeys, CallerNames DEF StageOf, Numbers
<1> QED BY <1>1, NumberTable

LEMMA ThreeCallers == Cardinality({"c1", "c2", "c3"}) = 3
<1>1. IsFiniteSet({}) /\ Cardinality({}) = 0
  BY FS_EmptySet
<1>2. IsFiniteSet({} \cup {"c1"}) /\ Cardinality({} \cup {"c1"}) = 1
  BY <1>1, FS_AddElement
<1>3. IsFiniteSet({"c1"} \cup {"c2"}) /\ Cardinality({"c1"} \cup {"c2"}) = 2
  <2>1. {} \cup {"c1"} = {"c1"}
    OBVIOUS
  <2> QED BY <1>2, <2>1, FS_AddElement
<1>4. Cardinality({"c1", "c2"} \cup {"c3"}) = 3
  <2>1. {"c1"} \cup {"c2"} = {"c1", "c2"}
    OBVIOUS
  <2> QED BY <1>3, <2>1, FS_AddElement
<1>5. {"c1", "c2"} \cup {"c3"} = {"c1", "c2", "c3"}
  OBVIOUS
<1> QED BY <1>4, <1>5

LEMMA NamesDiffer ==
  ASSUME NEW x \in Numbers, NEW y \in Numbers, NEW b \in Keys, NEW d \in Keys
  PROVE  /\ Of(x, b) = Of(y, d) => x = y /\ b = d
         /\ Of(x, b) \notin Plain
<1>1. StageOf[Of(x, b)] = x /\ BatchAt[Of(x, b)] = b /\ StageOf[Of(y, d)] = y /\ BatchAt[Of(y, d)] = d
  BY NumberTable
<1>2. Numbers \cap Plain = {}
  BY DEF Numbers, Plain
<1> QED BY <1>1, <1>2, StageTable

\* The parts of Load, and what stands at their labels.
LEMMA JoinCode ==
  ASSUME NEW k, NEW b \in Keys
  PROVE  /\ DOMAIN join(k, b) = {Of("add", b), Of("key", b), Of("full", b), Of("send", b), Of("clear", b), Of("go", b)}
         /\ join(k, b)[Of("add", b)] = Set(Of("batch", k), b, Of("key", b))
         /\ join(k, b)[Of("key", b)] = Plus(Of("keys", b), Bit[k], Of("full", b))
         /\ join(k, b)[Of("full", b)] = If(Of("keys", b), Full, Of("send", b), Of("leave", b))
         /\ join(k, b)[Of("send", b)] = Set(Of("sent", b), 1, Of("clear", b))
         /\ join(k, b)[Of("clear", b)] = Set("pending", 0, Of("go", b))
         /\ join(k, b)[Of("go", b)] = Go({Of("run", b)}, Of("leave", b))
<1> DEFINE add == Of("add", b)
           key == Of("key", b)
           full == Of("full", b)
           snd == Of("send", b)
           clear == Of("clear", b)
           goes == Of("go", b)
<1>1. \A x, y \in {"add", "key", "full", "send", "clear", "go"} : Of(x, b) = Of(y, b) => x = y
  BY NamesDiffer DEF Numbers
<1>2. /\ key # add /\ full \notin {add, key} /\ snd \notin {add, key, full}
      /\ clear \notin {add, key, full, snd} /\ goes \notin {add, key, full, snd, clear}
  BY <1>1
<1>3. PICK i1, i2, i3, i4, i5, i6 :
        /\ i1 = Set(Of("batch", k), b, key) /\ i2 = Plus(Of("keys", b), Bit[k], full)
        /\ i3 = If(Of("keys", b), Full, snd, Of("leave", b)) /\ i4 = Set(Of("sent", b), 1, clear)
        /\ i5 = Set("pending", 0, goes) /\ i6 = Go({Of("run", b)}, Of("leave", b))
  OBVIOUS
<1>4. join(k, b) = On(add, i1) ++ On(key, i2) ++ On(full, i3) ++ On(snd, i4) ++ On(clear, i5) ++ On(goes, i6)
  BY <1>3 DEF join
<1> HIDE DEF add, key, full, snd, clear, goes
<1>5. PICK f : f = On(add, i1) ++ On(key, i2) ++ On(full, i3)
  OBVIOUS
<1>6. DOMAIN f = {add, key, full} /\ f[add] = i1 /\ f[key] = i2 /\ f[full] = i3
  BY <1>2, <1>5 DEF ++, On
<1>7. PICK h : h = f ++ On(snd, i4) ++ On(clear, i5) ++ On(goes, i6)
  OBVIOUS
<1>8. /\ DOMAIN h = {add, key, full, snd, clear, goes}
      /\ h[add] = i1 /\ h[key] = i2 /\ h[full] = i3 /\ h[snd] = i4 /\ h[clear] = i5 /\ h[goes] = i6
  BY <1>2, <1>6, <1>7 DEF ++, On
<1>9. join(k, b) = h
  BY <1>4, <1>5, <1>7
<1> QED BY <1>3, <1>8, <1>9 DEF add, key, full, snd, clear, goes

LEMMA AwaitCode ==
  ASSUME NEW b \in Keys
  PROVE  /\ DOMAIN await(b) = {Of("leave", b), Of("wait", b), Of("read", b)}
         /\ await(b)[Of("leave", b)] = Unlock("mu", Of("wait", b))
         /\ await(b)[Of("wait", b)] = Comm({Recv(Of("done", b), Of("read", b)), Recv("ctx", "done")})
         /\ await(b)[Of("read", b)] = Read(Of("results", b), "done")
<1> DEFINE leaves == Of("leave", b)
           waits == Of("wait", b)
           reads == Of("read", b)
<1>1. \A x, y \in {"leave", "wait", "read"} : Of(x, b) = Of(y, b) => x = y
  BY NamesDiffer DEF Numbers
<1>2. waits # leaves /\ reads \notin {leaves, waits}
  BY <1>1
<1>3. PICK i1, i2, i3 :
        /\ i1 = Unlock("mu", waits) /\ i2 = Comm({Recv(Of("done", b), reads), Recv("ctx", "done")})
        /\ i3 = Read(Of("results", b), "done")
  OBVIOUS
<1>4. await(b) = On(leaves, i1) ++ On(waits, i2) ++ On(reads, i3)
  BY <1>3 DEF await
<1> HIDE DEF leaves, waits, reads
<1>5. DOMAIN await(b) = {leaves, waits, reads} /\ await(b)[leaves] = i1 /\ await(b)[waits] = i2 /\ await(b)[reads] = i3
  BY <1>2, <1>4 DEF ++, On
<1> QED BY <1>3, <1>5 DEF leaves, waits, reads

\* What stands at a caller's labels.
CallerCode(k, f) ==
  /\ f["start"] = Lock("mu", "cached")
  /\ f["cached"] = If(Of("batch", k), {0}, "enqueue", "cached1")
  /\ f["cached1"] = If(Of("batch", k), {1}, "leave1", "cached2")
  /\ f["cached2"] = If(Of("batch", k), {2}, "leave2", "leave3")
  /\ f["enqueue"] = If("pending", {0}, "open", "pending1")
  /\ f["open"] = Set("pending", k, "after")
  /\ f["after"] = Go({Of("flush", k)}, Of("add", k))
  /\ f["pending1"] = If("pending", {1}, "add1", "pending2")
  /\ f["pending2"] = If("pending", {2}, "add2", "add3")
  /\ f["done"] = Add("wg", -1, "end")
  /\ \A b \in Keys :
       /\ f[Of("add", b)] = Set(Of("batch", k), b, Of("key", b))
       /\ f[Of("key", b)] = Plus(Of("keys", b), Bit[k], Of("full", b))
       /\ f[Of("full", b)] = If(Of("keys", b), Full, Of("send", b), Of("leave", b))
       /\ f[Of("send", b)] = Set(Of("sent", b), 1, Of("clear", b))
       /\ f[Of("clear", b)] = Set("pending", 0, Of("go", b))
       /\ f[Of("go", b)] = Go({Of("run", b)}, Of("leave", b))
       /\ f[Of("leave", b)] = Unlock("mu", Of("wait", b))
       /\ f[Of("wait", b)] = Comm({Recv(Of("done", b), Of("read", b)), Recv("ctx", "done")})
       /\ f[Of("read", b)] = Read(Of("results", b), "done")

LEMMA LoadCodeIs ==
  ASSUME NEW k
  PROVE  CallerCode(k, Load(k))
<1>1. PICK f : f =
        [start |-> Lock("mu", "cached"), cached |-> If(Of("batch", k), {0}, "enqueue", "cached1"),
         cached1 |-> If(Of("batch", k), {1}, "leave1", "cached2"), cached2 |-> If(Of("batch", k), {2}, "leave2", "leave3"),
         enqueue |-> If("pending", {0}, "open", "pending1"), open |-> Set("pending", k, "after"),
         after |-> Go({Of("flush", k)}, Of("add", k)),
         pending1 |-> If("pending", {1}, "add1", "pending2"), pending2 |-> If("pending", {2}, "add2", "add3"),
         done |-> Add("wg", -1, "end")]
  OBVIOUS
<1>2. Load(k) = f ++ join(k, 1) ++ join(k, 2) ++ join(k, 3) ++ await(1) ++ await(2) ++ await(3)
  BY <1>1 DEF Load
<1>3. DOMAIN f \subseteq Plain
  BY <1>1 DEF Plain
<1>4. /\ DOMAIN join(k, 1) = {"add1", "key1", "full1", "send1", "clear1", "go1"}
      /\ DOMAIN join(k, 2) = {"add2", "key2", "full2", "send2", "clear2", "go2"}
      /\ DOMAIN join(k, 3) = {"add3", "key3", "full3", "send3", "clear3", "go3"}
      /\ DOMAIN await(1) = {"leave1", "wait1", "read1"}
      /\ DOMAIN await(2) = {"leave2", "wait2", "read2"}
      /\ DOMAIN await(3) = {"leave3", "wait3", "read3"}
  <2>1. 1 \in Keys /\ 2 \in Keys /\ 3 \in Keys
    BY ThreeKeys
  <2>2. \A b \in Keys : DOMAIN join(k, b) = {Of("add", b), Of("key", b), Of("full", b), Of("send", b), Of("clear", b), Of("go", b)}
    BY JoinCode
  <2>3. \A b \in Keys : DOMAIN await(b) = {Of("leave", b), Of("wait", b), Of("read", b)}
    BY AwaitCode
  <2> QED BY <2>1, <2>2, <2>3, CallerNames
<1>5. \A x \in DOMAIN f : Load(k)[x] = f[x]
  BY <1>2 DEF ++
<1>6. PICK j1, j2, j3, w1, w2, w3 :
        /\ j1 = join(k, 1) /\ j2 = join(k, 2) /\ j3 = join(k, 3) /\ w1 = await(1) /\ w2 = await(2) /\ w3 = await(3)
  OBVIOUS
<1>7. \A x \in DOMAIN j1 \cup DOMAIN j2 \cup DOMAIN j3 \cup DOMAIN w1 \cup DOMAIN w2 \cup DOMAIN w3 : x \notin DOMAIN f
  BY <1>3, <1>4, <1>6 DEF Plain
<1>8. PICK g : g = f ++ j1 ++ j2 ++ j3
  OBVIOUS
<1>9. /\ DOMAIN g = DOMAIN f \cup DOMAIN j1 \cup DOMAIN j2 \cup DOMAIN j3
      /\ \A x \in DOMAIN j1 : g[x] = j1[x]
      /\ \A x \in DOMAIN j2 : g[x] = j2[x]
      /\ \A x \in DOMAIN j3 : g[x] = j3[x]
  <2>1. \A x \in DOMAIN j2 : x \notin DOMAIN j1
    BY <1>4, <1>6
  <2>2. \A x \in DOMAIN j3 : x \notin DOMAIN j1 /\ x \notin DOMAIN j2
    BY <1>4, <1>6
  <2> QED BY <1>7, <1>8, <2>1, <2>2 DEF ++
<1>10. \A x \in DOMAIN w1 \cup DOMAIN w2 \cup DOMAIN w3 : x \notin DOMAIN g
  BY <1>4, <1>6, <1>7, <1>9
<1>11. /\ \A x \in DOMAIN g : Load(k)[x] = g[x]
       /\ \A x \in DOMAIN w1 : Load(k)[x] = w1[x]
       /\ \A x \in DOMAIN w2 : Load(k)[x] = w2[x]
       /\ \A x \in DOMAIN w3 : Load(k)[x] = w3[x]
  <2>1. \A x \in DOMAIN w2 : x \notin DOMAIN w1
    BY <1>4, <1>6
  <2>2. \A x \in DOMAIN w3 : x \notin DOMAIN w1 /\ x \notin DOMAIN w2
    BY <1>4, <1>6
  <2>3. Load(k) = g ++ w1 ++ w2 ++ w3
    BY <1>2, <1>6, <1>8
  <2> QED BY <1>10, <2>1, <2>2, <2>3 DEF ++
<1>12. ASSUME NEW b \in Keys
       PROVE  /\ \A x \in DOMAIN join(k, b) : Load(k)[x] = join(k, b)[x]
              /\ \A x \in DOMAIN await(b) : Load(k)[x] = await(b)[x]
  BY <1>6, <1>9, <1>11, ThreeKeys
<1>13. ASSUME NEW b \in Keys
       PROVE  /\ Load(k)[Of("add", b)] = Set(Of("batch", k), b, Of("key", b))
              /\ Load(k)[Of("key", b)] = Plus(Of("keys", b), Bit[k], Of("full", b))
              /\ Load(k)[Of("full", b)] = If(Of("keys", b), Full, Of("send", b), Of("leave", b))
              /\ Load(k)[Of("send", b)] = Set(Of("sent", b), 1, Of("clear", b))
              /\ Load(k)[Of("clear", b)] = Set("pending", 0, Of("go", b))
              /\ Load(k)[Of("go", b)] = Go({Of("run", b)}, Of("leave", b))
  <2>1. PICK j : j = join(k, b)
    OBVIOUS
  <2>2. /\ DOMAIN j = {Of("add", b), Of("key", b), Of("full", b), Of("send", b), Of("clear", b), Of("go", b)}
        /\ j[Of("add", b)] = Set(Of("batch", k), b, Of("key", b))
        /\ j[Of("key", b)] = Plus(Of("keys", b), Bit[k], Of("full", b))
        /\ j[Of("full", b)] = If(Of("keys", b), Full, Of("send", b), Of("leave", b))
        /\ j[Of("send", b)] = Set(Of("sent", b), 1, Of("clear", b))
        /\ j[Of("clear", b)] = Set("pending", 0, Of("go", b))
        /\ j[Of("go", b)] = Go({Of("run", b)}, Of("leave", b))
    BY <2>1, JoinCode
  <2>3. \A x \in DOMAIN j : Load(k)[x] = j[x]
    BY <1>12, <2>1
  <2> QED BY <2>2, <2>3
<1>14. ASSUME NEW b \in Keys
       PROVE  /\ Load(k)[Of("leave", b)] = Unlock("mu", Of("wait", b))
              /\ Load(k)[Of("wait", b)] = Comm({Recv(Of("done", b), Of("read", b)), Recv("ctx", "done")})
              /\ Load(k)[Of("read", b)] = Read(Of("results", b), "done")
  BY <1>12, AwaitCode
<1> QED BY <1>1, <1>5, <1>13, <1>14 DEF CallerCode

FetchCode(b, f) ==
  /\ f["fetch"] = Either({"rows", "error", "crash"})
  /\ f["rows"] = Write(Of("results", b), 0, "close")
  /\ f["error"] = Set(Of("results", b), Failed, "close")
  /\ f["crash"] = Panic("error")
  /\ f["close"] = Close(Of("done", b), "end")

RunCode(b, f) == f["start"] = Read(Of("keys", b), "fetch") /\ FetchCode(b, f)

FlushCode(b, f) ==
  /\ f["start"] = Lock("mu", "check")
  /\ f["check"] = If(Of("sent", b), {1}, "leave", "sent")
  /\ f["leave"] = Unlock("mu", "end")
  /\ f["sent"] = Set(Of("sent", b), 1, "pending")
  /\ f["pending"] = Set("pending", 0, "unlock")
  /\ f["unlock"] = Unlock("mu", "run")
  /\ f["run"] = Read(Of("keys", b), "fetch")
  /\ FetchCode(b, f)

LEMMA RunCodeIs ==
  ASSUME NEW b \in Keys, NEW first \in {"start", "run"}
  PROVE  /\ run(b, first)[first] = Read(Of("keys", b), "fetch")
         /\ FetchCode(b, run(b, first))
         /\ DOMAIN run(b, first) = {first, "fetch", "rows", "error", "crash", "close"}
<1>1. PICK f, h : /\ f = fetch(b) /\ h = [close |-> Close(Of("done", b), "end")]
  OBVIOUS
<1>2. /\ DOMAIN f = {"fetch", "rows", "error", "crash"} /\ f["fetch"] = Either({"rows", "error", "crash"})
      /\ f["rows"] = Write(Of("results", b), 0, "close") /\ f["error"] = Set(Of("results", b), Failed, "close")
      /\ f["crash"] = Panic("error")
  BY <1>1 DEF fetch
<1>3. DOMAIN h = {"close"} /\ h["close"] = Close(Of("done", b), "end")
  BY <1>1
<1>4. PICK i : i = Read(Of("keys", b), "fetch")
  OBVIOUS
<1>5. run(b, first) = On(first, i) ++ f ++ h
  BY <1>1, <1>4 DEF run
<1> QED BY <1>2, <1>3, <1>4, <1>5 DEF ++, On, FetchCode

LEMMA FlushCodeIs ==
  ASSUME NEW b \in Keys
  PROVE  FlushCode(b, flush(b))
<1>1. PICK f, r : /\ r = run(b, "run")
                  /\ f = [start |-> Lock("mu", "check"), check |-> If(Of("sent", b), {1}, "leave", "sent"),
                          leave |-> Unlock("mu", "end"), sent |-> Set(Of("sent", b), 1, "pending"),
                          pending |-> Set("pending", 0, "unlock"), unlock |-> Unlock("mu", "run")]
  OBVIOUS
<1>2. flush(b) = f ++ r
  BY <1>1 DEF flush
<1>3. /\ r["run"] = Read(Of("keys", b), "fetch") /\ FetchCode(b, r)
      /\ DOMAIN r = {"run", "fetch", "rows", "error", "crash", "close"}
  BY <1>1, RunCodeIs
<1>4. DOMAIN f = {"start", "check", "leave", "sent", "pending", "unlock"}
  BY <1>1
<1>5. /\ \A x \in DOMAIN f : flush(b)[x] = f[x]
      /\ \A x \in DOMAIN r : flush(b)[x] = r[x]
  BY <1>2, <1>3, <1>4 DEF ++
<1>6. FetchCode(b, flush(b))
  BY <1>3, <1>5 DEF FetchCode
<1> QED BY <1>1, <1>3, <1>4, <1>5, <1>6 DEF FlushCode

LEMMA AskedKeys ==
  ASSUME NEW keyOf, Asking(keyOf)
  PROVE  keyOf \in [Callers -> Keys]
BY ThreeKeys DEF Asking, Callers, Distinct, Shared

\* The programs of the table.
LEMMA LoadersAre ==
  ASSUME NEW keyOf, Asking(keyOf)
  PROVE  \E d : Program = Request(keyOf, d) /\ d \subseteq {"ctx"}
<1>1. /\ DOMAIN Loaders = {"distinctKeys", "sharedKey"}
      /\ Loaders["distinctKeys"] = Request(Distinct, {}) /\ Loaders["sharedKey"] = Request(Shared, {"ctx"})
  BY DEF Loaders
<1>2. Program = Loaders[prog]
  BY <1>1, LoadersRun DEF Program, Asking
<1> QED BY <1>1, <1>2 DEF Asking

MainCode == [start |-> Add("wg", 3, "go"), go |-> Go(Callers, "wait"), wait |-> Wait("wg", "cancel"),
             cancel |-> Cancel({"ctx"}, "end")]

LEMMA LoaderRuns ==
  ASSUME NEW keyOf, Asking(keyOf)
  PROVE  /\ Goroutines = {"main", "flush1", "flush2", "flush3", "run1", "run2", "run3"} \cup Callers
         /\ \A c \in Callers : Program.code[c] = Load(keyOf[c])
         /\ \A b \in Keys : /\ Program.code[Of("flush", b)] = flush(b)
                            /\ Program.code[Of("run", b)] = run(b, "start")
         /\ Program.code["main"] = MainCode
         /\ Program.caps = [c \in {"ctx", "done1", "done2", "done3"} |-> 0]
         /\ Program.vars = [x \in LoaderVars |-> 0]
         /\ Program.deadlines \subseteq {"ctx"}
<1>1. PICK d : Program = Request(keyOf, d) /\ d \subseteq {"ctx"}
  BY LoadersAre
<1>a. DOMAIN keyOf = Callers
  BY AskedKeys
<1>2. /\ Program.code = resolvers(keyOf) /\ Program.caps = [c \in {"ctx", "done1", "done2", "done3"} |-> 0]
      /\ Program.vars = [x \in LoaderVars |-> 0] /\ Program.deadlines = d
  BY <1>1 DEF Request
<1>3. PICK f, h, r, m :
        /\ f = [c \in DOMAIN keyOf |-> Load(keyOf[c])]
        /\ h = [flush1 |-> flush(1), flush2 |-> flush(2), flush3 |-> flush(3)]
        /\ r = [run1 |-> run(1, "start"), run2 |-> run(2, "start"), run3 |-> run(3, "start")]
        /\ m = [main |-> MainCode]
  OBVIOUS
<1>4. Cardinality(DOMAIN keyOf) = 3
  BY <1>a, ThreeCallers DEF Callers
<1>5. resolvers(keyOf) = f ++ h ++ r ++ m
  BY <1>a, <1>3, <1>4 DEF resolvers, MainCode
<1>6. /\ DOMAIN f = Callers /\ DOMAIN h = {"flush1", "flush2", "flush3"} /\ DOMAIN r = {"run1", "run2", "run3"}
      /\ DOMAIN m = {"main"}
  BY <1>a, <1>3
<1>7. PICK g : g = resolvers(keyOf)
  OBVIOUS
<1>8. /\ DOMAIN g = DOMAIN f \cup DOMAIN h \cup DOMAIN r \cup DOMAIN m
      /\ \A x \in DOMAIN f : g[x] = f[x]
      /\ \A x \in DOMAIN h : g[x] = h[x]
      /\ \A x \in DOMAIN r : g[x] = r[x]
      /\ \A x \in DOMAIN m : g[x] = m[x]
  BY <1>5, <1>6, <1>7 DEF ++, Callers
<1>9. /\ h["flush1"] = flush(1) /\ h["flush2"] = flush(2) /\ h["flush3"] = flush(3)
      /\ r["run1"] = run(1, "start") /\ r["run2"] = run(2, "start") /\ r["run3"] = run(3, "start")
      /\ m["main"] = MainCode
  BY <1>3
<1>10. \A c \in Callers : g[c] = Load(keyOf[c])
  BY <1>3, <1>6, <1>8
<1>11. \A b \in Keys : g[Of("flush", b)] = flush(b) /\ g[Of("run", b)] = run(b, "start")
  BY <1>6, <1>8, <1>9, ThreeKeys, CellNames
<1>12. Goroutines = {"main", "flush1", "flush2", "flush3", "run1", "run2", "run3"} \cup Callers
  BY <1>2, <1>6, <1>7, <1>8 DEF Goroutines
<1> QED BY <1>1, <1>2, <1>6, <1>7, <1>8, <1>9, <1>10, <1>11, <1>12

-----------------------------------------------------------------------------
(* The batching cache: what a step leaves as it was.                       *)

PendingStays == Pending' = Pending
BatchesStay  == \A k \in Keys : BatchOf(k)' = BatchOf(k)
KeysStay     == \A b \in Keys : KeysIn(b)' = KeysIn(b)
SentStays    == \A b \in Keys : Sent(b)' = Sent(b)
ResultsStay  == \A b \in Keys : Results(b)' = Results(b)
DoneStays    == \A b \in Keys : Done(b)' <=> Done(b)
DonesKept    == \A b \in Keys : Done(b) => Done(b)'
CellsStay    == PendingStays /\ BatchesStay /\ KeysStay /\ SentStays /\ ResultsStay

CallerStays(c) == Stage(c)' = Stage(c) /\ Batch(c)' = Batch(c) /\ val'[c] = val[c]
TimerStays(b)  == /\ Flush(b)' = Flush(b) /\ Runner(b)' = Runner(b)
                  /\ FlushHas(b)' = FlushHas(b) /\ RunnerHas(b)' = RunnerHas(b)
CallersStay    == \A c \in Callers : CallerStays(c)
OthersStay(c)  == \A d \in Callers \ {c} : CallerStays(d)
TimersStay     == \A b \in Keys : TimerStays(b)

\* At most goroutine g's value is another.
OnlyHas(g) == val' = val \/ \E v : val' = [val EXCEPT ![g] = v]

TimerNames == {"flush1", "flush2", "flush3", "run1", "run2", "run3"}

LEMMA TimersAre ==
  /\ \A b \in Keys : Of("flush", b) \in TimerNames /\ Of("run", b) \in TimerNames
  /\ \A a, b \in Keys : Of("flush", a) # Of("run", b)
  /\ \A a, b \in Keys : a # b => Of("flush", a) # Of("flush", b) /\ Of("run", a) # Of("run", b)
  /\ TimerNames \cap Callers = {} /\ "main" \notin TimerNames \cup Callers /\ None \notin TimerNames \cup Callers
BY ThreeKeys, CellNames DEF TimerNames, Callers, None

LEMMA OnlyCaller ==
  ASSUME LoaderLabels, NEW c \in Callers, Stage(c) # "idle", NEW l \in DOMAIN StageOf, Goto(c, l), OnlyHas(c)
  PROVE  /\ Stage(c)' = StageOf[l] /\ Batch(c)' = BatchAt[l]
         /\ OthersStay(c) /\ TimersStay /\ pc'["main"] = pc["main"]
         /\ LoaderLabels'
<1>1. /\ DOMAIN pc = {"main", "flush1", "flush2", "flush3", "run1", "run2", "run3"} \cup Callers /\ DOMAIN val = DOMAIN pc
      /\ DOMAIN pc = {"main"} \cup TimerNames \cup Callers
  BY DEF LoaderLabels, TimerNames
<1>2. pc'[c] = l /\ DOMAIN pc' = DOMAIN pc /\ \A h \in DOMAIN pc : h # c => pc'[h] = pc[h]
  BY <1>1 DEF Goto
<1>3. DOMAIN val' = DOMAIN val /\ \A h \in DOMAIN pc : h # c => val'[h] = val[h]
  BY <1>1 DEF OnlyHas
<1>4. Stage(c)' = StageOf[l] /\ Batch(c)' = BatchAt[l]
  BY <1>2 DEF Stage, Batch
<1>5. OthersStay(c)
  BY <1>1, <1>2, <1>3 DEF OthersStay, CallerStays, Stage, Batch
<1>6. TimersStay
  BY <1>1, <1>2, <1>3, TimersAre DEF TimersStay, TimerStays, Flush, Runner, FlushHas, RunnerHas
<1>7. pc'["main"] = pc["main"]
  BY <1>1, <1>2, TimersAre
<1>8. pc["main"] \notin {"start", "go"}
  BY DEF LoaderLabels
<1>9. \A d \in Callers : pc'[d] \in DOMAIN StageOf
  BY <1>1, <1>2 DEF LoaderLabels
<1>10. \A b \in Keys : /\ Flush(b)' \in {"idle", "start", "run", "end"} \cup FlushMu \cup Fetching
                       /\ Runner(b)' \in {"idle", "start", "end"} \cup Fetching
  BY <1>6 DEF LoaderLabels, TimersStay, TimerStays
<1>11. pc'["main"] \in {"start", "go", "wait", "cancel", "end"} /\ pc'["main"] \notin {"start", "go"}
  BY <1>7, <1>8 DEF LoaderLabels
<1>12. LoaderLabels'
  BY <1>1, <1>2, <1>3, <1>9, <1>10, <1>11 DEF LoaderLabels
<1> QED BY <1>4, <1>5, <1>6, <1>7, <1>12

FlushLabels  == {"idle", "start", "run", "end"} \cup FlushMu \cup Fetching
RunnerLabels == {"idle", "start", "end"} \cup Fetching

LEMMA OnlyTimer ==
  ASSUME LoaderLabels, NEW b \in Keys, NEW g \in {Of("flush", b), Of("run", b)}, NEW l, Goto(g, l), OnlyHas(g),
         g = Of("flush", b) => l \in FlushLabels, g = Of("run", b) => l \in RunnerLabels
  PROVE  /\ g = Of("flush", b) => Flush(b)' = l /\ Runner(b)' = Runner(b) /\ RunnerHas(b)' = RunnerHas(b)
         /\ g = Of("run", b) => Runner(b)' = l /\ Flush(b)' = Flush(b) /\ FlushHas(b)' = FlushHas(b)
         /\ CallersStay /\ (\A a \in Keys \ {b} : TimerStays(a)) /\ pc'["main"] = pc["main"]
         /\ LoaderLabels'
<1>1. /\ DOMAIN pc = {"main", "flush1", "flush2", "flush3", "run1", "run2", "run3"} \cup Callers /\ DOMAIN val = DOMAIN pc
      /\ DOMAIN pc = {"main"} \cup TimerNames \cup Callers
  BY DEF LoaderLabels, TimerNames
<1>2. g \in TimerNames /\ g \in DOMAIN pc
  BY <1>1, TimersAre
<1>3. pc'[g] = l /\ DOMAIN pc' = DOMAIN pc /\ \A h \in DOMAIN pc : h # g => pc'[h] = pc[h]
  BY <1>2 DEF Goto
<1>4. DOMAIN val' = DOMAIN val /\ \A h \in DOMAIN pc : h # g => val'[h] = val[h]
  BY <1>1 DEF OnlyHas
<1>5. g \notin Callers /\ g # "main"
  BY <1>2, TimersAre
<1>6. CallersStay
  BY <1>1, <1>3, <1>4, <1>5 DEF CallersStay, CallerStays, Stage, Batch
<1>7. \A a \in Keys \ {b} : TimerStays(a)
  <2>1. \A a \in Keys \ {b} : /\ Of("flush", a) # g /\ Of("run", a) # g
                              /\ Of("flush", a) \in DOMAIN pc /\ Of("run", a) \in DOMAIN pc
    BY <1>1, TimersAre
  <2> QED BY <1>3, <1>4, <2>1 DEF TimerStays, Flush, Runner, FlushHas, RunnerHas
<1>8. pc'["main"] = pc["main"]
  BY <1>1, <1>3, <1>5
<1>9. /\ Of("flush", b) \in DOMAIN pc /\ Of("run", b) \in DOMAIN pc /\ Of("flush", b) # Of("run", b)
  BY <1>1, TimersAre
<1>a. \A d \in Callers : pc'[d] \in DOMAIN StageOf
  BY <1>1, <1>3, <1>5 DEF LoaderLabels
<1>b. /\ pc'["main"] \in {"start", "go", "wait", "cancel", "end"}
      /\ pc'["main"] \in {"start", "go"} => \A d \in Callers : Stage(d)' = "idle"
  BY <1>6, <1>8 DEF LoaderLabels, CallersStay, CallerStays
<1>10. CASE g = Of("flush", b)
  <2>1. Flush(b)' = l /\ Runner(b)' = Runner(b) /\ RunnerHas(b)' = RunnerHas(b)
    BY <1>3, <1>4, <1>9, <1>10 DEF Flush, Runner, RunnerHas
  <2>2. \A a \in Keys : Flush(a)' \in FlushLabels /\ Runner(a)' \in RunnerLabels
    BY <1>7, <1>10, <2>1 DEF LoaderLabels, TimerStays, FlushLabels, RunnerLabels
  <2>3. \A a \in Keys : /\ Flush(a)' \in {"idle", "start", "run", "end"} \cup FlushMu \cup Fetching
                        /\ Runner(a)' \in {"idle", "start", "end"} \cup Fetching
    BY <2>2 DEF FlushLabels, RunnerLabels
  <2>4. LoaderLabels'
    BY <1>1, <1>3, <1>4, <1>a, <1>b, <2>3 DEF LoaderLabels
  <2> QED BY <1>6, <1>7, <1>8, <1>9, <1>10, <2>1, <2>4
<1>11. CASE g = Of("run", b)
  <2>1. Runner(b)' = l /\ Flush(b)' = Flush(b) /\ FlushHas(b)' = FlushHas(b)
    BY <1>3, <1>4, <1>9, <1>11 DEF Flush, Runner, FlushHas
  <2>2. \A a \in Keys : Flush(a)' \in FlushLabels /\ Runner(a)' \in RunnerLabels
    BY <1>7, <1>11, <2>1 DEF LoaderLabels, TimerStays, FlushLabels, RunnerLabels
  <2>3. \A a \in Keys : /\ Flush(a)' \in {"idle", "start", "run", "end"} \cup FlushMu \cup Fetching
                        /\ Runner(a)' \in {"idle", "start", "end"} \cup Fetching
    BY <2>2 DEF FlushLabels, RunnerLabels
  <2>4. LoaderLabels'
    BY <1>1, <1>3, <1>4, <1>a, <1>b, <2>3 DEF LoaderLabels
  <2> QED BY <1>6, <1>7, <1>8, <1>9, <1>11, <2>1, <2>4
<1> QED BY <1>10, <1>11

Cells == {"batch", "keys", "sent", "results"}

LEMMA CellsDiffer ==
  /\ "pending" \in LoaderVars
  /\ \A x \in Cells, b \in Keys : Of(x, b) \in LoaderVars /\ Of(x, b) # "pending"
  /\ \A x, y \in Cells, a, b \in Keys : Of(x, a) = Of(y, b) => x = y /\ a = b
<1>1. \A x \in Cells, b \in Keys : Of(x, b) \in LoaderVars
  BY DEF LoaderVars, Cells
<1>2. \A x \in Cells, b \in Keys : Of(x, b) # "pending"
  BY ThreeKeys, CellNames DEF Cells
<1>3. ASSUME NEW x \in Cells, NEW y \in Cells, NEW a \in Keys, NEW b \in Keys, Of(x, a) = Of(y, b)
      PROVE  x = y /\ a = b
  BY <1>3, ThreeKeys, CellNames DEF Cells
<1> QED BY <1>1, <1>2, <1>3 DEF LoaderVars

LEMMA HeapStays ==
  ASSUME heap' = heap
  PROVE  CellsStay
BY DEF CellsStay, PendingStays, BatchesStay, KeysStay, SentStays, ResultsStay, Pending, BatchOf, KeysIn, Sent, Results

LEMMA SetsPending ==
  ASSUME DOMAIN heap = LoaderVars, NEW v, heap' = [heap EXCEPT !["pending"] = v]
  PROVE  /\ Pending' = v /\ BatchesStay /\ KeysStay /\ SentStays /\ ResultsStay
         /\ DOMAIN heap' = DOMAIN heap
<1>1. \A x \in LoaderVars : x # "pending" => heap'[x] = heap[x]
  OBVIOUS
<1>2. \A x \in Cells, b \in Keys : heap'[Of(x, b)] = heap[Of(x, b)]
  BY <1>1, CellsDiffer
<1>3. Pending' = v
  BY CellsDiffer DEF Pending
<1> QED BY <1>2, <1>3 DEF BatchesStay, KeysStay, SentStays, ResultsStay, BatchOf, KeysIn, Sent, Results, Cells

LEMMA SetsCell ==
  ASSUME DOMAIN heap = LoaderVars, NEW x \in Cells, NEW b \in Keys, NEW v, heap' = [heap EXCEPT ![Of(x, b)] = v]
  PROVE  /\ PendingStays /\ DOMAIN heap' = DOMAIN heap
         /\ IF x = "batch" THEN BatchOf(b)' = v /\ \A a \in Keys \ {b} : BatchOf(a)' = BatchOf(a) ELSE BatchesStay
         /\ IF x = "keys" THEN KeysIn(b)' = v /\ \A a \in Keys \ {b} : KeysIn(a)' = KeysIn(a) ELSE KeysStay
         /\ IF x = "sent" THEN Sent(b)' = v /\ \A a \in Keys \ {b} : Sent(a)' = Sent(a) ELSE SentStays
         /\ IF x = "results" THEN Results(b)' = v /\ \A a \in Keys \ {b} : Results(a)' = Results(a) ELSE ResultsStay
<1>1. heap'[Of(x, b)] = v
  BY CellsDiffer
<1>2. \A y \in Cells, a \in Keys : y # x \/ a # b => heap'[Of(y, a)] = heap[Of(y, a)]
  <2> SUFFICES ASSUME NEW y \in Cells, NEW a \in Keys, y # x \/ a # b
               PROVE  heap'[Of(y, a)] = heap[Of(y, a)]
    OBVIOUS
  <2>1. Of(y, a) # Of(x, b) /\ Of(y, a) \in LoaderVars
    BY CellsDiffer
  <2> QED BY <2>1
<1>3. PendingStays
  BY CellsDiffer DEF PendingStays, Pending
<1>4. IF x = "batch" THEN BatchOf(b)' = v /\ \A a \in Keys \ {b} : BatchOf(a)' = BatchOf(a) ELSE BatchesStay
  BY <1>1, <1>2 DEF BatchesStay, BatchOf, Cells
<1>5. IF x = "keys" THEN KeysIn(b)' = v /\ \A a \in Keys \ {b} : KeysIn(a)' = KeysIn(a) ELSE KeysStay
  BY <1>1, <1>2 DEF KeysStay, KeysIn, Cells
<1>6. IF x = "sent" THEN Sent(b)' = v /\ \A a \in Keys \ {b} : Sent(a)' = Sent(a) ELSE SentStays
  BY <1>1, <1>2 DEF SentStays, Sent, Cells
<1>7. IF x = "results" THEN Results(b)' = v /\ \A a \in Keys \ {b} : Results(a)' = Results(a) ELSE ResultsStay
  BY <1>1, <1>2 DEF ResultsStay, Results, Cells
<1> QED BY <1>3, <1>4, <1>5, <1>6, <1>7

LEMMA CellsKept ==
  ASSUME LoaderCells, buf' = buf, DOMAIN lock' = DOMAIN lock, DOMAIN wg' = DOMAIN wg, DOMAIN heap' = DOMAIN heap,
         Pending' \in 0 .. 3, \A k \in Keys : BatchOf(k)' \in 0 .. 3
  PROVE  LoaderCells'
BY DEF LoaderCells

-----------------------------------------------------------------------------
(* The batching cache: the mutex and the wait group.                       *)

\* Nobody else is in a section l.mu guards.
Alone(c)      == (\A d \in Callers \ {c} : Stage(d) \notin LoadMu) /\ \A b \in Keys : Flush(b) \notin FlushMu
AloneTimer(b) == (\A d \in Callers : Stage(d) \notin LoadMu) /\ \A a \in Keys \ {b} : Flush(a) \notin FlushMu

LEMMA HeldOnce ==
  ASSUME NEW g, NEW h, Held(g, 0) = Held(h, 0)
  PROVE  g = h
BY DEF Held

LEMMA CallerAlone ==
  ASSUME LoaderMu, NEW c \in Callers, Stage(c) \in LoadMu
  PROVE  Alone(c) /\ lock["mu"] = Held(c, 0)
BY HeldOnce, TimersAre DEF LoaderMu, Alone

LEMMA TimerAlone ==
  ASSUME LoaderMu, NEW b \in Keys, Flush(b) \in FlushMu
  PROVE  AloneTimer(b) /\ lock["mu"] = Held(Of("flush", b), 0)
<1>1. lock["mu"] = Held(Of("flush", b), 0)
  BY DEF LoaderMu
<1>2. \A d \in Callers : Stage(d) \notin LoadMu
  BY <1>1, HeldOnce, TimersAre DEF LoaderMu
<1>3. \A a \in Keys \ {b} : Flush(a) \notin FlushMu
  BY <1>1, HeldOnce, TimersAre DEF LoaderMu
<1> QED BY <1>1, <1>2, <1>3 DEF AloneTimer

LEMMA HeldIsLocked ==
  ASSUME NEW g, g # None, lock["mu"] = Held(g, 0)
  PROVE  ~Unlocked("mu")
BY DEF Unlocked, Held

LEMMA NobodyIn ==
  ASSUME LoaderMu, Unlocked("mu")
  PROVE  (\A d \in Callers : Stage(d) \notin LoadMu) /\ \A b \in Keys : Flush(b) \notin FlushMu
<1>1. \A d \in Callers : lock["mu"] # Held(d, 0)
  BY HeldIsLocked, TimersAre
<1>2. \A b \in Keys : lock["mu"] # Held(Of("flush", b), 0)
  BY HeldIsLocked, TimersAre
<1> QED BY <1>1, <1>2 DEF LoaderMu

CallerMu(c) ==
  \/ lock' = lock /\ (Stage(c)' \in LoadMu => Stage(c) \in LoadMu)
  \/ Unlocked("mu") /\ lock' = [lock EXCEPT !["mu"] = Held(c, 0)]
  \/ Stage(c) \in LoadMu /\ Stage(c)' \notin LoadMu /\ lock' = [lock EXCEPT !["mu"] = Released("mu")]
TimerMu(b) ==
  \/ lock' = lock /\ (Flush(b)' \in FlushMu => Flush(b) \in FlushMu)
  \/ Unlocked("mu") /\ lock' = [lock EXCEPT !["mu"] = Held(Of("flush", b), 0)]
  \/ Flush(b) \in FlushMu /\ Flush(b)' \notin FlushMu /\ lock' = [lock EXCEPT !["mu"] = Released("mu")]

LEMMA CallerMuKeeps ==
  ASSUME LoaderMu, DOMAIN lock = Mutexes, NEW c \in Callers, OthersStay(c), TimersStay, CallerMu(c)
  PROVE  LoaderMu' /\ DOMAIN lock' = DOMAIN lock
<1>1. \A d \in Callers \ {c} : Stage(d)' = Stage(d)
  BY DEF OthersStay, CallerStays
<1>2. \A b \in Keys : Flush(b)' = Flush(b)
  BY DEF TimersStay, TimerStays
<1>3. CASE lock' = lock /\ (Stage(c)' \in LoadMu => Stage(c) \in LoadMu)
  BY <1>1, <1>2, <1>3 DEF LoaderMu
<1>4. CASE Unlocked("mu") /\ lock' = [lock EXCEPT !["mu"] = Held(c, 0)]
  <2>1. lock'["mu"] = Held(c, 0)
    BY <1>4 DEF Mutexes
  <2> QED BY <1>1, <1>2, <1>4, <2>1, NobodyIn DEF LoaderMu
<1>5. CASE Stage(c) \in LoadMu /\ Stage(c)' \notin LoadMu /\ lock' = [lock EXCEPT !["mu"] = Released("mu")]
  <2>1. Alone(c)
    BY <1>5, CallerAlone
  <2> QED BY <1>1, <1>2, <1>5, <2>1 DEF LoaderMu, Alone
<1> QED BY <1>3, <1>4, <1>5 DEF CallerMu

LEMMA TimerMuKeeps ==
  ASSUME LoaderMu, DOMAIN lock = Mutexes, NEW b \in Keys, CallersStay, \A a \in Keys \ {b} : TimerStays(a), TimerMu(b)
  PROVE  LoaderMu' /\ DOMAIN lock' = DOMAIN lock
<1>1. \A d \in Callers : Stage(d)' = Stage(d)
  BY DEF CallersStay, CallerStays
<1>2. \A a \in Keys \ {b} : Flush(a)' = Flush(a)
  BY DEF TimerStays
<1>3. CASE lock' = lock /\ (Flush(b)' \in FlushMu => Flush(b) \in FlushMu)
  BY <1>1, <1>2, <1>3 DEF LoaderMu
<1>4. CASE Unlocked("mu") /\ lock' = [lock EXCEPT !["mu"] = Held(Of("flush", b), 0)]
  <2>1. lock'["mu"] = Held(Of("flush", b), 0)
    BY <1>4 DEF Mutexes
  <2> QED BY <1>1, <1>2, <1>4, <2>1, NobodyIn DEF LoaderMu
<1>5. CASE Flush(b) \in FlushMu /\ Flush(b)' \notin FlushMu /\ lock' = [lock EXCEPT !["mu"] = Released("mu")]
  <2>1. AloneTimer(b)
    BY <1>5, TimerAlone
  <2> QED BY <1>1, <1>2, <1>5, <2>1 DEF LoaderMu, AloneTimer
<1> QED BY <1>3, <1>4, <1>5 DEF TimerMu

LEMMA CountStays ==
  ASSUME CallersCounted, wg' = wg, (pc'["main"] = "start") <=> (pc["main"] = "start"),
         \A c \in Callers : (Stage(c)' = "end") <=> (Stage(c) = "end")
  PROVE  CallersCounted'
<1>1. \A c \in Callers : Unreturned(c)' = Unreturned(c)
  BY DEF Unreturned
<1>2. Unreturned("c1")' = Unreturned("c1") /\ Unreturned("c2")' = Unreturned("c2") /\ Unreturned("c3")' = Unreturned("c3")
  BY <1>1 DEF Callers
<1> QED BY <1>2 DEF CallersCounted

\* A caller's turn, and a timer's or a full batch's, keep the order of the whole.
LEMMA CallerTurn ==
  ASSUME Orderly, NEW c \in Callers, Stage(c) \notin {"idle", "end"}, NEW l \in DOMAIN StageOf, StageOf[l] # "end",
         Goto(c, l), OnlyHas(c), CallerMu(c), wg' = wg, buf' = buf, DOMAIN heap' = DOMAIN heap,
         Pending' \in 0 .. 3, \A k \in Keys : BatchOf(k)' \in 0 .. 3
  PROVE  Orderly'
<1>1. /\ Stage(c)' = StageOf[l] /\ OthersStay(c) /\ TimersStay /\ pc'["main"] = pc["main"] /\ LoaderLabels'
  BY OnlyCaller DEF Orderly
<1>2. LoaderMu' /\ DOMAIN lock' = DOMAIN lock
  BY <1>1, CallerMuKeeps DEF Orderly, LoaderCells
<1>3. LoaderCells'
  BY <1>2, CellsKept DEF Orderly
<1>4. CallersCounted'
  BY <1>1, CountStays DEF Orderly, OthersStay, CallerStays
<1> QED BY <1>1, <1>2, <1>3, <1>4 DEF Orderly

LEMMA TimerTurn ==
  ASSUME Orderly, NEW b \in Keys, NEW g \in {Of("flush", b), Of("run", b)}, NEW l, Goto(g, l), OnlyHas(g),
         g = Of("flush", b) => l \in FlushLabels, g = Of("run", b) => l \in RunnerLabels,
         TimerMu(b), wg' = wg, buf' = buf, DOMAIN heap' = DOMAIN heap,
         Pending' \in 0 .. 3, BatchesStay
  PROVE  Orderly'
<1>1. /\ CallersStay /\ (\A a \in Keys \ {b} : TimerStays(a)) /\ pc'["main"] = pc["main"] /\ LoaderLabels'
  BY OnlyTimer DEF Orderly
<1>2. LoaderMu' /\ DOMAIN lock' = DOMAIN lock
  BY <1>1, TimerMuKeeps DEF Orderly, LoaderCells
<1>3. LoaderCells'
  BY <1>2, CellsKept DEF Orderly, LoaderCells, BatchesStay
<1>4. CallersCounted'
  BY <1>1, CountStays DEF Orderly, CallersStay, CallerStays
<1> QED BY <1>1, <1>2, <1>3, <1>4 DEF Orderly

-----------------------------------------------------------------------------
(* The batching cache: what is known stays known.                          *)

LEMMA NumberedStage ==
  ASSUME LoaderLabels, NEW c \in Callers, Stage(c) \in Numbers
  PROVE  Batch(c) \in Keys /\ pc[c] = Of(Stage(c), Batch(c))
BY NumberOf DEF LoaderLabels, Stage, Batch

LEMMA ListIsSum ==
  ASSUME NEW keyOf, KeysFit(keyOf), NEW b \in Keys
  PROVE  KeysIn(b) \in 0 .. 6
<1>1. /\ Share(keyOf, 1, b) \in {0, 1} /\ Share(keyOf, 2, b) \in {0, 2} /\ Share(keyOf, 3, b) \in {0, 4}
  BY ThreeKeys DEF Share
<1> QED BY <1>1 DEF KeysFit

\* A caller outside the mutex knows only that its key is written down.
LEMMA OutsideKnows ==
  ASSUME NEW keyOf, NEW d \in Callers, NEW k \in Keys, Knows(keyOf, d, k), CallerStays(d), Stage(d) \notin LoadMu,
         Stage(d) \in Numbers => Batch(d) \in Keys,
         \A b \in Keys : Written(keyOf, k, b) => Written(keyOf, k, b)', DonesKept
  PROVE  Knows(keyOf, d, k)'
<1>1. Stage(d)' = Stage(d) /\ Batch(d)' = Batch(d) /\ val'[d] = val[d]
  BY DEF CallerStays
<1>2. PICK b : b = Batch(d)
  OBVIOUS
<1>3. Stage(d) \in {"wait", "read"} => Written(keyOf, k, b)'
  BY <1>2 DEF Knows, Numbers
<1>4. Stage(d) \in {"wait", "read"} => Written(keyOf, k, Batch(d))'
  BY <1>1, <1>2, <1>3 DEF Written
<1>5. Stage(d) = "read" => Done(b)'
  BY <1>2 DEF Knows, Numbers, DonesKept
<1>6. Stage(d) = "read" => Done(Batch(d))'
  BY <1>1, <1>2, <1>5 DEF Done
<1> QED BY <1>1, <1>4, <1>6 DEF Knows, LoadMu

\* A caller knows what it knew when the cells are as they were.
LEMMA KnowsStays ==
  ASSUME NEW keyOf, NEW d \in Callers, NEW k \in Keys, Knows(keyOf, d, k), CallerStays(d), LoaderLabels,
         PendingStays, BatchesStay, SentStays, DonesKept, Half(keyOf, k)' <=> Half(keyOf, k)
  PROVE  Knows(keyOf, d, k)'
<1>1. Stage(d)' = Stage(d) /\ Batch(d)' = Batch(d) /\ val'[d] = val[d]
  BY DEF CallerStays
<1>2. BatchOf(k)' = BatchOf(k) /\ Pending' = Pending
  BY DEF BatchesStay, PendingStays
<1>3. Stage(d) = "clear" => Sent(Batch(d))' = Sent(Batch(d))
  <2>1. SUFFICES ASSUME Stage(d) = "clear" PROVE Sent(Batch(d))' = Sent(Batch(d))
    OBVIOUS
  <2>2. PICK b \in Keys : b = Batch(d)
    BY <2>1, NumberedStage DEF Numbers
  <2>3. Sent(b)' = Sent(b)
    BY DEF SentStays
  <2> QED BY <1>1, <2>2, <2>3 DEF Sent
<1>4. Written(keyOf, k, Batch(d))' <=> Written(keyOf, k, Batch(d))
  BY <1>1, <1>2 DEF Written
<1>5. Stage(d) = "read" => Done(Batch(d))'
  <2>1. SUFFICES ASSUME Stage(d) = "read" PROVE Done(Batch(d))'
    OBVIOUS
  <2>2. PICK b \in Keys : b = Batch(d)
    BY <2>1, NumberedStage DEF Numbers
  <2>3. Done(b)'
    BY <2>1, <2>2 DEF Knows, DonesKept
  <2> QED BY <1>1, <2>2, <2>3 DEF Done
<1> QED BY <1>1, <1>2, <1>3, <1>4, <1>5 DEF Knows

LEMMA KeysStayFit ==
  ASSUME NEW keyOf, KeysFit(keyOf), KeysStay, BatchesStay, \A k \in Keys : Half(keyOf, k)' <=> Half(keyOf, k)
  PROVE  KeysFit(keyOf)'
<1>1. \A k, b \in Keys : Share(keyOf, k, b)' = Share(keyOf, k, b)
  BY DEF Share, Written, BatchesStay
<1> QED BY <1>1, ThreeKeys DEF KeysFit, KeysStay

\* Steps that send no batch, put no key into one and open none.
LEMMA CallerQuiet ==
  ASSUME NEW keyOf, keyOf \in [Callers -> Keys], Sound(keyOf), LoaderLabels, NEW c \in Callers,
         OthersStay(c), TimersStay, CellsStay, DoneStays,
         Stage(c) \notin {"after", "add", "key", "full", "send", "clear", "go"},
         Stage(c)' \notin {"after", "key", "full", "send", "clear", "go"},
         Knows(keyOf, c, keyOf[c])'
  PROVE  Sound(keyOf)'
<1>1. /\ PendingStays /\ BatchesStay /\ KeysStay /\ SentStays /\ ResultsStay
      /\ \A d \in Callers \ {c} : Stage(d)' = Stage(d) /\ Batch(d)' = Batch(d)
      /\ \A b \in Keys : Flush(b)' = Flush(b) /\ Runner(b)' = Runner(b) /\ FlushHas(b)' = FlushHas(b) /\ RunnerHas(b)' = RunnerHas(b)
  BY DEF CellsStay, OthersStay, CallerStays, TimersStay, TimerStays
<1>2. \A k \in Keys : Half(keyOf, k)' <=> Half(keyOf, k)
  BY <1>1 DEF Half
<1>3. \A b \in Keys : Going(b)' <=> Going(b)
  BY <1>1 DEF Going
<1>4. CallersKnow(keyOf)'
  BY <1>1, <1>2, KnowsStays DEF CallersKnow, Sound, OthersStay, DoneStays, DonesKept
<1>5. KeysFit(keyOf)'
  BY <1>1, <1>2, KeysStayFit DEF Sound
<1>6. PendingFits'
  BY <1>1, <1>3 DEF PendingFits, Sound, PendingStays, SentStays, KeysStay
<1>7. FreshFits(keyOf)'
  <2>1. \A k \in Keys : Fresh(keyOf, k)' => Fresh(keyOf, k)
    BY <1>1 DEF Fresh, BatchesStay
  <2> QED BY <1>1, <2>1 DEF FreshFits, Sound, PendingStays, SentStays, BatchesStay
<1>8. RunsFit'
  <2>1. \A b \in Keys : (FlushRuns(b)' <=> FlushRuns(b)) /\ (RunRuns(b)' <=> RunRuns(b))
    BY <1>1 DEF FlushRuns, RunRuns
  <2> QED BY <1>1, <1>3, <2>1 DEF RunsFit, Sound, SentStays, KeysStay, ResultsStay, DoneStays
<1> QED BY <1>4, <1>5, <1>6, <1>7, <1>8 DEF Sound

\* Nobody moves, but for callers that are started.
LEMMA AllQuiet ==
  ASSUME NEW keyOf, keyOf \in [Callers -> Keys], Sound(keyOf), LoaderLabels, TimersStay, CellsStay, DoneStays,
         \A c \in Callers : CallerStays(c) \/ (Stage(c) = "idle" /\ Stage(c)' = "start")
  PROVE  Sound(keyOf)'
<1>1. /\ PendingStays /\ BatchesStay /\ KeysStay /\ SentStays /\ ResultsStay
      /\ \A d \in Callers : (Stage(d)' = Stage(d) /\ Batch(d)' = Batch(d)) \/ (Stage(d) = "idle" /\ Stage(d)' = "start")
      /\ \A b \in Keys : Flush(b)' = Flush(b) /\ Runner(b)' = Runner(b) /\ FlushHas(b)' = FlushHas(b) /\ RunnerHas(b)' = RunnerHas(b)
  BY DEF CellsStay, CallerStays, TimersStay, TimerStays
<1>2. \A k \in Keys : Half(keyOf, k)' <=> Half(keyOf, k)
  BY <1>1 DEF Half
<1>3. \A b \in Keys : Going(b)' <=> Going(b)
  BY <1>1 DEF Going
<1>4. CallersKnow(keyOf)'
  <2> SUFFICES ASSUME NEW c \in Callers PROVE Knows(keyOf, c, keyOf[c])'
    BY DEF CallersKnow
  <2>1. CASE CallerStays(c)
    BY <1>1, <1>2, <2>1, KnowsStays DEF CallersKnow, Sound, DoneStays, DonesKept
  <2>2. CASE Stage(c)' = "start"
    BY <2>2 DEF Knows
  <2> QED BY <2>1, <2>2
<1>5. KeysFit(keyOf)'
  BY <1>1, <1>2, KeysStayFit DEF Sound
<1>6. PendingFits'
  <2>1. (\E c \in Callers : Stage(c)' \in {"full", "send", "clear"}) <=> \E c \in Callers : Stage(c) \in {"full", "send", "clear"}
    BY <1>1
  <2> QED BY <1>1, <1>3, <2>1 DEF PendingFits, Sound, PendingStays, SentStays, KeysStay
<1>7. FreshFits(keyOf)'
  <2>1. \A k \in Keys : Fresh(keyOf, k)' => Fresh(keyOf, k)
    BY <1>1 DEF Fresh, BatchesStay
  <2> QED BY <1>1, <2>1 DEF FreshFits, Sound, PendingStays, SentStays, BatchesStay
<1>8. RunsFit'
  <2>1. \A b \in Keys : (FlushRuns(b)' <=> FlushRuns(b)) /\ (RunRuns(b)' <=> RunRuns(b))
    BY <1>1 DEF FlushRuns, RunRuns
  <2> QED BY <1>1, <1>3, <2>1 DEF RunsFit, Sound, SentStays, KeysStay, ResultsStay, DoneStays
<1> QED BY <1>4, <1>5, <1>6, <1>7, <1>8 DEF Sound

\* A timer or a full batch goes on: it takes the keys it was sent with, writes
\* what it got, says that it is done, or looks whether there is anything to do.
Quiet(b) ==
  /\ CallersStay /\ PendingStays /\ BatchesStay /\ KeysStay /\ SentStays
  /\ \A a \in Keys \ {b} : TimerStays(a) /\ Results(a)' = Results(a) /\ (Done(a)' <=> Done(a))
  /\ FlushRuns(b)' => FlushRuns(b)
  /\ RunRuns(b)' => RunRuns(b)
  /\ Flush(b)' = "pending" <=> Flush(b) = "pending"
  /\ Flush(b) = "idle" => Flush(b)' = "idle"
  /\ Flush(b)' = "sent" => Sent(b) = 0
  /\ Flush(b)' \in {"fetch", "rows"} => FlushHas(b)' = KeysIn(b)
  /\ Runner(b)' \in {"fetch", "rows"} => RunnerHas(b)' = KeysIn(b)
  /\ Results(b)' \in {Results(b), Failed} \/ (Sent(b) = 1 /\ Results(b)' = KeysIn(b))
  /\ Done(b) => Done(b)'
  /\ Done(b)' => Done(b) \/ (Sent(b) = 1 /\ ~FlushRuns(b)' /\ ~RunRuns(b)' /\ ~Going(b))

LEMMA TimerQuiet ==
  ASSUME NEW keyOf, keyOf \in [Callers -> Keys], Sound(keyOf), LoaderLabels, NEW b \in Keys, Quiet(b)
  PROVE  Sound(keyOf)'
<1>1. /\ PendingStays /\ BatchesStay /\ KeysStay /\ SentStays
      /\ \A d \in Callers : CallerStays(d) /\ Stage(d)' = Stage(d) /\ Batch(d)' = Batch(d)
      /\ \A a \in Keys \ {b} : /\ Flush(a)' = Flush(a) /\ Runner(a)' = Runner(a)
                               /\ FlushHas(a)' = FlushHas(a) /\ RunnerHas(a)' = RunnerHas(a)
  BY DEF Quiet, CallersStay, CallerStays, TimerStays
<1>2. \A k \in Keys : Half(keyOf, k)' <=> Half(keyOf, k)
  BY <1>1 DEF Half
<1>3. \A a \in Keys : Going(a)' <=> Going(a)
  BY <1>1 DEF Going
<1>4. CallersKnow(keyOf)'
  <2>1. DonesKept
    BY DEF Quiet, DonesKept
  <2> QED BY <1>1, <1>2, <2>1, KnowsStays DEF CallersKnow, Sound
<1>5. KeysFit(keyOf)'
  BY <1>1, <1>2, KeysStayFit DEF Sound
<1>6. PendingFits'
  <2>1. (\E a \in Keys : Flush(a)' = "pending") <=> \E a \in Keys : Flush(a) = "pending"
    BY <1>1 DEF Quiet
  <2> QED BY <1>1, <1>3, <2>1 DEF PendingFits, Sound, PendingStays, SentStays, KeysStay
<1>7. FreshFits(keyOf)'
  <2>1. \A k \in Keys : Fresh(keyOf, k)' => Fresh(keyOf, k)
    BY <1>1 DEF Fresh, BatchesStay
  <2>2. \A a \in Keys : Flush(a) = "idle" => Flush(a)' = "idle"
    BY <1>1 DEF Quiet
  <2> QED BY <1>1, <2>1, <2>2 DEF FreshFits, Sound, PendingStays, SentStays, BatchesStay
<1>8. RunsFit'
  <2>1. \A a \in Keys \ {b} : (FlushRuns(a)' <=> FlushRuns(a)) /\ (RunRuns(a)' <=> RunRuns(a))
    BY <1>1 DEF FlushRuns, RunRuns
  <2> SUFFICES ASSUME NEW a \in Keys
      PROVE  /\ FlushRuns(a)' \/ RunRuns(a)' \/ Going(a)' => Sent(a)' = 1 /\ ~Done(a)'
             /\ ~(FlushRuns(a)' /\ RunRuns(a)') /\ ~(FlushRuns(a)' /\ Going(a)') /\ ~(RunRuns(a)' /\ Going(a)')
             /\ Sent(a)' \in {0, 1} /\ (Sent(a)' = 0 => ~Done(a)')
             /\ Flush(a)' = "sent" => Sent(a)' = 0
             /\ Flush(a)' \in {"fetch", "rows"} => FlushHas(a)' = KeysIn(a)'
             /\ Runner(a)' \in {"fetch", "rows"} => RunnerHas(a)' = KeysIn(a)'
             /\ Results(a)' = Failed \/ (Sent(a)' = 1 /\ Results(a)' = KeysIn(a)')
    BY DEF RunsFit
  <2>2. Sent(a)' = Sent(a) /\ KeysIn(a)' = KeysIn(a) /\ (Going(a)' <=> Going(a))
    BY <1>1, <1>3 DEF SentStays, KeysStay
  <2>3. CASE a = b
    BY <2>2, <2>3 DEF Quiet, RunsFit, Sound
  <2>4. CASE a # b
    BY <1>1, <2>1, <2>2, <2>4 DEF Quiet, RunsFit, Sound
  <2> QED BY <2>3, <2>4
<1> QED BY <1>4, <1>5, <1>6, <1>7, <1>8 DEF Sound

\* What a step of caller c in its section leaves as it was, but for the cells it
\* writes: everyone else is outside.
LEMMA InSection ==
  ASSUME NEW keyOf, keyOf \in [Callers -> Keys], LoaderLabels, Sound(keyOf), NEW c \in Callers, Alone(c), OthersStay(c)
  PROVE  /\ \A d \in Callers \ {c} : Stage(d) \notin LoadMu /\ Stage(d)' \notin LoadMu /\ Batch(d)' = Batch(d)
         /\ \A b \in Keys : Flush(b) \notin {"sent", "pending"}
         /\ \A k \in Keys : Half(keyOf, k) <=> (keyOf[c] = k /\ Stage(c) = "key")
         /\ \A k \in Keys : Half(keyOf, k)' <=> (keyOf[c] = k /\ Stage(c)' = "key")
         /\ \A b \in Keys : Going(b) <=> (Stage(c) \in {"clear", "go"} /\ Batch(c) = b)
         /\ \A b \in Keys : Going(b)' <=> (Stage(c)' \in {"clear", "go"} /\ Batch(c)' = b)
<1>1. \A d \in Callers \ {c} : Stage(d) \notin LoadMu /\ Stage(d)' \notin LoadMu /\ Batch(d)' = Batch(d)
  BY DEF Alone, OthersStay, CallerStays
<1>2. \A d \in Callers \ {c} : Stage(d) \notin {"key", "clear", "go"} /\ Stage(d)' \notin {"key", "clear", "go"}
  BY <1>1 DEF LoadMu
<1>3. \A b \in Keys : Flush(b) \notin {"sent", "pending"}
  BY DEF Alone, FlushMu
<1>4. \A k \in Keys : Half(keyOf, k) <=> (keyOf[c] = k /\ Stage(c) = "key")
  BY <1>2 DEF Half
<1>5. \A k \in Keys : Half(keyOf, k)' <=> (keyOf[c] = k /\ Stage(c)' = "key")
  BY <1>2 DEF Half
<1>6. \A b \in Keys : Going(b) <=> (Stage(c) \in {"clear", "go"} /\ Batch(c) = b)
  BY <1>2 DEF Going
<1>7. \A b \in Keys : Going(b)' <=> (Stage(c)' \in {"clear", "go"} /\ Batch(c)' = b)
  BY <1>2 DEF Going
<1> QED BY <1>1, <1>3, <1>4, <1>5, <1>6, <1>7

LEMMA OthersKnow ==
  ASSUME NEW keyOf, keyOf \in [Callers -> Keys], LoaderLabels, Sound(keyOf), NEW c \in Callers, Alone(c), OthersStay(c),
         \A k, b \in Keys : Written(keyOf, k, b) => Written(keyOf, k, b)', DoneStays,
         Knows(keyOf, c, keyOf[c])'
  PROVE  CallersKnow(keyOf)'
<1> SUFFICES ASSUME NEW d \in Callers PROVE Knows(keyOf, d, keyOf[d])'
  BY DEF CallersKnow
<1>1. CASE d = c
  BY <1>1
<1>2. CASE d # c
  <2>1. Stage(d) \notin LoadMu /\ CallerStays(d)
    BY <1>2 DEF Alone, OthersStay
  <2>2. PICK k \in Keys : k = keyOf[d]
    OBVIOUS
  <2>3. Knows(keyOf, d, k)
    BY <2>2 DEF Sound, CallersKnow
  <2>4. Stage(d) \in Numbers => Batch(d) \in Keys
    BY NumberedStage
  <2>5. Knows(keyOf, d, k)'
    BY <2>1, <2>3, <2>4, OutsideKnows DEF DoneStays, DonesKept
  <2> QED BY <2>2, <2>5
<1> QED BY <1>1, <1>2

\* Timers and full batches that stay, whose lists and answers stay too.
LEMMA RunsStayFit ==
  ASSUME RunsFit, TimersStay, KeysStay, SentStays, ResultsStay, DoneStays, \A b \in Keys : Going(b)' <=> Going(b)
  PROVE  RunsFit'
<1>1. \A b \in Keys : /\ Flush(b)' = Flush(b) /\ Runner(b)' = Runner(b)
                      /\ FlushHas(b)' = FlushHas(b) /\ RunnerHas(b)' = RunnerHas(b)
  BY DEF TimersStay, TimerStays
<1>2. \A b \in Keys : (FlushRuns(b)' <=> FlushRuns(b)) /\ (RunRuns(b)' <=> RunRuns(b))
  BY <1>1 DEF FlushRuns, RunRuns
<1> QED BY <1>1, <1>2 DEF RunsFit, SentStays, KeysStay, ResultsStay, DoneStays

\* enqueue opens a batch for its key.
LEMMA CallerOpens ==
  ASSUME NEW keyOf, keyOf \in [Callers -> Keys], LoaderLabels, Sound(keyOf), NEW c \in Callers, Alone(c), OthersStay(c),
         TimersStay, BatchesStay, KeysStay, SentStays, ResultsStay, DoneStays,
         Stage(c) = "open", Stage(c)' = "after", Pending' = keyOf[c]
  PROVE  Sound(keyOf)'
<1> DEFINE k == keyOf[c]
<1>1. k \in Keys /\ BatchOf(k) = 0 /\ Pending' = k
  BY DEF Sound, CallersKnow, Knows
<1> HIDE DEF k
<1>2. Fresh(keyOf, k)
  <2>1. \A d \in Callers \ {c} : Stage(d) \notin {"after", "add"}
    BY InSection DEF LoadMu
  <2> QED BY <1>1, <2>1 DEF Fresh
<1>3. Sent(k) = 0 /\ \A j \in Keys : BatchOf(j) # k
  BY <1>1, <1>2 DEF Sound, FreshFits
<1>4. KeysIn(k) = 0
  <2>1. Share(keyOf, 1, k) = 0 /\ Share(keyOf, 2, k) = 0 /\ Share(keyOf, 3, k) = 0
    BY <1>3, ThreeKeys DEF Share, Written
  <2> QED BY <1>1, <2>1 DEF Sound, KeysFit
<1>5. \A j \in Keys : Half(keyOf, j)' <=> Half(keyOf, j)
  BY InSection
<1>6. \A j, b \in Keys : Written(keyOf, j, b)' <=> Written(keyOf, j, b)
  BY <1>5 DEF Written, BatchesStay
<1>7. \A b \in Keys : Going(b)' <=> Going(b)
  BY InSection
<1>8. CallersKnow(keyOf)'
  <2>1. BatchOf(k)' = 0
    BY <1>1 DEF BatchesStay
  <2>2. Knows(keyOf, c, k)'
    BY <1>1, <2>1 DEF Knows
  <2> QED BY <1>6, <2>2, OthersKnow DEF k
<1>9. KeysFit(keyOf)'
  BY <1>5, KeysStayFit DEF Sound
<1>10. PendingFits'
  BY <1>1, <1>3, <1>4 DEF PendingFits, SentStays, KeysStay, OneKey
<1>11. FreshFits(keyOf)'
  <2> SUFFICES ASSUME NEW j \in Keys, Fresh(keyOf, j)'
      PROVE  Sent(j)' = 0 /\ Pending' # j /\ Flush(j)' = "idle" /\ \A i \in Keys : BatchOf(i)' # j
    BY DEF FreshFits
  <2>1. j # k
    BY DEF Fresh, k
  <2>2. Fresh(keyOf, j)
    BY InSection DEF Fresh, BatchesStay, OthersStay, CallerStays
  <2> QED BY <1>1, <2>1, <2>2 DEF Sound, FreshFits, SentStays, BatchesStay, TimersStay, TimerStays
<1>12. RunsFit'
  BY <1>7, RunsStayFit DEF Sound
<1> QED BY <1>8, <1>9, <1>10, <1>11, <1>12 DEF Sound

\* enqueue starts the batch's timer.
LEMMA CallerStartsTimer ==
  ASSUME NEW keyOf, keyOf \in [Callers -> Keys], LoaderLabels, Sound(keyOf), NEW c \in Callers, Alone(c), OthersStay(c),
         CellsStay, DoneStays, Stage(c) = "after", Stage(c)' = "add", Batch(c)' = keyOf[c],
         Flush(keyOf[c])' = "start", \A b \in Keys : b # keyOf[c] => Flush(b)' = Flush(b),
         \A b \in Keys : Runner(b)' = Runner(b) /\ FlushHas(b)' = FlushHas(b) /\ RunnerHas(b)' = RunnerHas(b)
  PROVE  Sound(keyOf)'
<1> DEFINE k == keyOf[c]
<1>1. k \in Keys /\ BatchOf(k) = 0 /\ Pending = k /\ Batch(c)' = k
  BY DEF Sound, CallersKnow, Knows
<1>2. Flush(k)' = "start" /\ \A b \in Keys : b # k => Flush(b)' = Flush(b)
  OBVIOUS
<1> HIDE DEF k
<1>3. PendingStays /\ BatchesStay /\ KeysStay /\ SentStays /\ ResultsStay
  BY DEF CellsStay
<1>5. \A j \in Keys : Half(keyOf, j)' <=> Half(keyOf, j)
  BY InSection
<1>6. \A j, b \in Keys : Written(keyOf, j, b)' <=> Written(keyOf, j, b)
  BY <1>3, <1>5 DEF Written, BatchesStay
<1>7. \A b \in Keys : Going(b)' <=> Going(b)
  BY InSection
<1>8. CallersKnow(keyOf)'
  <2>1. BatchOf(k)' = 0 /\ Pending' = k
    BY <1>1, <1>3 DEF BatchesStay, PendingStays
  <2>2. Knows(keyOf, c, k)'
    BY <1>1, <2>1 DEF Knows
  <2> QED BY <1>6, <2>2, OthersKnow DEF k
<1>9. KeysFit(keyOf)'
  BY <1>3, <1>5, KeysStayFit DEF Sound
<1>10. PendingFits'
  <2>1. \A d \in Callers : Stage(d) \notin {"full", "send", "clear"}
    BY InSection DEF LoadMu
  <2>2. \A a \in Keys : Flush(a) # "pending"
    BY InSection
  <2> QED BY <1>3, <1>7, <2>1, <2>2 DEF Sound, PendingFits, SentStays, KeysStay, PendingStays
<1>11. FreshFits(keyOf)'
  <2> SUFFICES ASSUME NEW j \in Keys, Fresh(keyOf, j)'
      PROVE  Sent(j)' = 0 /\ Pending' # j /\ Flush(j)' = "idle" /\ \A i \in Keys : BatchOf(i)' # j
    BY DEF FreshFits
  <2>1. j # k
    BY DEF Fresh, k
  <2>2. Fresh(keyOf, j)
    BY <1>3, <2>1 DEF Fresh, BatchesStay, OthersStay, CallerStays, k
  <2> QED BY <1>2, <1>3, <2>1, <2>2 DEF Sound, FreshFits, SentStays, BatchesStay, PendingStays
<1>12. RunsFit'
  <2>1. \A b \in Keys : b # k => (FlushRuns(b)' <=> FlushRuns(b))
    BY <1>2 DEF FlushRuns
  <2>2. ~FlushRuns(k)'
    BY <1>2 DEF FlushRuns, Fetching
  <2>3. \A b \in Keys : RunRuns(b)' <=> RunRuns(b)
    BY DEF RunRuns
  <2> SUFFICES ASSUME NEW b \in Keys
      PROVE  /\ FlushRuns(b)' \/ RunRuns(b)' \/ Going(b)' => Sent(b)' = 1 /\ ~Done(b)'
             /\ ~(FlushRuns(b)' /\ RunRuns(b)') /\ ~(FlushRuns(b)' /\ Going(b)') /\ ~(RunRuns(b)' /\ Going(b)')
             /\ Sent(b)' \in {0, 1} /\ (Sent(b)' = 0 => ~Done(b)')
             /\ Flush(b)' = "sent" => Sent(b)' = 0
             /\ Flush(b)' \in {"fetch", "rows"} => FlushHas(b)' = KeysIn(b)'
             /\ Runner(b)' \in {"fetch", "rows"} => RunnerHas(b)' = KeysIn(b)'
             /\ Results(b)' = Failed \/ (Sent(b)' = 1 /\ Results(b)' = KeysIn(b)')
    BY DEF RunsFit
  <2>4. Sent(b)' = Sent(b) /\ KeysIn(b)' = KeysIn(b) /\ Results(b)' = Results(b) /\ (Done(b)' <=> Done(b))
    BY <1>3 DEF SentStays, KeysStay, ResultsStay, DoneStays
  <2>5. CASE b = k
    BY <1>2, <1>7, <2>2, <2>3, <2>4, <2>5 DEF Sound, RunsFit
  <2>6. CASE b # k
    BY <1>2, <1>7, <2>1, <2>3, <2>4, <2>6 DEF Sound, RunsFit
  <2> QED BY <2>5, <2>6
<1> QED BY <1>8, <1>9, <1>10, <1>11, <1>12 DEF Sound

\* enqueue caches the batch for its key.
LEMMA CallerCaches ==
  ASSUME NEW keyOf, keyOf \in [Callers -> Keys], LoaderLabels, Sound(keyOf), NEW c \in Callers, Alone(c), OthersStay(c),
         TimersStay, PendingStays, KeysStay, SentStays, ResultsStay, DoneStays,
         Stage(c) = "add", Stage(c)' = "key", NEW b \in Keys, Batch(c) = b, Batch(c)' = b,
         BatchOf(keyOf[c])' = b, \A j \in Keys \ {keyOf[c]} : BatchOf(j)' = BatchOf(j)
  PROVE  Sound(keyOf)'
<1> DEFINE k == keyOf[c]
<1>1. k \in Keys /\ BatchOf(k) = 0 /\ Pending = b /\ BatchOf(k)' = b /\ \A j \in Keys : j # k => BatchOf(j)' = BatchOf(j)
  BY DEF Sound, CallersKnow, Knows
<1>2. b # 0
  BY ThreeKeys
<1>3. /\ \A j \in Keys : ~Half(keyOf, j)
      /\ \A j \in Keys : Half(keyOf, j)' <=> j = k
  BY InSection DEF k
<1> HIDE DEF k
<1>6. \A j, a \in Keys : Written(keyOf, j, a)' <=> Written(keyOf, j, a)
  <2> SUFFICES ASSUME NEW j \in Keys, NEW a \in Keys PROVE Written(keyOf, j, a)' <=> Written(keyOf, j, a)
    OBVIOUS
  <2>1. CASE j = k
    <3>1. a # 0
      BY ThreeKeys
    <3> QED BY <1>1, <1>3, <2>1, <3>1 DEF Written
  <2>2. CASE j # k
    BY <1>1, <1>3, <2>2 DEF Written
  <2> QED BY <2>1, <2>2
<1>7. \A a \in Keys : Going(a)' <=> Going(a)
  BY InSection
<1>8. CallersKnow(keyOf)'
  <2>1. Knows(keyOf, c, k)'
    BY <1>1 DEF Knows, PendingStays
  <2> QED BY <1>6, <2>1, OthersKnow DEF k
<1>9. KeysFit(keyOf)'
  <2>1. \A j, a \in Keys : Share(keyOf, j, a)' = Share(keyOf, j, a)
    BY <1>6 DEF Share
  <2> QED BY <2>1, ThreeKeys DEF Sound, KeysFit, KeysStay
<1>10. PendingFits'
  <2>1. \A d \in Callers : Stage(d) \notin {"full", "send", "clear"}
    BY InSection DEF LoadMu
  <2>2. \A a \in Keys : Flush(a)' = Flush(a)
    BY DEF TimersStay, TimerStays
  <2> QED BY <1>7, <2>1, <2>2 DEF Sound, PendingFits, SentStays, KeysStay, PendingStays
<1>11. FreshFits(keyOf)'
  <2> SUFFICES ASSUME NEW j \in Keys, Fresh(keyOf, j)'
      PROVE  Sent(j)' = 0 /\ Pending' # j /\ Flush(j)' = "idle" /\ \A i \in Keys : BatchOf(i)' # j
    BY DEF FreshFits
  <2>1. j # k
    BY <1>1, <1>2 DEF Fresh
  <2>2. Fresh(keyOf, j)
    BY <1>1, <2>1 DEF Fresh, OthersStay, CallerStays, k
  <2>3. Sent(j) = 0 /\ Pending # j /\ Flush(j) = "idle" /\ \A i \in Keys : BatchOf(i) # j
    BY <2>2 DEF Sound, FreshFits
  <2>4. \A i \in Keys : BatchOf(i)' # j
    BY <1>1, <2>3
  <2> QED BY <2>3, <2>4 DEF SentStays, PendingStays, TimersStay, TimerStays
<1>12. RunsFit'
  BY <1>7, RunsStayFit DEF Sound
<1> QED BY <1>8, <1>9, <1>10, <1>11, <1>12 DEF Sound

\* A caller about to put its key into the pending batch finds it unsent, with room.
LEMMA BatchIsOpen ==
  ASSUME NEW keyOf, keyOf \in [Callers -> Keys], LoaderLabels, Sound(keyOf), NEW c \in Callers, Alone(c), OthersStay(c),
         NEW b \in Keys, Batch(c) = b, Stage(c) \in {"key", "full", "send"}
  PROVE  /\ Pending = b /\ Sent(b) = 0 /\ Results(b) = Failed
         /\ ~FlushRuns(b) /\ ~RunRuns(b) /\ ~Done(b)
         /\ Stage(c) = "key" => KeysIn(b) \in OneKey
<1>1. Pending = b
  BY DEF Sound, CallersKnow, Knows
<1>2. ~Going(b) /\ \A a \in Keys : Flush(a) # "pending"
  BY InSection
<1>3. Sent(b) = 0
  BY <1>1, <1>2 DEF Sound, PendingFits
<1>4. Results(b) = Failed /\ ~FlushRuns(b) /\ ~RunRuns(b) /\ ~Done(b)
  BY <1>3 DEF Sound, RunsFit
<1>5. ASSUME Stage(c) = "key" PROVE KeysIn(b) \in OneKey
  <2>1. \A d \in Callers : Stage(d) \notin {"full", "send", "clear"}
    BY <1>5, InSection DEF LoadMu
  <2> QED BY <1>1, <1>2, <2>1 DEF Sound, PendingFits
<1> QED BY <1>1, <1>3, <1>4, <1>5

\* enqueue puts the key into the batch's list.
LEMMA CallerLists ==
  ASSUME NEW keyOf, keyOf \in [Callers -> Keys], LoaderLabels, Sound(keyOf), NEW c \in Callers, Alone(c), OthersStay(c),
         TimersStay, PendingStays, BatchesStay, SentStays, ResultsStay, DoneStays,
         Stage(c) = "key", Stage(c)' = "full", NEW b \in Keys, Batch(c) = b, Batch(c)' = b,
         KeysIn(b)' = KeysIn(b) + Bit[keyOf[c]], \A a \in Keys \ {b} : KeysIn(a)' = KeysIn(a)
  PROVE  Sound(keyOf)'
<1> DEFINE k == keyOf[c]
<1>1. k \in Keys /\ BatchOf(k) = b /\ KeysIn(b)' = KeysIn(b) + Bit[k]
  BY DEF Sound, CallersKnow, Knows
<1>2. /\ Pending = b /\ Sent(b) = 0 /\ Results(b) = Failed
      /\ ~FlushRuns(b) /\ ~RunRuns(b) /\ ~Done(b) /\ KeysIn(b) \in OneKey
  BY BatchIsOpen
<1>3. /\ \A j \in Keys : Half(keyOf, j) <=> j = k
      /\ \A j \in Keys : ~Half(keyOf, j)'
  BY InSection DEF k
<1> HIDE DEF k
<1>5. \A j, a \in Keys : Written(keyOf, j, a)' <=> Written(keyOf, j, a) \/ (j = k /\ a = b)
  BY <1>1, <1>3 DEF Written, BatchesStay
<1>6. \A a \in Keys : ~Written(keyOf, k, a)
  BY <1>3, <1>1 DEF Written
<1>7. \A a \in Keys : Going(a)' <=> Going(a)
  BY InSection
<1>8. CallersKnow(keyOf)'
  <2>1. Written(keyOf, k, b)'
    BY <1>1, <1>5
  <2>2. Written(keyOf, k, Batch(c))'
    BY <2>1 DEF Written
  <2>3. Knows(keyOf, c, k)'
    BY <1>2, <2>2 DEF Knows, PendingStays
  <2> QED BY <1>5, <2>3, OthersKnow DEF k
<1>9. KeysFit(keyOf)'
  <2> SUFFICES ASSUME NEW a \in Keys
      PROVE  /\ KeysIn(a)' = Share(keyOf, 1, a)' + Share(keyOf, 2, a)' + Share(keyOf, 3, a)'
             /\ KeysIn(a)' # 7
    BY DEF KeysFit
  <2>1. KeysIn(a) = Share(keyOf, 1, a) + Share(keyOf, 2, a) + Share(keyOf, 3, a) /\ KeysIn(a) # 7
    BY DEF Sound, KeysFit
  <2>2. \A j \in Keys : Share(keyOf, j, a)' = IF j = k /\ a = b THEN Bit[k] ELSE Share(keyOf, j, a)
    BY <1>5 DEF Share
  <2>3. Share(keyOf, k, a) = 0
    BY <1>1, <1>6 DEF Share
  <2>4. CASE a # b
    BY <2>1, <2>2, <2>4, ThreeKeys
  <2>5. CASE a = b
    <3>1. KeysIn(b)' # 7
      BY <1>1, <1>2, ThreeKeys DEF OneKey
    <3>2. /\ Share(keyOf, 1, b) \in {0, 1} /\ Share(keyOf, 2, b) \in {0, 2} /\ Share(keyOf, 3, b) \in {0, 4}
      BY ThreeKeys DEF Share
    <3>3. k = 1 \/ k = 2 \/ k = 3
      BY <1>1, ThreeKeys
    <3>4. KeysIn(b)' = Share(keyOf, 1, b)' + Share(keyOf, 2, b)' + Share(keyOf, 3, b)'
      BY <1>1, <2>1, <2>2, <2>3, <2>5, <3>2, <3>3, ThreeKeys
    <3> QED BY <2>5, <3>1, <3>4
  <2> QED BY <2>4, <2>5
<1>10. PendingFits'
  BY <1>2 DEF PendingFits, SentStays, PendingStays
<1>11. FreshFits(keyOf)'
  <2>1. \A j \in Keys : Fresh(keyOf, j)' => Fresh(keyOf, j)
    BY DEF Fresh, BatchesStay, OthersStay, CallerStays
  <2> QED BY <2>1 DEF Sound, FreshFits, SentStays, BatchesStay, PendingStays, TimersStay, TimerStays
<1>12. RunsFit'
  <2>1. \A a \in Keys : /\ Flush(a)' = Flush(a) /\ Runner(a)' = Runner(a)
                        /\ FlushHas(a)' = FlushHas(a) /\ RunnerHas(a)' = RunnerHas(a)
    BY DEF TimersStay, TimerStays
  <2>2. \A a \in Keys : (FlushRuns(a)' <=> FlushRuns(a)) /\ (RunRuns(a)' <=> RunRuns(a))
    BY <2>1 DEF FlushRuns, RunRuns
  <2>3. Flush(b) \notin {"fetch", "rows"} /\ Runner(b) \notin {"fetch", "rows"}
    BY <1>2 DEF FlushRuns, RunRuns, Fetching
  <2> QED BY <1>2, <1>7, <2>1, <2>2, <2>3 DEF Sound, RunsFit, SentStays, ResultsStay, DoneStays
<1> QED BY <1>8, <1>9, <1>10, <1>11, <1>12 DEF Sound

\* enqueue looks whether the batch is full.
LEMMA CallerLooks ==
  ASSUME NEW keyOf, keyOf \in [Callers -> Keys], LoaderLabels, Sound(keyOf), NEW c \in Callers, Alone(c), OthersStay(c),
         TimersStay, CellsStay, DoneStays, NEW b \in Keys, Batch(c) = b, Batch(c)' = b,
         Stage(c) = "full", Stage(c)' = IF KeysIn(b) \in Full THEN "send" ELSE "leave"
  PROVE  Sound(keyOf)'
<1>1. PendingStays /\ BatchesStay /\ KeysStay /\ SentStays /\ ResultsStay
  BY DEF CellsStay
<1>2. Pending = b /\ Sent(b) = 0
  BY BatchIsOpen
<1>3. \A j \in Keys : Half(keyOf, j)' <=> Half(keyOf, j)
  BY InSection
<1>4. \A a \in Keys : Going(a)' <=> Going(a)
  BY InSection
<1>5. \A j, a \in Keys : Written(keyOf, j, a)' <=> Written(keyOf, j, a)
  BY <1>1, <1>3 DEF Written, BatchesStay
<1>6. CallersKnow(keyOf)'
  <2>1. PICK k \in Keys : k = keyOf[c]
    OBVIOUS
  <2>2. Written(keyOf, k, b)
    BY <2>1 DEF Sound, CallersKnow, Knows
  <2>3. Written(keyOf, k, b)'
    BY <1>5, <2>2
  <2>4. Written(keyOf, k, Batch(c))'
    BY <2>3 DEF Written
  <2>5. Knows(keyOf, c, k)'
    BY <1>1, <1>2, <2>4 DEF Knows, PendingStays
  <2> QED BY <1>5, <2>1, <2>5, OthersKnow
<1>7. KeysFit(keyOf)'
  BY <1>1, <1>3, KeysStayFit DEF Sound
<1>8. PendingFits'
  <2>1. KeysIn(b) \notin Full => KeysIn(b) \in OneKey
    <3>1. KeysIn(b) \in 0 .. 6
      BY ListIsSum DEF Sound
    <3> QED BY <3>1 DEF Full, OneKey
  <2>2. KeysIn(b)' \in OneKey \/ Stage(c)' = "send"
    BY <1>1, <2>1 DEF KeysStay
  <2> QED BY <1>1, <1>2, <2>2 DEF PendingFits, SentStays, PendingStays
<1>9. FreshFits(keyOf)'
  <2>1. \A j \in Keys : Fresh(keyOf, j)' => Fresh(keyOf, j)
    BY <1>1 DEF Fresh, BatchesStay, OthersStay, CallerStays
  <2> QED BY <1>1, <2>1 DEF Sound, FreshFits, SentStays, BatchesStay, PendingStays, TimersStay, TimerStays
<1>10. RunsFit'
  BY <1>1, <1>4, RunsStayFit DEF Sound
<1> QED BY <1>6, <1>7, <1>8, <1>9, <1>10 DEF Sound

\* enqueue marks a full batch as sent.
LEMMA CallerSends ==
  ASSUME NEW keyOf, keyOf \in [Callers -> Keys], LoaderLabels, Sound(keyOf), NEW c \in Callers, Alone(c), OthersStay(c),
         TimersStay, PendingStays, BatchesStay, KeysStay, ResultsStay, DoneStays,
         NEW b \in Keys, Batch(c) = b, Batch(c)' = b, Stage(c) = "send", Stage(c)' = "clear",
         Sent(b)' = 1, \A a \in Keys \ {b} : Sent(a)' = Sent(a)
  PROVE  Sound(keyOf)'
<1>1. Pending = b /\ Sent(b) = 0 /\ Results(b) = Failed /\ ~FlushRuns(b) /\ ~RunRuns(b) /\ ~Done(b)
  BY BatchIsOpen
<1>3. \A j \in Keys : Half(keyOf, j)' <=> Half(keyOf, j)
  BY InSection
<1>4. \A a \in Keys : ~Going(a) /\ (Going(a)' <=> a = b)
  BY InSection
<1>5. \A j, a \in Keys : Written(keyOf, j, a)' <=> Written(keyOf, j, a)
  BY <1>3 DEF Written, BatchesStay
<1>6. CallersKnow(keyOf)'
  <2>1. PICK k \in Keys : k = keyOf[c]
    OBVIOUS
  <2>2. Written(keyOf, k, b)
    BY <2>1 DEF Sound, CallersKnow, Knows
  <2>3. Written(keyOf, k, b)'
    BY <1>5, <2>2
  <2>4. Written(keyOf, k, Batch(c))'
    BY <2>3 DEF Written
  <2>a. Sent(Batch(c))' = 1
    BY DEF Sent
  <2>5. Knows(keyOf, c, k)'
    BY <1>1, <2>4, <2>a DEF Knows, PendingStays
  <2> QED BY <1>5, <2>1, <2>5, OthersKnow
<1>7. KeysFit(keyOf)'
  BY <1>3, KeysStayFit DEF Sound
<1>8. PendingFits'
  <2>1. \A a \in Keys : Pending' = a => a = b
    BY <1>1 DEF PendingStays
  <2> QED BY <1>4, <2>1 DEF PendingFits
<1>9. FreshFits(keyOf)'
  <2> SUFFICES ASSUME NEW j \in Keys, Fresh(keyOf, j)'
      PROVE  Sent(j)' = 0 /\ Pending' # j /\ Flush(j)' = "idle" /\ \A i \in Keys : BatchOf(i)' # j
    BY DEF FreshFits
  <2>1. Fresh(keyOf, j)
    BY DEF Fresh, BatchesStay, OthersStay, CallerStays
  <2>2. j # b
    BY <1>1, <2>1 DEF Sound, FreshFits
  <2> QED BY <2>1, <2>2 DEF Sound, FreshFits, BatchesStay, PendingStays, TimersStay, TimerStays
<1>10. RunsFit'
  <2>1. \A a \in Keys : /\ Flush(a)' = Flush(a) /\ Runner(a)' = Runner(a)
                        /\ FlushHas(a)' = FlushHas(a) /\ RunnerHas(a)' = RunnerHas(a)
    BY DEF TimersStay, TimerStays
  <2>2. \A a \in Keys : (FlushRuns(a)' <=> FlushRuns(a)) /\ (RunRuns(a)' <=> RunRuns(a))
    BY <2>1 DEF FlushRuns, RunRuns
  <2>3. \A a \in Keys : Flush(a) # "sent"
    BY InSection
  <2> SUFFICES ASSUME NEW a \in Keys
      PROVE  /\ FlushRuns(a)' \/ RunRuns(a)' \/ Going(a)' => Sent(a)' = 1 /\ ~Done(a)'
             /\ ~(FlushRuns(a)' /\ RunRuns(a)') /\ ~(FlushRuns(a)' /\ Going(a)') /\ ~(RunRuns(a)' /\ Going(a)')
             /\ Sent(a)' \in {0, 1} /\ (Sent(a)' = 0 => ~Done(a)')
             /\ Flush(a)' = "sent" => Sent(a)' = 0
             /\ Flush(a)' \in {"fetch", "rows"} => FlushHas(a)' = KeysIn(a)'
             /\ Runner(a)' \in {"fetch", "rows"} => RunnerHas(a)' = KeysIn(a)'
             /\ Results(a)' = Failed \/ (Sent(a)' = 1 /\ Results(a)' = KeysIn(a)')
    BY DEF RunsFit
  <2>4. KeysIn(a)' = KeysIn(a) /\ Results(a)' = Results(a) /\ (Done(a)' <=> Done(a))
    BY DEF KeysStay, ResultsStay, DoneStays
  <2>5. CASE a = b
    BY <1>1, <1>4, <2>1, <2>2, <2>3, <2>4, <2>5 DEF Sound, RunsFit
  <2>6. CASE a # b
    BY <1>4, <2>1, <2>2, <2>4, <2>6 DEF Sound, RunsFit
  <2> QED BY <2>5, <2>6
<1> QED BY <1>6, <1>7, <1>8, <1>9, <1>10 DEF Sound

\* enqueue takes the full batch out of the pending place.
LEMMA CallerClears ==
  ASSUME NEW keyOf, keyOf \in [Callers -> Keys], LoaderLabels, Sound(keyOf), NEW c \in Callers, Alone(c), OthersStay(c),
         TimersStay, BatchesStay, KeysStay, SentStays, ResultsStay, DoneStays,
         NEW b \in Keys, Batch(c) = b, Batch(c)' = b, Stage(c) = "clear", Stage(c)' = "go", Pending' = 0
  PROVE  Sound(keyOf)'
<1>3. \A j \in Keys : Half(keyOf, j)' <=> Half(keyOf, j)
  BY InSection
<1>4. \A a \in Keys : Going(a)' <=> Going(a)
  BY InSection
<1>5. \A j, a \in Keys : Written(keyOf, j, a)' <=> Written(keyOf, j, a)
  BY <1>3 DEF Written, BatchesStay
<1>6. CallersKnow(keyOf)'
  <2>1. PICK k \in Keys : k = keyOf[c]
    OBVIOUS
  <2>2. Written(keyOf, k, b)
    BY <2>1 DEF Sound, CallersKnow, Knows
  <2>3. Written(keyOf, k, b)'
    BY <1>5, <2>2
  <2>4. Written(keyOf, k, Batch(c))'
    BY <2>3 DEF Written
  <2>5. Knows(keyOf, c, k)'
    BY <2>4 DEF Knows
  <2> QED BY <1>5, <2>1, <2>5, OthersKnow
<1>7. KeysFit(keyOf)'
  BY <1>3, KeysStayFit DEF Sound
<1>8. PendingFits'
  BY ThreeKeys DEF PendingFits
<1>9. FreshFits(keyOf)'
  <2>1. \A j \in Keys : Fresh(keyOf, j)' => Fresh(keyOf, j)
    BY DEF Fresh, BatchesStay, OthersStay, CallerStays
  <2> QED BY <2>1, ThreeKeys DEF Sound, FreshFits, SentStays, BatchesStay, TimersStay, TimerStays
<1>10. RunsFit'
  BY <1>4, RunsStayFit DEF Sound
<1> QED BY <1>6, <1>7, <1>8, <1>9, <1>10 DEF Sound

\* enqueue starts the goroutine that runs the full batch.
LEMMA CallerStartsRun ==
  ASSUME NEW keyOf, keyOf \in [Callers -> Keys], LoaderLabels, Sound(keyOf), NEW c \in Callers, Alone(c), OthersStay(c),
         CellsStay, DoneStays, NEW b \in Keys, Batch(c) = b, Batch(c)' = b, Stage(c) = "go", Stage(c)' = "leave",
         Runner(b)' = "start", \A a \in Keys \ {b} : Runner(a)' = Runner(a),
         \A a \in Keys : Flush(a)' = Flush(a) /\ FlushHas(a)' = FlushHas(a) /\ RunnerHas(a)' = RunnerHas(a)
  PROVE  Sound(keyOf)'
<1>1. PendingStays /\ BatchesStay /\ KeysStay /\ SentStays /\ ResultsStay
  BY DEF CellsStay
<1>3. \A j \in Keys : Half(keyOf, j)' <=> Half(keyOf, j)
  BY InSection
<1>4. \A a \in Keys : ~Going(a)' /\ (Going(a) <=> a = b)
  BY InSection
<1>5. \A j, a \in Keys : Written(keyOf, j, a)' <=> Written(keyOf, j, a)
  BY <1>1, <1>3 DEF Written, BatchesStay
<1>6. CallersKnow(keyOf)'
  <2>1. PICK k \in Keys : k = keyOf[c]
    OBVIOUS
  <2>2. Written(keyOf, k, b)
    BY <2>1 DEF Sound, CallersKnow, Knows
  <2>3. Written(keyOf, k, b)'
    BY <1>5, <2>2
  <2>4. Written(keyOf, k, Batch(c))'
    BY <2>3 DEF Written
  <2>5. Knows(keyOf, c, k)'
    BY <2>4 DEF Knows
  <2> QED BY <1>5, <2>1, <2>5, OthersKnow
<1>7. KeysFit(keyOf)'
  BY <1>1, <1>3, KeysStayFit DEF Sound
<1>8. PendingFits'
  <2>3. Pending = 0
    BY DEF Sound, CallersKnow, Knows
  <2>4. \A a \in Keys : Pending' # a
    BY <1>1, <2>3, ThreeKeys DEF PendingStays
  <2> QED BY <2>4 DEF PendingFits
<1>9. FreshFits(keyOf)'
  <2>1. \A j \in Keys : Fresh(keyOf, j)' => Fresh(keyOf, j)
    BY <1>1 DEF Fresh, BatchesStay, OthersStay, CallerStays
  <2> QED BY <1>1, <2>1 DEF Sound, FreshFits, SentStays, BatchesStay, PendingStays
<1>10. RunsFit'
  <2>1. \A a \in Keys : FlushRuns(a)' <=> FlushRuns(a)
    BY DEF FlushRuns
  <2>2. \A a \in Keys : RunRuns(a)' <=> RunRuns(a) \/ a = b
    BY DEF RunRuns
  <2> SUFFICES ASSUME NEW a \in Keys
      PROVE  /\ FlushRuns(a)' \/ RunRuns(a)' \/ Going(a)' => Sent(a)' = 1 /\ ~Done(a)'
             /\ ~(FlushRuns(a)' /\ RunRuns(a)') /\ ~(FlushRuns(a)' /\ Going(a)') /\ ~(RunRuns(a)' /\ Going(a)')
             /\ Sent(a)' \in {0, 1} /\ (Sent(a)' = 0 => ~Done(a)')
             /\ Flush(a)' = "sent" => Sent(a)' = 0
             /\ Flush(a)' \in {"fetch", "rows"} => FlushHas(a)' = KeysIn(a)'
             /\ Runner(a)' \in {"fetch", "rows"} => RunnerHas(a)' = KeysIn(a)'
             /\ Results(a)' = Failed \/ (Sent(a)' = 1 /\ Results(a)' = KeysIn(a)')
    BY DEF RunsFit
  <2>3. Sent(a)' = Sent(a) /\ KeysIn(a)' = KeysIn(a) /\ Results(a)' = Results(a) /\ (Done(a)' <=> Done(a))
    BY <1>1 DEF SentStays, KeysStay, ResultsStay, DoneStays
  <2>4. CASE a = b
    BY <1>4, <2>1, <2>2, <2>3, <2>4 DEF Sound, RunsFit
  <2>5. CASE a # b
    BY <1>4, <2>1, <2>2, <2>3, <2>5 DEF Sound, RunsFit
  <2> QED BY <2>4, <2>5
<1> QED BY <1>6, <1>7, <1>8, <1>9, <1>10 DEF Sound

\* flush marks its batch as sent.
LEMMA TimerSends ==
  ASSUME NEW keyOf, keyOf \in [Callers -> Keys], LoaderLabels, Sound(keyOf), NEW b \in Keys, AloneTimer(b), CallersStay,
         PendingStays, BatchesStay, KeysStay, ResultsStay, DoneStays, \A a \in Keys \ {b} : TimerStays(a),
         Flush(b) = "sent", Flush(b)' = "pending", Runner(b)' = Runner(b), RunnerHas(b)' = RunnerHas(b),
         Sent(b)' = 1, \A a \in Keys \ {b} : Sent(a)' = Sent(a)
  PROVE  Sound(keyOf)'
<1>1. \A d \in Callers : Stage(d)' = Stage(d) /\ Batch(d)' = Batch(d) /\ CallerStays(d) /\ Stage(d) \notin LoadMu
  BY DEF CallersStay, CallerStays, AloneTimer
<1>2. \A j \in Keys : Half(keyOf, j)' <=> Half(keyOf, j)
  BY <1>1 DEF Half
<1>3. \A a \in Keys : ~Going(a) /\ ~Going(a)'
  BY <1>1 DEF Going, LoadMu
<1>4. Sent(b) = 0 /\ ~FlushRuns(b) /\ ~RunRuns(b) /\ ~Done(b) /\ Results(b) = Failed
  BY DEF Sound, RunsFit
<1>5. CallersKnow(keyOf)'
  <2> SUFFICES ASSUME NEW d \in Callers PROVE Knows(keyOf, d, keyOf[d])'
    BY DEF CallersKnow
  <2>1. PICK k \in Keys : k = keyOf[d]
    OBVIOUS
  <2>2. \A a \in Keys : Written(keyOf, k, a) => Written(keyOf, k, a)'
    BY <1>2 DEF Written, BatchesStay
  <2>3. Stage(d) \in Numbers => Batch(d) \in Keys
    BY NumberedStage
  <2>4. Knows(keyOf, d, k)
    BY <2>1 DEF Sound, CallersKnow
  <2>5. Knows(keyOf, d, k)'
    BY <1>1, <2>2, <2>3, <2>4, OutsideKnows DEF DoneStays, DonesKept
  <2> QED BY <2>1, <2>5
<1>6. KeysFit(keyOf)'
  BY <1>2, KeysStayFit DEF Sound
<1>7. PendingFits'
  BY DEF PendingFits
<1>8. FreshFits(keyOf)'
  <2> SUFFICES ASSUME NEW j \in Keys, Fresh(keyOf, j)'
      PROVE  Sent(j)' = 0 /\ Pending' # j /\ Flush(j)' = "idle" /\ \A i \in Keys : BatchOf(i)' # j
    BY DEF FreshFits
  <2>1. Fresh(keyOf, j)
    BY <1>1 DEF Fresh, BatchesStay
  <2>2. j # b
    BY <2>1 DEF Sound, FreshFits
  <2> QED BY <2>1, <2>2 DEF Sound, FreshFits, BatchesStay, PendingStays, TimerStays
<1>9. RunsFit'
  <2> SUFFICES ASSUME NEW a \in Keys
      PROVE  /\ FlushRuns(a)' \/ RunRuns(a)' \/ Going(a)' => Sent(a)' = 1 /\ ~Done(a)'
             /\ ~(FlushRuns(a)' /\ RunRuns(a)') /\ ~(FlushRuns(a)' /\ Going(a)') /\ ~(RunRuns(a)' /\ Going(a)')
             /\ Sent(a)' \in {0, 1} /\ (Sent(a)' = 0 => ~Done(a)')
             /\ Flush(a)' = "sent" => Sent(a)' = 0
             /\ Flush(a)' \in {"fetch", "rows"} => FlushHas(a)' = KeysIn(a)'
             /\ Runner(a)' \in {"fetch", "rows"} => RunnerHas(a)' = KeysIn(a)'
             /\ Results(a)' = Failed \/ (Sent(a)' = 1 /\ Results(a)' = KeysIn(a)')
    BY DEF RunsFit
  <2>1. KeysIn(a)' = KeysIn(a) /\ Results(a)' = Results(a) /\ (Done(a)' <=> Done(a))
    BY DEF KeysStay, ResultsStay, DoneStays
  <2>2. CASE a = b
    <3>1. RunRuns(b)' <=> RunRuns(b)
      BY DEF RunRuns
    <3> QED BY <1>3, <1>4, <2>1, <2>2, <3>1 DEF Sound, RunsFit
  <2>3. CASE a # b
    <3>1. /\ Flush(a)' = Flush(a) /\ Runner(a)' = Runner(a)
          /\ FlushHas(a)' = FlushHas(a) /\ RunnerHas(a)' = RunnerHas(a) /\ Sent(a)' = Sent(a)
      BY <2>3 DEF TimerStays
    <3>2. (FlushRuns(a)' <=> FlushRuns(a)) /\ (RunRuns(a)' <=> RunRuns(a))
      BY <3>1 DEF FlushRuns, RunRuns
    <3> QED BY <1>3, <2>1, <3>1, <3>2 DEF Sound, RunsFit
  <2> QED BY <2>2, <2>3
<1> QED BY <1>5, <1>6, <1>7, <1>8, <1>9 DEF Sound

\* flush takes its batch out of the pending place, if it is there.
LEMMA TimerClears ==
  ASSUME NEW keyOf, keyOf \in [Callers -> Keys], LoaderLabels, Sound(keyOf), NEW b \in Keys, AloneTimer(b), CallersStay,
         BatchesStay, KeysStay, SentStays, ResultsStay, DoneStays, \A a \in Keys \ {b} : TimerStays(a),
         Flush(b) = "pending", Flush(b)' = "unlock", Runner(b)' = Runner(b), RunnerHas(b)' = RunnerHas(b), Pending' = 0
  PROVE  Sound(keyOf)'
<1>1. \A d \in Callers : Stage(d)' = Stage(d) /\ Batch(d)' = Batch(d) /\ CallerStays(d) /\ Stage(d) \notin LoadMu
  BY DEF CallersStay, CallerStays, AloneTimer
<1>2. \A j \in Keys : Half(keyOf, j)' <=> Half(keyOf, j)
  BY <1>1 DEF Half
<1>3. \A a \in Keys : ~Going(a) /\ ~Going(a)'
  BY <1>1 DEF Going, LoadMu
<1>5. CallersKnow(keyOf)'
  <2> SUFFICES ASSUME NEW d \in Callers PROVE Knows(keyOf, d, keyOf[d])'
    BY DEF CallersKnow
  <2>1. PICK k \in Keys : k = keyOf[d]
    OBVIOUS
  <2>2. \A a \in Keys : Written(keyOf, k, a) => Written(keyOf, k, a)'
    BY <1>2 DEF Written, BatchesStay
  <2>3. Stage(d) \in Numbers => Batch(d) \in Keys
    BY NumberedStage
  <2>4. Knows(keyOf, d, k)
    BY <2>1 DEF Sound, CallersKnow
  <2>5. Knows(keyOf, d, k)'
    BY <1>1, <2>2, <2>3, <2>4, OutsideKnows DEF DoneStays, DonesKept
  <2> QED BY <2>1, <2>5
<1>6. KeysFit(keyOf)'
  BY <1>2, KeysStayFit DEF Sound
<1>7. PendingFits'
  BY ThreeKeys DEF PendingFits
<1>8. FreshFits(keyOf)'
  <2> SUFFICES ASSUME NEW j \in Keys, Fresh(keyOf, j)'
      PROVE  Sent(j)' = 0 /\ Pending' # j /\ Flush(j)' = "idle" /\ \A i \in Keys : BatchOf(i)' # j
    BY DEF FreshFits
  <2>1. Fresh(keyOf, j)
    BY <1>1 DEF Fresh, BatchesStay
  <2>2. j # b
    BY <2>1 DEF Sound, FreshFits
  <2> QED BY <2>1, <2>2, ThreeKeys DEF Sound, FreshFits, BatchesStay, SentStays, TimerStays
<1>9. RunsFit'
  <2> SUFFICES ASSUME NEW a \in Keys
      PROVE  /\ FlushRuns(a)' \/ RunRuns(a)' \/ Going(a)' => Sent(a)' = 1 /\ ~Done(a)'
             /\ ~(FlushRuns(a)' /\ RunRuns(a)') /\ ~(FlushRuns(a)' /\ Going(a)') /\ ~(RunRuns(a)' /\ Going(a)')
             /\ Sent(a)' \in {0, 1} /\ (Sent(a)' = 0 => ~Done(a)')
             /\ Flush(a)' = "sent" => Sent(a)' = 0
             /\ Flush(a)' \in {"fetch", "rows"} => FlushHas(a)' = KeysIn(a)'
             /\ Runner(a)' \in {"fetch", "rows"} => RunnerHas(a)' = KeysIn(a)'
             /\ Results(a)' = Failed \/ (Sent(a)' = 1 /\ Results(a)' = KeysIn(a)')
    BY DEF RunsFit
  <2>1. KeysIn(a)' = KeysIn(a) /\ Results(a)' = Results(a) /\ (Done(a)' <=> Done(a)) /\ Sent(a)' = Sent(a)
    BY DEF KeysStay, ResultsStay, DoneStays, SentStays
  <2>2. CASE a = b
    <3>1. (RunRuns(b)' <=> RunRuns(b)) /\ FlushRuns(b) /\ FlushRuns(b)'
      BY DEF RunRuns, FlushRuns
    <3> QED BY <1>3, <2>1, <2>2, <3>1 DEF Sound, RunsFit
  <2>3. CASE a # b
    <3>1. /\ Flush(a)' = Flush(a) /\ Runner(a)' = Runner(a)
          /\ FlushHas(a)' = FlushHas(a) /\ RunnerHas(a)' = RunnerHas(a)
      BY <2>3 DEF TimerStays
    <3>2. (FlushRuns(a)' <=> FlushRuns(a)) /\ (RunRuns(a)' <=> RunRuns(a))
      BY <3>1 DEF FlushRuns, RunRuns
    <3> QED BY <1>3, <2>1, <3>1, <3>2 DEF Sound, RunsFit
  <2> QED BY <2>2, <2>3
<1> QED BY <1>5, <1>6, <1>7, <1>8, <1>9 DEF Sound

-----------------------------------------------------------------------------
(* The batching cache: Load and enqueue, step by step.                     *)

LEMMA SoundTimes ==
  ASSUME NEW keyOf, Asking(keyOf), LoaderParts(keyOf)
  PROVE  /\ keyOf \in [Callers -> Keys] /\ Orderly /\ Sound(keyOf)
         /\ LoaderLabels /\ LoaderCells /\ CallersCounted /\ LoaderMu
         /\ Pending \in 0 .. 3 /\ \A k \in Keys : BatchOf(k) \in 0 .. 3
BY AskedKeys DEF LoaderParts, Orderly, LoaderCells

LEMMA CallerInstr ==
  ASSUME NEW keyOf, Asking(keyOf), LoaderParts(keyOf), NEW c \in Callers, Step(c)
  PROVE  /\ \E f, k : k \in Keys /\ k = keyOf[c] /\ CallerCode(k, f) /\ Perform(c, f[pc[c]]) /\ Knows(keyOf, c, k)
         /\ Stage(c) \in Numbers \cup (Plain \ {"idle", "end"})
         /\ Stage(c) \in Plain => pc[c] = Stage(c)
         /\ Stage(c) \in Numbers => Batch(c) \in Keys /\ pc[c] = Of(Stage(c), Batch(c))
         /\ Stage(c) \in LoadMu => Alone(c) /\ lock["mu"] = Held(c, 0)
<1>1. /\ keyOf \in [Callers -> Keys] /\ Orderly /\ Sound(keyOf)
      /\ LoaderLabels /\ LoaderCells /\ CallersCounted /\ LoaderMu
  BY SoundTimes
<1>2. Running(c) /\ Perform(c, Instr(c))
  BY StepPerforms
<1>3. PICK f, k : k = keyOf[c] /\ f = Load(k)
  OBVIOUS
<1>4. Program.code[c] = f
  BY <1>3, LoaderRuns
<1>5. Perform(c, f[pc[c]])
  BY <1>2, <1>4 DEF Instr
<1>6. CallerCode(k, f) /\ k \in Keys
  BY <1>1, <1>3, LoadCodeIs
<1>7. Knows(keyOf, c, k)
  BY <1>1, <1>3 DEF Sound, CallersKnow
<1>8. pc[c] \in DOMAIN StageOf
  BY <1>1 DEF LoaderLabels
<1>9. Stage(c) \in Numbers \cup Plain /\ (Stage(c) \in Plain => pc[c] = Stage(c))
  BY <1>8, StageTable DEF Stage
<1>10. Stage(c) \notin {"idle", "end"}
  BY <1>2, <1>9 DEF Running, Plain
<1>11. Stage(c) \in Numbers => Batch(c) \in Keys /\ pc[c] = Of(Stage(c), Batch(c))
  BY <1>1, NumberedStage
<1>12. Stage(c) \in LoadMu => Alone(c) /\ lock["mu"] = Held(c, 0)
  BY <1>1, CallerAlone
<1> QED BY <1>3, <1>5, <1>6, <1>7, <1>9, <1>10, <1>11, <1>12

\* What stands at a label of the batch's.
LEMMA NumberedCode ==
  ASSUME NEW f, NEW k, CallerCode(k, f), NEW b \in Keys
  PROVE  /\ f[Of("add", b)] = Set(Of("batch", k), b, Of("key", b))
         /\ f[Of("key", b)] = Plus(Of("keys", b), Bit[k], Of("full", b))
         /\ f[Of("full", b)] = If(Of("keys", b), Full, Of("send", b), Of("leave", b))
         /\ f[Of("send", b)] = Set(Of("sent", b), 1, Of("clear", b))
         /\ f[Of("clear", b)] = Set("pending", 0, Of("go", b))
         /\ f[Of("go", b)] = Go({Of("run", b)}, Of("leave", b))
         /\ f[Of("leave", b)] = Unlock("mu", Of("wait", b))
         /\ f[Of("wait", b)] = Comm({Recv(Of("done", b), Of("read", b)), Recv("ctx", "done")})
         /\ f[Of("read", b)] = Read(Of("results", b), "done")
BY DEF CallerCode

\* How caller c's step to stage s changes l.mu.
MuAt(c, s) ==
  \/ lock' = lock /\ (s \in LoadMu => Stage(c) \in LoadMu)
  \/ Unlocked("mu") /\ lock' = [lock EXCEPT !["mu"] = Held(c, 0)]
  \/ Stage(c) \in LoadMu /\ s \notin LoadMu /\ lock' = [lock EXCEPT !["mu"] = Released("mu")]

\* A step that writes no cell.
LEMMA CallerWalks ==
  ASSUME NEW keyOf, Asking(keyOf), LoaderParts(keyOf), NEW c \in Callers,
         Stage(c) \notin {"idle", "end", "after", "add", "key", "full", "send", "clear", "go"},
         NEW l \in DOMAIN StageOf, StageOf[l] \notin {"end", "after", "key", "full", "send", "clear", "go"},
         Goto(c, l), OnlyHas(c), MuAt(c, StageOf[l]), UNCHANGED <<buf, closed, wg, heap>>
  PROVE  /\ Stage(c)' = StageOf[l] /\ Batch(c)' = BatchAt[l] /\ PendingStays /\ BatchesStay
         /\ \A k, b \in Keys : Written(keyOf, k, b)' <=> Written(keyOf, k, b)
         /\ Knows(keyOf, c, keyOf[c])' => LoaderParts(keyOf)'
<1>1. /\ keyOf \in [Callers -> Keys] /\ Orderly /\ Sound(keyOf)
      /\ LoaderLabels /\ Pending \in 0 .. 3 /\ \A k \in Keys : BatchOf(k) \in 0 .. 3
  BY SoundTimes
<1>2. Stage(c)' = StageOf[l] /\ Batch(c)' = BatchAt[l] /\ OthersStay(c) /\ TimersStay
  BY <1>1, OnlyCaller
<1>3. CellsStay /\ PendingStays /\ BatchesStay
  BY HeapStays DEF CellsStay
<1>4. DoneStays
  BY DEF DoneStays, Done
<1>5. CallerMu(c)
  BY <1>2 DEF CallerMu, MuAt
<1>6. Orderly'
  BY <1>1, <1>3, <1>5, CallerTurn DEF PendingStays, BatchesStay
<1>7. \A k, b \in Keys : Written(keyOf, k, b)' <=> Written(keyOf, k, b)
  <2>1. \A k \in Keys : Half(keyOf, k)' <=> Half(keyOf, k)
    BY <1>2 DEF Half, OthersStay, CallerStays
  <2> QED BY <1>3, <2>1 DEF Written, BatchesStay
<1>8. Knows(keyOf, c, keyOf[c])' => Sound(keyOf)'
  BY <1>1, <1>2, <1>3, <1>4, CallerQuiet
<1>9. Asking(keyOf) => (Knows(keyOf, c, keyOf[c])' => LoaderParts(keyOf)')
  BY <1>6, <1>8 DEF LoaderParts
<1> QED BY <1>2, <1>3, <1>7, <1>9

LEMMA HasSame ==
  ASSUME NEW g, val' = val
  PROVE  OnlyHas(g)
BY DEF OnlyHas

LEMMA NotHalf ==
  ASSUME NEW keyOf, NEW c \in Callers, Alone(c), Stage(c) # "key"
  PROVE  \A k \in Keys : ~Half(keyOf, k)
BY DEF Half, Alone, LoadMu

LEMMA PlainLabels ==
  \A l \in Plain : l \in DOMAIN StageOf /\ StageOf[l] = l
BY StageTable

\* Load takes the mutex, and looks for its key in the cache.
LEMMA CallerFinds ==
  ASSUME NEW keyOf, Asking(keyOf), LoaderParts(keyOf), NEW c \in Callers, Step(c),
         Stage(c) \in {"start", "cached", "cached1", "cached2"}
  PROVE  LoaderParts(keyOf)'
<1>1. PICK f, k : k \in Keys /\ k = keyOf[c] /\ CallerCode(k, f) /\ Perform(c, f[pc[c]]) /\ Knows(keyOf, c, k)
  BY CallerInstr
<1>2. /\ pc[c] = Stage(c)
      /\ Stage(c) \in LoadMu => Alone(c)
  BY CallerInstr DEF Plain
<1>3. BatchOf(k) \in 0 .. 3
  BY <1>1, SoundTimes
<1>4. CASE Stage(c) = "start"
  <2>1. f[pc[c]] = Lock("mu", "cached")
    BY <1>1, <1>2, <1>4 DEF CallerCode
  <2>2. /\ Unlocked("mu") /\ Goto(c, "cached") /\ lock' = [lock EXCEPT !["mu"] = Held(c, 0)]
        /\ UNCHANGED <<val, buf, closed, wg, heap>>
    BY <1>1, <2>1, DoesLock
  <2>3. "cached" \in DOMAIN StageOf /\ StageOf["cached"] = "cached"
    BY PlainLabels DEF Plain
  <2>4. Stage(c)' = "cached" /\ (Knows(keyOf, c, keyOf[c])' => LoaderParts(keyOf)')
    BY <1>4, <2>2, <2>3, CallerWalks, HasSame DEF MuAt
  <2>5. Knows(keyOf, c, k)'
    BY <2>4 DEF Knows
  <2> QED BY <1>1, <2>4, <2>5
<1>5. CASE Stage(c) = "cached"
  <2>1. f[pc[c]] = If(Of("batch", k), {0}, "enqueue", "cached1")
    BY <1>1, <1>2, <1>5 DEF CallerCode
  <2>2. PICK l \in {"enqueue", "cached1"} : l = IF heap[Of("batch", k)] \in {0} THEN "enqueue" ELSE "cached1"
    OBVIOUS
  <2>3. Goto(c, l) /\ DataStays
    BY <1>1, <2>1, <2>2, DoesIf
  <2>4. l \in DOMAIN StageOf /\ StageOf[l] = l
    BY PlainLabels DEF Plain
  <2>5. Stage(c)' = l /\ BatchesStay /\ (Knows(keyOf, c, keyOf[c])' => LoaderParts(keyOf)')
    BY <1>5, <2>3, <2>4, CallerWalks, HasSame DEF MuAt, DataStays, LoadMu
  <2>6. l = "enqueue" <=> BatchOf(k)' = 0
    BY <1>1, <2>2, <2>5 DEF BatchOf, BatchesStay
  <2>7. Knows(keyOf, c, k)'
    BY <2>5, <2>6 DEF Knows
  <2> QED BY <1>1, <2>5, <2>7
<1>6. CASE Stage(c) = "cached1"
  <2>1. f[pc[c]] = If(Of("batch", k), {1}, "leave1", "cached2")
    BY <1>1, <1>2, <1>6 DEF CallerCode
  <2>2. PICK l \in {"leave1", "cached2"} : l = IF heap[Of("batch", k)] \in {1} THEN "leave1" ELSE "cached2"
    OBVIOUS
  <2>3. Goto(c, l) /\ DataStays
    BY <1>1, <2>1, <2>2, DoesIf
  <2>4. l \in DOMAIN StageOf /\ (l = "leave1" => StageOf[l] = "leave" /\ BatchAt[l] = 1) /\ (l = "cached2" => StageOf[l] = l)
    BY PlainLabels, NumberTable, CallerNames, ThreeKeys DEF Plain, Numbers
  <2>5. /\ Stage(c)' = StageOf[l] /\ Batch(c)' = BatchAt[l] /\ BatchesStay /\ (Knows(keyOf, c, keyOf[c])' => LoaderParts(keyOf)')
        /\ \A j, b \in Keys : Written(keyOf, j, b)' <=> Written(keyOf, j, b)
    BY <1>6, <2>3, <2>4, CallerWalks, HasSame DEF MuAt, DataStays, LoadMu
  <2>6. BatchOf(k)' = BatchOf(k) /\ BatchOf(k) # 0 /\ (l = "leave1" <=> BatchOf(k) = 1)
    BY <1>1, <1>6, <2>2, <2>5 DEF BatchOf, BatchesStay, Knows
  <2>7. CASE l = "leave1"
    <3>1. Written(keyOf, k, 1)
      BY <1>1, <1>2, <1>6, <2>6, <2>7, NotHalf DEF Written, LoadMu
    <3>2. Written(keyOf, k, 1)'
      BY <1>1, <2>5, <3>1, ThreeKeys
    <3>3. Written(keyOf, k, Batch(c))'
      BY <2>4, <2>5, <2>7, <3>2 DEF Written
    <3>4. Knows(keyOf, c, k)'
      BY <2>4, <2>5, <2>7, <3>3 DEF Knows
    <3> QED BY <1>1, <2>5, <3>4
  <2>8. CASE l = "cached2"
    <3>1. Knows(keyOf, c, k)'
      BY <2>4, <2>5, <2>6, <2>8 DEF Knows
    <3> QED BY <1>1, <2>5, <3>1
  <2> QED BY <2>7, <2>8
<1>7. CASE Stage(c) = "cached2"
  <2>1. f[pc[c]] = If(Of("batch", k), {2}, "leave2", "leave3")
    BY <1>1, <1>2, <1>7 DEF CallerCode
  <2>2. PICK b \in {2, 3} : b = IF heap[Of("batch", k)] \in {2} THEN 2 ELSE 3
    OBVIOUS
  <2>a. PICK l : l = IF heap[Of("batch", k)] \in {2} THEN "leave2" ELSE "leave3"
    OBVIOUS
  <2>3. Goto(c, l) /\ DataStays
    BY <1>1, <2>1, <2>a, DoesIf
  <2>4. b \in Keys /\ l \in DOMAIN StageOf /\ StageOf[l] = "leave" /\ BatchAt[l] = b
    BY <2>2, <2>a, NumberTable, CallerNames, ThreeKeys DEF Numbers
  <2>5. /\ Stage(c)' = "leave" /\ Batch(c)' = b /\ (Knows(keyOf, c, keyOf[c])' => LoaderParts(keyOf)')
        /\ \A j, a \in Keys : Written(keyOf, j, a)' <=> Written(keyOf, j, a)
    BY <1>7, <2>3, <2>4, CallerWalks, HasSame DEF MuAt, DataStays, LoadMu
  <2>6. BatchOf(k) = b
    BY <1>1, <1>3, <1>7, <2>2 DEF BatchOf, Knows
  <2>7. Written(keyOf, k, b)
    BY <1>1, <1>2, <1>7, <2>6, NotHalf DEF Written, LoadMu
  <2>8. Written(keyOf, k, b)'
    BY <1>1, <2>4, <2>5, <2>7
  <2>9. Written(keyOf, k, Batch(c))'
    BY <2>5, <2>8 DEF Written
  <2>10. Knows(keyOf, c, k)'
    BY <2>5, <2>9 DEF Knows
  <2> QED BY <1>1, <2>5, <2>10
<1> QED BY <1>4, <1>5, <1>6, <1>7

\* enqueue looks for the pending batch.
LEMMA CallerEnqueues ==
  ASSUME NEW keyOf, Asking(keyOf), LoaderParts(keyOf), NEW c \in Callers, Step(c),
         Stage(c) \in {"enqueue", "pending1", "pending2"}
  PROVE  LoaderParts(keyOf)'
<1>1. PICK f, k : k \in Keys /\ k = keyOf[c] /\ CallerCode(k, f) /\ Perform(c, f[pc[c]]) /\ Knows(keyOf, c, k)
  BY CallerInstr
<1>2. pc[c] = Stage(c)
  BY CallerInstr DEF Plain
<1>3. BatchOf(k) = 0 /\ Pending \in 0 .. 3
  BY <1>1, SoundTimes DEF Knows
<1>4. CASE Stage(c) = "enqueue"
  <2>1. f[pc[c]] = If("pending", {0}, "open", "pending1")
    BY <1>1, <1>2, <1>4 DEF CallerCode
  <2>2. PICK l \in {"open", "pending1"} : l = IF heap["pending"] \in {0} THEN "open" ELSE "pending1"
    OBVIOUS
  <2>3. Goto(c, l) /\ DataStays
    BY <1>1, <2>1, <2>2, DoesIf
  <2>4. l \in DOMAIN StageOf /\ StageOf[l] = l
    BY PlainLabels DEF Plain
  <2>5. Stage(c)' = l /\ PendingStays /\ BatchesStay /\ (Knows(keyOf, c, keyOf[c])' => LoaderParts(keyOf)')
    BY <1>4, <2>3, <2>4, CallerWalks, HasSame DEF MuAt, DataStays, LoadMu
  <2>6. BatchOf(k)' = 0 /\ (l = "open" <=> Pending' = 0)
    BY <1>1, <1>3, <2>2, <2>5 DEF Pending, PendingStays, BatchesStay
  <2>7. Knows(keyOf, c, k)'
    BY <2>5, <2>6 DEF Knows
  <2> QED BY <1>1, <2>5, <2>7
<1>5. CASE Stage(c) = "pending1"
  <2>1. f[pc[c]] = If("pending", {1}, "add1", "pending2")
    BY <1>1, <1>2, <1>5 DEF CallerCode
  <2>2. PICK l \in {"add1", "pending2"} : l = IF heap["pending"] \in {1} THEN "add1" ELSE "pending2"
    OBVIOUS
  <2>3. Goto(c, l) /\ DataStays
    BY <1>1, <2>1, <2>2, DoesIf
  <2>4. l \in DOMAIN StageOf /\ (l = "add1" => StageOf[l] = "add" /\ BatchAt[l] = 1) /\ (l = "pending2" => StageOf[l] = l)
    BY PlainLabels, NumberTable, CallerNames, ThreeKeys DEF Plain, Numbers
  <2>5. /\ Stage(c)' = StageOf[l] /\ Batch(c)' = BatchAt[l] /\ PendingStays /\ BatchesStay
        /\ (Knows(keyOf, c, keyOf[c])' => LoaderParts(keyOf)')
    BY <1>5, <2>3, <2>4, CallerWalks, HasSame DEF MuAt, DataStays, LoadMu
  <2>6. BatchOf(k)' = 0 /\ Pending' # 0 /\ (l = "add1" <=> Pending' = 1)
    BY <1>1, <1>3, <1>5, <2>2, <2>5 DEF Pending, PendingStays, BatchesStay, Knows
  <2>7. Knows(keyOf, c, k)'
    BY <2>4, <2>5, <2>6 DEF Knows
  <2> QED BY <1>1, <2>5, <2>7
<1>6. CASE Stage(c) = "pending2"
  <2>1. f[pc[c]] = If("pending", {2}, "add2", "add3")
    BY <1>1, <1>2, <1>6 DEF CallerCode
  <2>2. PICK b \in {2, 3} : b = IF heap["pending"] \in {2} THEN 2 ELSE 3
    OBVIOUS
  <2>3. PICK l : l = IF heap["pending"] \in {2} THEN "add2" ELSE "add3"
    OBVIOUS
  <2>4. Goto(c, l) /\ DataStays
    BY <1>1, <2>1, <2>3, DoesIf
  <2>5. b \in Keys /\ l \in DOMAIN StageOf /\ StageOf[l] = "add" /\ BatchAt[l] = b
    BY <2>2, <2>3, NumberTable, CallerNames, ThreeKeys DEF Numbers
  <2>6. /\ Stage(c)' = "add" /\ Batch(c)' = b /\ PendingStays /\ BatchesStay /\ (Knows(keyOf, c, keyOf[c])' => LoaderParts(keyOf)')
    BY <1>6, <2>4, <2>5, CallerWalks, HasSame DEF MuAt, DataStays, LoadMu
  <2>7. BatchOf(k)' = 0 /\ Pending' = b
    BY <1>1, <1>3, <1>6, <2>2, <2>6 DEF Pending, PendingStays, BatchesStay, Knows
  <2>8. Knows(keyOf, c, k)'
    BY <2>6, <2>7 DEF Knows
  <2> QED BY <1>1, <2>6, <2>8
<1> QED BY <1>4, <1>5, <1>6

\* The list of a batch in which a key is written down has the key's bit.
LEMMA ListHoldsKey ==
  ASSUME NEW keyOf, KeysFit(keyOf), NEW k \in Keys, NEW b \in Keys, Written(keyOf, k, b)
  PROVE  KeysIn(b) \in Holding[k]
<1>1. /\ Share(keyOf, 1, b) \in {0, 1} /\ Share(keyOf, 2, b) \in {0, 2} /\ Share(keyOf, 3, b) \in {0, 4}
      /\ Share(keyOf, k, b) = Bit[k]
  BY ThreeKeys DEF Share
<1>2. KeysIn(b) = Share(keyOf, 1, b) + Share(keyOf, 2, b) + Share(keyOf, 3, b)
  BY DEF KeysFit
<1>3. CASE k = 1
  BY <1>1, <1>2, <1>3, ThreeKeys DEF Holding
<1>4. CASE k = 2
  BY <1>1, <1>2, <1>4, ThreeKeys DEF Holding
<1>5. CASE k = 3
  BY <1>1, <1>2, <1>5, ThreeKeys DEF Holding
<1> QED BY <1>3, <1>4, <1>5, ThreeKeys

\* Load gives the mutex back, waits, and reads its answer.
LEMMA CallerWaits ==
  ASSUME NEW keyOf, Asking(keyOf), LoaderParts(keyOf), NEW c \in Callers, Step(c),
         Stage(c) \in {"leave", "wait", "read"}
  PROVE  LoaderParts(keyOf)'
<1>1. PICK f, k : k \in Keys /\ k = keyOf[c] /\ CallerCode(k, f) /\ Perform(c, f[pc[c]]) /\ Knows(keyOf, c, k)
  BY CallerInstr
<1>2. PICK b \in Keys : b = Batch(c) /\ pc[c] = Of(Stage(c), b)
  BY CallerInstr DEF Numbers
<1>3. Written(keyOf, k, b)
  BY <1>1, <1>2 DEF Knows
<1>4. CASE Stage(c) = "leave"
  <2>1. f[pc[c]] = Unlock("mu", Of("wait", b))
    BY <1>1, <1>2, <1>4, NumberedCode
  <2>2. ~Unlocked("mu")
    BY <1>4, CallerInstr, HeldIsLocked, TimersAre DEF LoadMu
  <2>3. PICK l : l = Of("wait", b)
    OBVIOUS
  <2>4. Goto(c, l) /\ lock' = [lock EXCEPT !["mu"] = Released("mu")] /\ UNCHANGED <<val, buf, closed, wg, heap>>
    BY <1>1, <2>1, <2>2, <2>3, DoesUnlock
  <2>5. l \in DOMAIN StageOf /\ StageOf[l] = "wait" /\ BatchAt[l] = b
    BY <2>3, NumberTable DEF Numbers
  <2>6. /\ Stage(c)' = "wait" /\ Batch(c)' = b /\ (Knows(keyOf, c, keyOf[c])' => LoaderParts(keyOf)')
        /\ \A j, a \in Keys : Written(keyOf, j, a)' <=> Written(keyOf, j, a)
    BY <1>4, <2>4, <2>5, CallerWalks, HasSame DEF MuAt, LoadMu
  <2>7. Written(keyOf, k, b)'
    BY <1>1, <1>3, <2>6
  <2>8. Written(keyOf, k, Batch(c))'
    BY <2>6, <2>7 DEF Written
  <2>9. Knows(keyOf, c, k)'
    BY <2>6, <2>8 DEF Knows
  <2> QED BY <1>1, <2>6, <2>9
<1>5. CASE Stage(c) = "wait"
  <2>0. f[Of("wait", b)] = Comm({Recv(Of("done", b), Of("read", b)), Recv("ctx", "done")})
    BY <1>1, NumberedCode
  <2>a. f[pc[c]] = Comm({Recv(Of("done", b), Of("read", b)), Recv("ctx", "done")})
    BY <1>2, <1>5, <2>0
  <2>1. f[pc[c]] = CommOr({Recv(Of("done", b), Of("read", b)), Recv("ctx", "done")}, None)
    BY <2>a, WithoutDefault
  <2>2. Take(c, Recv(Of("done", b), Of("read", b))) \/ Take(c, Recv("ctx", "done"))
    <3>1. \A i \in {Recv(Of("done", b), Of("read", b)), Recv("ctx", "done")} : i.dir # "send"
      BY DEF Recv, RangeOver
    <3> QED BY <1>1, <2>1, <3>1, DoesComm
  <2>3. buf["ctx"] = <<>> /\ buf[Of("done", b)] = <<>>
    BY SoundTimes DEF LoaderCells
  <2>4. PICK l : /\ (l = Of("read", b) /\ Of("done", b) \in closed) \/ l = "done"
                 /\ Goto(c, l) /\ val' = [val EXCEPT ![c] = 0] /\ UNCHANGED <<buf, closed, lock, wg, heap>>
    BY <2>2, <2>3, TakesNothing
  <2>5. /\ l \in DOMAIN StageOf
        /\ (StageOf[l] = "read" /\ BatchAt[l] = b /\ Of("done", b) \in closed) \/ StageOf[l] = "done"
    BY <2>4, PlainLabels, NumberTable DEF Numbers, Plain
  <2>6. /\ Stage(c)' = StageOf[l] /\ Batch(c)' = BatchAt[l] /\ (Knows(keyOf, c, keyOf[c])' => LoaderParts(keyOf)')
        /\ \A j, a \in Keys : Written(keyOf, j, a)' <=> Written(keyOf, j, a)
    BY <1>5, <2>4, <2>5, CallerWalks DEF MuAt, LoadMu, OnlyHas
  <2>7. CASE Stage(c)' = "read" /\ Batch(c)' = b /\ Of("done", b) \in closed
    <3>1. Written(keyOf, k, b)'
      BY <1>1, <1>3, <2>6
    <3>2. Written(keyOf, k, Batch(c))'
      BY <2>7, <3>1 DEF Written
    <3>a. Done(Batch(c))'
      BY <2>4, <2>7 DEF Done
    <3>3. Knows(keyOf, c, k)'
      BY <2>7, <3>2, <3>a DEF Knows
    <3> QED BY <1>1, <2>6, <3>3
  <2>8. CASE Stage(c)' = "done"
    <3>1. c \in DOMAIN val
      BY SoundTimes DEF LoaderLabels
    <3>2. val'[c] = Failed
      BY <2>4, <3>1 DEF Failed
    <3>3. Knows(keyOf, c, k)'
      BY <2>8, <3>2 DEF Knows
    <3> QED BY <1>1, <2>6, <3>3
  <2> QED BY <2>5, <2>6, <2>7, <2>8
<1>6. CASE Stage(c) = "read"
  <2>1. f[pc[c]] = Read(Of("results", b), "done")
    BY <1>1, <1>2, <1>6, NumberedCode
  <2>2. /\ Goto(c, "done") /\ val' = [val EXCEPT ![c] = heap[Of("results", b)]]
        /\ UNCHANGED <<buf, closed, lock, wg, heap>>
    BY <1>1, <2>1, DoesRead
  <2>3. "done" \in DOMAIN StageOf /\ StageOf["done"] = "done"
    BY PlainLabels DEF Plain
  <2>4. Stage(c)' = "done" /\ (Knows(keyOf, c, keyOf[c])' => LoaderParts(keyOf)')
    BY <1>6, <2>2, <2>3, CallerWalks DEF MuAt, LoadMu, OnlyHas
  <2>5. c \in DOMAIN val
    BY SoundTimes DEF LoaderLabels
  <2>6. val'[c] = Results(b)
    BY <2>2, <2>5 DEF Results
  <2>7. Results(b) = Failed \/ Results(b) = KeysIn(b)
    BY SoundTimes DEF Sound, RunsFit
  <2>8. KeysIn(b) \in Holding[k]
    BY <1>1, <1>3, ListHoldsKey, SoundTimes DEF Sound
  <2>9. Knows(keyOf, c, k)'
    BY <2>4, <2>6, <2>7, <2>8 DEF Knows
  <2> QED BY <1>1, <2>4, <2>9
<1> QED BY <1>4, <1>5, <1>6

\* Load returns.
LEMMA CallerReturns ==
  ASSUME NEW keyOf, Asking(keyOf), LoaderParts(keyOf), NEW c \in Callers, Step(c), Stage(c) = "done"
  PROVE  LoaderParts(keyOf)'
<1>0. /\ keyOf \in [Callers -> Keys] /\ Orderly /\ Sound(keyOf) /\ LoaderLabels /\ LoaderCells /\ CallersCounted /\ LoaderMu
      /\ Pending \in 0 .. 3 /\ \A k \in Keys : BatchOf(k) \in 0 .. 3
  BY SoundTimes
<1>1. PICK f, k : k \in Keys /\ k = keyOf[c] /\ CallerCode(k, f) /\ Perform(c, f[pc[c]]) /\ Knows(keyOf, c, k)
  BY CallerInstr
<1>2. f[pc[c]] = Add("wg", -1, "end")
  BY <1>1, CallerInstr DEF Plain, CallerCode
<1>3. /\ wg' = [wg EXCEPT !["wg"] = @ + -1] /\ Goto(c, IF wg'["wg"] < 0 THEN "panic" ELSE "end")
      /\ UNCHANGED <<val, buf, closed, lock, heap>>
  BY <1>1, <1>2, DoesAdd
<1>4. pc["main"] # "start"
  BY <1>0 DEF LoaderLabels
<1>5. /\ wg["wg"] = Unreturned("c1") + Unreturned("c2") + Unreturned("c3") /\ Unreturned(c) = 1
      /\ Unreturned("c1") \in {0, 1} /\ Unreturned("c2") \in {0, 1} /\ Unreturned("c3") \in {0, 1}
  BY <1>0, <1>4 DEF CallersCounted, Unreturned
<1>6. wg'["wg"] = wg["wg"] - 1 /\ DOMAIN wg' = DOMAIN wg
  BY <1>0, <1>3, <1>5 DEF LoaderCells, Groups
<1>7. ~(wg'["wg"] < 0)
  BY <1>5, <1>6 DEF Callers
<1>8. Goto(c, "end")
  BY <1>3, <1>7
<1>9. "end" \in DOMAIN StageOf /\ StageOf["end"] = "end"
  BY PlainLabels DEF Plain
<1>10. Stage(c)' = "end" /\ OthersStay(c) /\ TimersStay /\ pc'["main"] = pc["main"] /\ LoaderLabels'
  BY <1>0, <1>3, <1>8, <1>9, OnlyCaller, HasSame
<1>11. CellsStay /\ PendingStays /\ BatchesStay /\ DoneStays
  BY <1>3, HeapStays DEF CellsStay, DoneStays, Done
<1>12. LoaderMu' /\ DOMAIN lock' = DOMAIN lock
  BY <1>0, <1>3, <1>10, CallerMuKeeps DEF CallerMu, LoadMu, LoaderCells
<1>13. LoaderCells'
  BY <1>0, <1>3, <1>6, <1>11, <1>12, CellsKept DEF PendingStays, BatchesStay
<1>14. CallersCounted'
  <2>1. Unreturned(c)' = 0
    BY <1>10 DEF Unreturned
  <2>2. \A d \in Callers \ {c} : Unreturned(d)' = Unreturned(d)
    BY <1>10 DEF Unreturned, OthersStay, CallerStays
  <2>3. wg'["wg"] = Unreturned("c1")' + Unreturned("c2")' + Unreturned("c3")'
    BY <1>5, <1>6, <2>1, <2>2 DEF Callers
  <2> QED BY <1>4, <1>10, <2>3 DEF CallersCounted
<1>15. Knows(keyOf, c, keyOf[c])'
  BY <1>10 DEF Knows
<1>16. Sound(keyOf)'
  BY <1>0, <1>10, <1>11, <1>15, CallerQuiet
<1> QED BY <1>10, <1>12, <1>13, <1>14, <1>16 DEF LoaderParts, Orderly

\* What a step that writes a cell, under the mutex, shares with the others.
LEMMA CallerWrites ==
  ASSUME NEW keyOf, Asking(keyOf), LoaderParts(keyOf), NEW c \in Callers, Stage(c) \in LoadMu,
         NEW l \in DOMAIN StageOf, StageOf[l] # "end", Goto(c, l), UNCHANGED <<val, buf, closed, lock, wg>>
  PROVE  /\ Stage(c)' = StageOf[l] /\ Batch(c)' = BatchAt[l] /\ OthersStay(c) /\ TimersStay /\ DoneStays /\ Alone(c)
         /\ ((DOMAIN heap' = DOMAIN heap /\ Pending' \in 0 .. 3 /\ \A k \in Keys : BatchOf(k)' \in 0 .. 3) => Orderly')
<1>1. /\ Orderly /\ LoaderLabels /\ LoaderMu
  BY SoundTimes
<1>2. Stage(c) \notin {"idle", "end"}
  BY DEF LoadMu
<1>3. Stage(c)' = StageOf[l] /\ Batch(c)' = BatchAt[l] /\ OthersStay(c) /\ TimersStay
  BY <1>1, <1>2, OnlyCaller, HasSame
<1>4. DoneStays
  BY DEF DoneStays, Done
<1>5. Alone(c)
  BY <1>1, CallerAlone
<1>6. ASSUME DOMAIN heap' = DOMAIN heap, Pending' \in 0 .. 3, \A k \in Keys : BatchOf(k)' \in 0 .. 3
      PROVE  Orderly'
  BY <1>1, <1>2, <1>6, CallerTurn, HasSame DEF CallerMu
<1> QED BY <1>3, <1>4, <1>5, <1>6

\* enqueue: a new batch, and its key in the cache, the list and the count.
LEMMA CallerJoins ==
  ASSUME NEW keyOf, Asking(keyOf), LoaderParts(keyOf), NEW c \in Callers, Step(c),
         Stage(c) \in {"open", "add", "key", "full"}
  PROVE  LoaderParts(keyOf)'
<1>0. /\ keyOf \in [Callers -> Keys] /\ Sound(keyOf) /\ LoaderLabels /\ DOMAIN heap = LoaderVars
      /\ Pending \in 0 .. 3 /\ \A k \in Keys : BatchOf(k) \in 0 .. 3
  BY SoundTimes DEF LoaderCells
<1>1. PICK f, k : k \in Keys /\ k = keyOf[c] /\ CallerCode(k, f) /\ Perform(c, f[pc[c]]) /\ Knows(keyOf, c, k)
  BY CallerInstr
<1>2. Stage(c) \in LoadMu
  BY DEF LoadMu
<1>3. ASSUME Sound(keyOf)', Orderly' PROVE LoaderParts(keyOf)'
  BY <1>3 DEF LoaderParts
<1>4. CASE Stage(c) = "open"
  <2>1. f[pc[c]] = Set("pending", k, "after")
    BY <1>1, <1>4, CallerInstr DEF CallerCode, Plain
  <2>2. Goto(c, "after") /\ heap' = [heap EXCEPT !["pending"] = k] /\ UNCHANGED <<val, buf, closed, lock, wg>>
    BY <1>1, <2>1, DoesSet
  <2>3. "after" \in DOMAIN StageOf /\ StageOf["after"] = "after"
    BY PlainLabels DEF Plain
  <2>4. /\ Stage(c)' = "after" /\ OthersStay(c) /\ TimersStay /\ DoneStays /\ Alone(c)
        /\ ((DOMAIN heap' = DOMAIN heap /\ Pending' \in 0 .. 3 /\ \A j \in Keys : BatchOf(j)' \in 0 .. 3) => Orderly')
    BY <1>2, <2>2, <2>3, CallerWrites
  <2>5. Pending' = k /\ BatchesStay /\ KeysStay /\ SentStays /\ ResultsStay /\ DOMAIN heap' = DOMAIN heap
    BY <1>0, <2>2, SetsPending
  <2>6. Orderly'
    BY <1>0, <1>1, <2>4, <2>5, ThreeKeys DEF BatchesStay
  <2>7. Sound(keyOf)'
    BY <1>0, <1>1, <1>4, <2>4, <2>5, CallerOpens
  <2> QED BY <1>3, <2>6, <2>7
<1>5. CASE Stage(c) = "add"
  <2>0. PICK b \in Keys : b = Batch(c) /\ pc[c] = Of("add", b)
    BY <1>5, CallerInstr DEF Numbers
  <2>1. f[pc[c]] = Set(Of("batch", k), b, Of("key", b))
    <3>0. CallerCode(k, f) /\ b \in Keys
      BY <1>1, <2>0
    <3>1. f[Of("add", b)] = Set(Of("batch", k), b, Of("key", b))
      BY <3>0 DEF CallerCode
    <3> QED BY <2>0, <3>1
  <2>2. PICK l : l = Of("key", b)
    OBVIOUS
  <2>3. Goto(c, l) /\ heap' = [heap EXCEPT ![Of("batch", k)] = b] /\ UNCHANGED <<val, buf, closed, lock, wg>>
    BY <1>1, <2>1, <2>2, DoesSet
  <2>4. l \in DOMAIN StageOf /\ StageOf[l] = "key" /\ BatchAt[l] = b
    BY <2>2, NumberTable DEF Numbers
  <2>5. /\ Stage(c)' = "key" /\ Batch(c)' = b /\ OthersStay(c) /\ TimersStay /\ DoneStays /\ Alone(c)
        /\ ((DOMAIN heap' = DOMAIN heap /\ Pending' \in 0 .. 3 /\ \A j \in Keys : BatchOf(j)' \in 0 .. 3) => Orderly')
    BY <1>2, <2>3, <2>4, CallerWrites
  <2>6. /\ PendingStays /\ KeysStay /\ SentStays /\ ResultsStay /\ DOMAIN heap' = DOMAIN heap
        /\ BatchOf(k)' = b /\ \A j \in Keys \ {k} : BatchOf(j)' = BatchOf(j)
    BY <1>0, <1>1, <2>3, SetsCell DEF Cells
  <2>7. Orderly'
    <3>1. \A j \in Keys : BatchOf(j)' \in 0 .. 3
      BY <1>0, <2>6, ThreeKeys
    <3> QED BY <1>0, <2>5, <2>6, <3>1 DEF PendingStays
  <2>8. Sound(keyOf)'
    BY <1>0, <1>1, <1>5, <2>0, <2>5, <2>6, CallerCaches
  <2> QED BY <1>3, <2>7, <2>8
<1>6. CASE Stage(c) = "key"
  <2>0. PICK b \in Keys : b = Batch(c) /\ pc[c] = Of("key", b)
    BY <1>6, CallerInstr DEF Numbers
  <2>1. f[pc[c]] = Plus(Of("keys", b), Bit[k], Of("full", b))
    <3>0. CallerCode(k, f) /\ b \in Keys
      BY <1>1, <2>0
    <3>1. f[Of("key", b)] = Plus(Of("keys", b), Bit[k], Of("full", b))
      BY <3>0 DEF CallerCode
    <3> QED BY <2>0, <3>1
  <2>2. PICK l : l = Of("full", b)
    OBVIOUS
  <2>3. /\ Goto(c, l) /\ heap' = [heap EXCEPT ![Of("keys", b)] = heap[Of("keys", b)] + Bit[k]]
        /\ UNCHANGED <<val, buf, closed, lock, wg>>
    BY <1>1, <2>1, <2>2, DoesPlus
  <2>4. l \in DOMAIN StageOf /\ StageOf[l] = "full" /\ BatchAt[l] = b
    BY <2>2, NumberTable DEF Numbers
  <2>5. /\ Stage(c)' = "full" /\ Batch(c)' = b /\ OthersStay(c) /\ TimersStay /\ DoneStays /\ Alone(c)
        /\ ((DOMAIN heap' = DOMAIN heap /\ Pending' \in 0 .. 3 /\ \A j \in Keys : BatchOf(j)' \in 0 .. 3) => Orderly')
    BY <1>2, <2>3, <2>4, CallerWrites
  <2>a. PICK v : v = heap[Of("keys", b)] + Bit[k]
    OBVIOUS
  <2>b. heap' = [heap EXCEPT ![Of("keys", b)] = v]
    BY <2>3, <2>a
  <2>6. /\ PendingStays /\ BatchesStay /\ SentStays /\ ResultsStay /\ DOMAIN heap' = DOMAIN heap
        /\ KeysIn(b)' = v /\ \A j \in Keys \ {b} : KeysIn(j)' = KeysIn(j)
    BY <1>0, <2>b, SetsCell DEF Cells
  <2>c. KeysIn(b)' = KeysIn(b) + Bit[keyOf[c]]
    BY <1>1, <2>a, <2>6 DEF KeysIn
  <2>7. Orderly'
    BY <1>0, <2>5, <2>6 DEF PendingStays, BatchesStay
  <2>8. Sound(keyOf)'
    BY <1>0, <1>6, <2>0, <2>5, <2>6, <2>c, CallerLists
  <2> QED BY <1>3, <2>7, <2>8
<1>7. CASE Stage(c) = "full"
  <2>0. PICK b \in Keys : b = Batch(c) /\ pc[c] = Of("full", b)
    BY <1>7, CallerInstr DEF Numbers
  <2>1. f[pc[c]] = If(Of("keys", b), Full, Of("send", b), Of("leave", b))
    BY <1>1, <2>0, NumberedCode
  <2>2. PICK l : l = IF heap[Of("keys", b)] \in Full THEN Of("send", b) ELSE Of("leave", b)
    OBVIOUS
  <2>3. Goto(c, l) /\ heap' = heap /\ UNCHANGED <<val, buf, closed, lock, wg>>
    BY <1>1, <2>1, <2>2, DoesIf DEF DataStays
  <2>4. /\ l \in DOMAIN StageOf /\ BatchAt[l] = b
        /\ StageOf[l] = IF KeysIn(b) \in Full THEN "send" ELSE "leave"
    BY <2>2, NumberTable DEF Numbers, KeysIn
  <2>5. /\ Stage(c)' = (IF KeysIn(b) \in Full THEN "send" ELSE "leave") /\ Batch(c)' = b
        /\ OthersStay(c) /\ TimersStay /\ DoneStays /\ Alone(c)
        /\ ((DOMAIN heap' = DOMAIN heap /\ Pending' \in 0 .. 3 /\ \A j \in Keys : BatchOf(j)' \in 0 .. 3) => Orderly')
    BY <1>2, <2>3, <2>4, CallerWrites
  <2>6. CellsStay /\ PendingStays /\ BatchesStay
    BY <2>3, HeapStays DEF CellsStay
  <2>7. Orderly'
    BY <1>0, <2>3, <2>5, <2>6 DEF PendingStays, BatchesStay
  <2>8. Sound(keyOf)'
    BY <1>0, <1>7, <2>0, <2>5, <2>6, CallerLooks
  <2> QED BY <1>3, <2>7, <2>8
<1> QED BY <1>4, <1>5, <1>6, <1>7

\* enqueue: the full batch is sent and no longer pending.
LEMMA CallerSendsFull ==
  ASSUME NEW keyOf, Asking(keyOf), LoaderParts(keyOf), NEW c \in Callers, Step(c), Stage(c) \in {"send", "clear"}
  PROVE  LoaderParts(keyOf)'
<1>0. /\ keyOf \in [Callers -> Keys] /\ Sound(keyOf) /\ LoaderLabels /\ DOMAIN heap = LoaderVars
      /\ Pending \in 0 .. 3 /\ \A k \in Keys : BatchOf(k) \in 0 .. 3
  BY SoundTimes DEF LoaderCells
<1>1. PICK f, k : k \in Keys /\ k = keyOf[c] /\ CallerCode(k, f) /\ Perform(c, f[pc[c]]) /\ Knows(keyOf, c, k)
  BY CallerInstr
<1>2. Stage(c) \in LoadMu
  BY DEF LoadMu
<1>3. ASSUME Sound(keyOf)', Orderly' PROVE LoaderParts(keyOf)'
  BY <1>3 DEF LoaderParts
<1>4. CASE Stage(c) = "send"
  <2>0. PICK b \in Keys : b = Batch(c) /\ pc[c] = Of("send", b)
    BY <1>4, CallerInstr DEF Numbers
  <2>1. f[pc[c]] = Set(Of("sent", b), 1, Of("clear", b))
    BY <1>1, <2>0, NumberedCode
  <2>2. PICK l : l = Of("clear", b)
    OBVIOUS
  <2>3. Goto(c, l) /\ heap' = [heap EXCEPT ![Of("sent", b)] = 1] /\ UNCHANGED <<val, buf, closed, lock, wg>>
    BY <1>1, <2>1, <2>2, DoesSet
  <2>4. l \in DOMAIN StageOf /\ StageOf[l] = "clear" /\ BatchAt[l] = b
    BY <2>2, NumberTable DEF Numbers
  <2>5. /\ Stage(c)' = "clear" /\ Batch(c)' = b /\ OthersStay(c) /\ TimersStay /\ DoneStays /\ Alone(c)
        /\ ((DOMAIN heap' = DOMAIN heap /\ Pending' \in 0 .. 3 /\ \A j \in Keys : BatchOf(j)' \in 0 .. 3) => Orderly')
    BY <1>2, <2>3, <2>4, CallerWrites
  <2>6. /\ PendingStays /\ BatchesStay /\ KeysStay /\ ResultsStay /\ DOMAIN heap' = DOMAIN heap
        /\ Sent(b)' = 1 /\ \A j \in Keys \ {b} : Sent(j)' = Sent(j)
    BY <1>0, <2>3, SetsCell DEF Cells
  <2>7. Orderly'
    BY <1>0, <2>5, <2>6 DEF PendingStays, BatchesStay
  <2>8. Sound(keyOf)'
    BY <1>0, <1>4, <2>0, <2>5, <2>6, CallerSends
  <2> QED BY <1>3, <2>7, <2>8
<1>5. CASE Stage(c) = "clear"
  <2>0. PICK b \in Keys : b = Batch(c) /\ pc[c] = Of("clear", b)
    BY <1>5, CallerInstr DEF Numbers
  <2>1. f[pc[c]] = Set("pending", 0, Of("go", b))
    BY <1>1, <2>0, NumberedCode
  <2>2. PICK l : l = Of("go", b)
    OBVIOUS
  <2>3. Goto(c, l) /\ heap' = [heap EXCEPT !["pending"] = 0] /\ UNCHANGED <<val, buf, closed, lock, wg>>
    BY <1>1, <2>1, <2>2, DoesSet
  <2>4. l \in DOMAIN StageOf /\ StageOf[l] = "go" /\ BatchAt[l] = b
    BY <2>2, NumberTable DEF Numbers
  <2>5. /\ Stage(c)' = "go" /\ Batch(c)' = b /\ OthersStay(c) /\ TimersStay /\ DoneStays /\ Alone(c)
        /\ ((DOMAIN heap' = DOMAIN heap /\ Pending' \in 0 .. 3 /\ \A j \in Keys : BatchOf(j)' \in 0 .. 3) => Orderly')
    BY <1>2, <2>3, <2>4, CallerWrites
  <2>6. Pending' = 0 /\ BatchesStay /\ KeysStay /\ SentStays /\ ResultsStay /\ DOMAIN heap' = DOMAIN heap
    BY <1>0, <2>3, SetsPending
  <2>7. Orderly'
    BY <1>0, <2>5, <2>6 DEF BatchesStay
  <2>8. Sound(keyOf)'
    BY <1>0, <1>5, <2>0, <2>5, <2>6, CallerClears
  <2> QED BY <1>3, <2>7, <2>8
<1> QED BY <1>4, <1>5

\* A caller in its section starts one goroutine.
LEMMA CallerStarts ==
  ASSUME NEW keyOf, Asking(keyOf), LoaderParts(keyOf), NEW c \in Callers, Stage(c) \in LoadMu,
         NEW l \in DOMAIN StageOf, StageOf[l] # "end", NEW b \in Keys, NEW g \in {Of("flush", b), Of("run", b)},
         pc' = [h \in Goroutines |-> IF h = c THEN l ELSE IF h \in {g} THEN "start" ELSE pc[h]], DataStays,
         StageOf[l] \in LoadMu
  PROVE  /\ Stage(c)' = StageOf[l] /\ Batch(c)' = BatchAt[l] /\ OthersStay(c) /\ CellsStay /\ DoneStays /\ Alone(c)
         /\ \A a \in Keys : FlushHas(a)' = FlushHas(a) /\ RunnerHas(a)' = RunnerHas(a)
         /\ \A a \in Keys : Flush(a)' = IF g = Of("flush", a) THEN "start" ELSE Flush(a)
         /\ \A a \in Keys : Runner(a)' = IF g = Of("run", a) THEN "start" ELSE Runner(a)
         /\ Orderly'
<1>0. Orderly /\ LoaderLabels /\ LoaderCells /\ CallersCounted /\ LoaderMu
  BY SoundTimes
<1>1. /\ DOMAIN pc = {"main", "flush1", "flush2", "flush3", "run1", "run2", "run3"} \cup Callers /\ DOMAIN val = DOMAIN pc
      /\ DOMAIN pc = {"main"} \cup TimerNames \cup Callers /\ DOMAIN pc = Goroutines
  BY <1>0, LoaderRuns DEF LoaderLabels, TimerNames
<1>2. DOMAIN pc' = DOMAIN pc /\ pc'[c] = l /\ \A h \in DOMAIN pc : h # c /\ h # g => pc'[h] = pc[h]
  BY <1>1
<1>3. g \in TimerNames /\ g \notin Callers /\ g # "main" /\ c # "main"
  BY TimersAre
<1>4. pc'[g] = "start"
  BY <1>1, <1>3
<1>5. Stage(c)' = StageOf[l] /\ Batch(c)' = BatchAt[l]
  BY <1>2 DEF Stage, Batch
<1>6. OthersStay(c)
  BY <1>1, <1>2, <1>3 DEF OthersStay, CallerStays, Stage, Batch, DataStays
<1>7. \A a \in Keys : FlushHas(a)' = FlushHas(a) /\ RunnerHas(a)' = RunnerHas(a)
  BY DEF FlushHas, RunnerHas, DataStays
<1>8. \A a \in Keys : Flush(a)' = IF g = Of("flush", a) THEN "start" ELSE Flush(a)
  BY <1>1, <1>2, <1>4, TimersAre DEF Flush
<1>9. \A a \in Keys : Runner(a)' = IF g = Of("run", a) THEN "start" ELSE Runner(a)
  BY <1>1, <1>2, <1>4, TimersAre DEF Runner
<1>10. CellsStay /\ DoneStays /\ PendingStays /\ BatchesStay
  BY HeapStays DEF DataStays, CellsStay, DoneStays, Done
<1>11. Alone(c)
  BY <1>0, CallerAlone
<1>12. pc'["main"] = pc["main"]
  BY <1>1, <1>2, <1>3
<1>13. LoaderLabels'
  <2>1. \A d \in Callers : pc'[d] \in DOMAIN StageOf
    BY <1>0, <1>1, <1>2, <1>3 DEF LoaderLabels
  <2>2. \A a \in Keys : /\ Flush(a)' \in {"idle", "start", "run", "end"} \cup FlushMu \cup Fetching
                        /\ Runner(a)' \in {"idle", "start", "end"} \cup Fetching
    BY <1>0, <1>8, <1>9 DEF LoaderLabels
  <2>3. pc'["main"] \in {"start", "go", "wait", "cancel", "end"} /\ pc'["main"] \notin {"start", "go"}
    BY <1>0, <1>12 DEF LoaderLabels, LoadMu
  <2>4. DOMAIN val' = DOMAIN val
    BY DEF DataStays
  <2> QED BY <1>1, <1>2, <2>1, <2>2, <2>3, <2>4 DEF LoaderLabels
<1>14. LoaderMu'
  <2>1. \A a \in Keys : Flush(a)' \in FlushMu => Flush(a) \in FlushMu
    BY <1>8 DEF FlushMu
  <2>2. \A d \in Callers : Stage(d)' \in LoadMu => Stage(d) \in LoadMu
    BY <1>6 DEF OthersStay, CallerStays
  <2> QED BY <1>0, <2>1, <2>2 DEF LoaderMu, DataStays
<1>15. LoaderCells'
  BY <1>0, <1>10, CellsKept DEF DataStays, PendingStays, BatchesStay, LoaderCells
<1>16. CallersCounted'
  <2>1. \A d \in Callers : (Stage(d)' = "end") <=> (Stage(d) = "end")
    BY <1>5, <1>6 DEF OthersStay, CallerStays, LoadMu
  <2> QED BY <1>0, <1>12, <2>1, CountStays DEF DataStays
<1> QED BY <1>5, <1>6, <1>7, <1>8, <1>9, <1>10, <1>11, <1>13, <1>14, <1>15, <1>16 DEF Orderly

\* enqueue: a timer for a new batch, a goroutine for a full one.
LEMMA CallerForks ==
  ASSUME NEW keyOf, Asking(keyOf), LoaderParts(keyOf), NEW c \in Callers, Step(c), Stage(c) \in {"after", "go"}
  PROVE  LoaderParts(keyOf)'
<1>0. keyOf \in [Callers -> Keys] /\ Sound(keyOf) /\ LoaderLabels
  BY SoundTimes
<1>1. PICK f, k : k \in Keys /\ k = keyOf[c] /\ CallerCode(k, f) /\ Perform(c, f[pc[c]]) /\ Knows(keyOf, c, k)
  BY CallerInstr
<1>2. Stage(c) \in LoadMu
  BY DEF LoadMu
<1>3. ASSUME Sound(keyOf)', Orderly' PROVE LoaderParts(keyOf)'
  BY <1>3 DEF LoaderParts
<1>4. CASE Stage(c) = "after"
  <2>1. f[pc[c]] = Go({Of("flush", k)}, Of("add", k))
    BY <1>1, <1>4, CallerInstr DEF CallerCode, Plain
  <2>2. PICK l, g : l = Of("add", k) /\ g = Of("flush", k)
    OBVIOUS
  <2>3. pc' = [h \in Goroutines |-> IF h = c THEN l ELSE IF h \in {g} THEN "start" ELSE pc[h]] /\ DataStays
    BY <1>1, <2>1, <2>2, DoesGo
  <2>4. l \in DOMAIN StageOf /\ StageOf[l] = "add" /\ BatchAt[l] = k
    BY <1>1, <2>2, NumberTable DEF Numbers
  <2>5. /\ Stage(c)' = "add" /\ Batch(c)' = k /\ OthersStay(c) /\ CellsStay /\ DoneStays /\ Alone(c)
        /\ \A a \in Keys : FlushHas(a)' = FlushHas(a) /\ RunnerHas(a)' = RunnerHas(a)
        /\ \A a \in Keys : Flush(a)' = IF g = Of("flush", a) THEN "start" ELSE Flush(a)
        /\ \A a \in Keys : Runner(a)' = IF g = Of("run", a) THEN "start" ELSE Runner(a)
        /\ Orderly'
    BY <1>1, <1>2, <2>2, <2>3, <2>4, CallerStarts DEF LoadMu
  <2>6. /\ Flush(k)' = "start" /\ \A a \in Keys : a # k => Flush(a)' = Flush(a)
        /\ \A a \in Keys : Runner(a)' = Runner(a)
    BY <1>1, <2>2, <2>5, TimersAre
  <2>7. Sound(keyOf)'
    BY <1>0, <1>1, <1>4, <2>5, <2>6, CallerStartsTimer
  <2> QED BY <1>3, <2>5, <2>7
<1>5. CASE Stage(c) = "go"
  <2>0. PICK b \in Keys : b = Batch(c) /\ pc[c] = Of("go", b)
    BY <1>5, CallerInstr DEF Numbers
  <2>1. f[pc[c]] = Go({Of("run", b)}, Of("leave", b))
    BY <1>1, <2>0, NumberedCode
  <2>2. PICK l, g : l = Of("leave", b) /\ g = Of("run", b)
    OBVIOUS
  <2>3. pc' = [h \in Goroutines |-> IF h = c THEN l ELSE IF h \in {g} THEN "start" ELSE pc[h]] /\ DataStays
    BY <1>1, <2>1, <2>2, DoesGo
  <2>4. l \in DOMAIN StageOf /\ StageOf[l] = "leave" /\ BatchAt[l] = b
    BY <2>2, NumberTable DEF Numbers
  <2>5. /\ Stage(c)' = "leave" /\ Batch(c)' = b /\ OthersStay(c) /\ CellsStay /\ DoneStays /\ Alone(c)
        /\ \A a \in Keys : FlushHas(a)' = FlushHas(a) /\ RunnerHas(a)' = RunnerHas(a)
        /\ \A a \in Keys : Flush(a)' = IF g = Of("flush", a) THEN "start" ELSE Flush(a)
        /\ \A a \in Keys : Runner(a)' = IF g = Of("run", a) THEN "start" ELSE Runner(a)
        /\ Orderly'
    BY <1>2, <2>2, <2>3, <2>4, CallerStarts DEF LoadMu
  <2>6. /\ Runner(b)' = "start" /\ \A a \in Keys \ {b} : Runner(a)' = Runner(a)
        /\ \A a \in Keys : Flush(a)' = Flush(a)
    BY <2>2, <2>5, TimersAre
  <2>7. Sound(keyOf)'
    BY <1>0, <1>5, <2>0, <2>5, <2>6, CallerStartsRun
  <2> QED BY <1>3, <2>5, <2>7
<1> QED BY <1>4, <1>5

LEMMA CallerStepKeeps ==
  ASSUME NEW keyOf, Asking(keyOf), LoaderParts(keyOf), NEW c \in Callers, Step(c)
  PROVE  LoaderParts(keyOf)'
<1>1. Stage(c) \in Numbers \cup (Plain \ {"idle", "end"})
  BY CallerInstr
<1>2. CASE Stage(c) \in {"start", "cached", "cached1", "cached2"}
  BY <1>2, CallerFinds
<1>3. CASE Stage(c) \in {"enqueue", "pending1", "pending2"}
  BY <1>3, CallerEnqueues
<1>4. CASE Stage(c) \in {"open", "add", "key", "full"}
  BY <1>4, CallerJoins
<1>5. CASE Stage(c) \in {"send", "clear"}
  BY <1>5, CallerSendsFull
<1>6. CASE Stage(c) \in {"after", "go"}
  BY <1>6, CallerForks
<1>7. CASE Stage(c) \in {"leave", "wait", "read"}
  BY <1>7, CallerWaits
<1>8. CASE Stage(c) = "done"
  BY <1>8, CallerReturns
<1> QED BY <1>1, <1>2, <1>3, <1>4, <1>5, <1>6, <1>7, <1>8 DEF Numbers, Plain

-----------------------------------------------------------------------------
(* The batching cache: flush and run, step by step.                        *)

LEMMA FlushInstr ==
  ASSUME NEW keyOf, Asking(keyOf), LoaderParts(keyOf), NEW b \in Keys, Step(Of("flush", b))
  PROVE  /\ \E f : FlushCode(b, f) /\ Perform(Of("flush", b), f[Flush(b)])
         /\ Flush(b) \in FlushLabels \ {"idle", "end"}
         /\ Flush(b) \in FlushMu => AloneTimer(b) /\ lock["mu"] = Held(Of("flush", b), 0)
<1>1. LoaderLabels /\ LoaderMu
  BY SoundTimes
<1>2. PICK g : g = Of("flush", b)
  OBVIOUS
<1>3. Running(g) /\ Perform(g, Instr(g))
  BY <1>2, StepPerforms
<1>4. PICK f : f = flush(b)
  OBVIOUS
<1>5. Program.code[g] = f
  BY <1>2, <1>4, LoaderRuns
<1>6. pc[g] = Flush(b)
  BY <1>2 DEF Flush
<1>7. Perform(g, f[Flush(b)])
  BY <1>3, <1>5, <1>6 DEF Instr
<1>8. FlushCode(b, f)
  BY <1>4, FlushCodeIs
<1>9. Flush(b) \in FlushLabels \ {"idle", "end"}
  BY <1>1, <1>3, <1>6 DEF Running, LoaderLabels, FlushLabels
<1>10. Flush(b) \in FlushMu => AloneTimer(b) /\ lock["mu"] = Held(Of("flush", b), 0)
  BY <1>1, TimerAlone
<1> QED BY <1>2, <1>7, <1>8, <1>9, <1>10

LEMMA RunInstr ==
  ASSUME NEW keyOf, Asking(keyOf), LoaderParts(keyOf), NEW b \in Keys, Step(Of("run", b))
  PROVE  /\ \E f : RunCode(b, f) /\ Perform(Of("run", b), f[Runner(b)])
         /\ Runner(b) \in RunnerLabels \ {"idle", "end"}
<1>1. LoaderLabels
  BY SoundTimes
<1>2. PICK g : g = Of("run", b)
  OBVIOUS
<1>3. Running(g) /\ Perform(g, Instr(g))
  BY <1>2, StepPerforms
<1>4. PICK f : f = run(b, "start")
  OBVIOUS
<1>5. Program.code[g] = f
  BY <1>2, <1>4, LoaderRuns
<1>6. pc[g] = Runner(b)
  BY <1>2 DEF Runner
<1>7. Perform(g, f[Runner(b)])
  BY <1>3, <1>5, <1>6 DEF Instr
<1>8. RunCode(b, f)
  BY <1>4, RunCodeIs DEF RunCode
<1>9. Runner(b) \in RunnerLabels \ {"idle", "end"}
  BY <1>1, <1>3, <1>6 DEF Running, LoaderLabels, RunnerLabels
<1> QED BY <1>2, <1>7, <1>8, <1>9

\* How the step of g, which runs batch b, to label l changes l.mu.
TimerMuAt(g, b, l) ==
  \/ lock' = lock /\ (g = Of("flush", b) /\ l \in FlushMu => Flush(b) \in FlushMu)
  \/ g = Of("flush", b) /\ Unlocked("mu") /\ lock' = [lock EXCEPT !["mu"] = Held(g, 0)]
  \/ g = Of("flush", b) /\ Flush(b) \in FlushMu /\ l \notin FlushMu /\ lock' = [lock EXCEPT !["mu"] = Released("mu")]
TimerLabels(g, b) == IF g = Of("flush", b) THEN FlushLabels ELSE RunnerLabels
Runs(g, b)        == (g = Of("flush", b) /\ FlushRuns(b)) \/ (g = Of("run", b) /\ RunRuns(b))

LEMMA TimerMoves ==
  ASSUME NEW keyOf, Asking(keyOf), LoaderParts(keyOf), NEW b \in Keys, NEW g \in {Of("flush", b), Of("run", b)},
         NEW l \in TimerLabels(g, b), Goto(g, l), OnlyHas(g), TimerMuAt(g, b, l), UNCHANGED <<buf, wg>>
  PROVE  /\ g = Of("flush", b) => Flush(b)' = l /\ Runner(b)' = Runner(b) /\ RunnerHas(b)' = RunnerHas(b)
         /\ g = Of("run", b) => Runner(b)' = l /\ Flush(b)' = Flush(b) /\ FlushHas(b)' = FlushHas(b)
         /\ CallersStay /\ \A a \in Keys \ {b} : TimerStays(a)
         /\ (DOMAIN heap' = DOMAIN heap /\ Pending' \in 0 .. 3 /\ BatchesStay) => Orderly'
<1>1. Orderly /\ LoaderLabels
  BY SoundTimes
<1>2. Of("flush", b) # Of("run", b)
  BY TimersAre
<1>3. (g = Of("flush", b) => l \in FlushLabels) /\ (g = Of("run", b) => l \in RunnerLabels)
  BY <1>2 DEF TimerLabels
<1>4. /\ g = Of("flush", b) => Flush(b)' = l /\ Runner(b)' = Runner(b) /\ RunnerHas(b)' = RunnerHas(b)
      /\ g = Of("run", b) => Runner(b)' = l /\ Flush(b)' = Flush(b) /\ FlushHas(b)' = FlushHas(b)
      /\ CallersStay /\ \A a \in Keys \ {b} : TimerStays(a)
  BY <1>1, <1>3, OnlyTimer
<1>5. TimerMu(b)
  BY <1>2, <1>4 DEF TimerMu, TimerMuAt
<1>6. ASSUME DOMAIN heap' = DOMAIN heap, Pending' \in 0 .. 3, BatchesStay PROVE Orderly'
  BY <1>1, <1>3, <1>5, <1>6, TimerTurn
<1> QED BY <1>4, <1>6

\* A step of a timer or a full batch that neither sends its batch nor clears the
\* pending place.
LEMMA TimerGoesOn ==
  ASSUME NEW keyOf, Asking(keyOf), LoaderParts(keyOf), NEW b \in Keys, NEW g \in {Of("flush", b), Of("run", b)},
         NEW l \in TimerLabels(g, b) \ {"idle", "start", "pending"}, Goto(g, l), OnlyHas(g), TimerMuAt(g, b, l),
         UNCHANGED <<buf, wg>>, DOMAIN heap' = DOMAIN heap, PendingStays, BatchesStay, KeysStay, SentStays,
         \A a \in Keys \ {b} : Results(a)' = Results(a) /\ (Done(a)' <=> Done(a)),
         pc[g] \notin {"idle", "pending"},
         l \in {"unlock", "run"} \cup Fetching => Runs(g, b),
         l = "sent" => Sent(b) = 0,
         l \in {"fetch", "rows"} => val'[g] = KeysIn(b),
         Results(b)' \in {Results(b), Failed} \/ (Sent(b) = 1 /\ Results(b)' = KeysIn(b)),
         Done(b) => Done(b)', Done(b)' => Done(b) \/ (l = "end" /\ Runs(g, b))
  PROVE  LoaderParts(keyOf)'
<1>1. /\ keyOf \in [Callers -> Keys] /\ Sound(keyOf) /\ LoaderLabels /\ Pending \in 0 .. 3
  BY SoundTimes
<1>2. /\ g = Of("flush", b) => Flush(b)' = l /\ Runner(b)' = Runner(b) /\ RunnerHas(b)' = RunnerHas(b)
      /\ g = Of("run", b) => Runner(b)' = l /\ Flush(b)' = Flush(b) /\ FlushHas(b)' = FlushHas(b)
      /\ CallersStay /\ \A a \in Keys \ {b} : TimerStays(a)
      /\ (DOMAIN heap' = DOMAIN heap /\ Pending' \in 0 .. 3 /\ BatchesStay) => Orderly'
  BY TimerMoves
<1>3. Orderly'
  BY <1>1, <1>2 DEF PendingStays
<1>4. Of("flush", b) # Of("run", b)
  BY TimersAre
<1>5. /\ FlushRuns(b) \/ RunRuns(b) => Sent(b) = 1 /\ ~Going(b)
      /\ ~(FlushRuns(b) /\ RunRuns(b))
      /\ Flush(b) = "sent" => Sent(b) = 0
      /\ Flush(b) \in {"fetch", "rows"} => FlushHas(b) = KeysIn(b)
      /\ Runner(b) \in {"fetch", "rows"} => RunnerHas(b) = KeysIn(b)
  BY <1>1 DEF Sound, RunsFit
<1>6. CASE g = Of("flush", b)
  <2>1. /\ Flush(b)' = l /\ Runner(b)' = Runner(b) /\ RunnerHas(b)' = RunnerHas(b) /\ FlushHas(b)' = val'[g]
        /\ Flush(b) = pc[g] /\ (Runs(g, b) <=> FlushRuns(b))
    BY <1>2, <1>4, <1>6 DEF Flush, FlushHas, Runs
  <2>2. RunRuns(b)' <=> RunRuns(b)
    BY <2>1 DEF RunRuns
  <2>3. FlushRuns(b)' => FlushRuns(b)
    BY <2>1 DEF FlushRuns
  <2>4. l = "end" => ~FlushRuns(b)'
    BY <2>1 DEF FlushRuns, Fetching
  <2>5. Quiet(b)
    BY <1>2, <1>5, <2>1, <2>2, <2>3, <2>4 DEF Quiet
  <2> QED BY <1>1, <1>3, <2>5, TimerQuiet DEF LoaderParts
<1>7. CASE g = Of("run", b)
  <2>1. /\ Runner(b)' = l /\ Flush(b)' = Flush(b) /\ FlushHas(b)' = FlushHas(b) /\ RunnerHas(b)' = val'[g]
        /\ Runner(b) = pc[g] /\ (Runs(g, b) <=> RunRuns(b))
    BY <1>2, <1>4, <1>7 DEF Runner, RunnerHas, Runs
  <2>2. FlushRuns(b)' <=> FlushRuns(b)
    BY <2>1 DEF FlushRuns
  <2>3. RunRuns(b)' => RunRuns(b)
    BY <2>1 DEF RunRuns
  <2>4. l = "end" => ~RunRuns(b)'
    BY <2>1 DEF RunRuns, Fetching
  <2>5. Quiet(b)
    BY <1>2, <1>5, <2>1, <2>2, <2>3, <2>4 DEF Quiet
  <2> QED BY <1>1, <1>3, <2>5, TimerQuiet DEF LoaderParts
<1> QED BY <1>6, <1>7

LEMMA DonesDiffer ==
  \A a, b \in Keys : a # b => Of("done", a) # Of("done", b)
BY ThreeKeys, CellNames

\* run takes the list it was sent with.
LEMMA TakesKeys ==
  ASSUME NEW keyOf, Asking(keyOf), LoaderParts(keyOf), NEW b \in Keys, NEW g \in {Of("flush", b), Of("run", b)},
         pc[g] \in {"start", "run"}, Runs(g, b), Perform(g, Read(Of("keys", b), "fetch"))
  PROVE  LoaderParts(keyOf)'
<1>0. LoaderLabels
  BY SoundTimes
<1>1. /\ Goto(g, "fetch") /\ val' = [val EXCEPT ![g] = heap[Of("keys", b)]]
      /\ UNCHANGED <<buf, closed, lock, wg, heap>>
  BY DoesRead
<1>2. g \in DOMAIN val
  BY <1>0, TimersAre DEF LoaderLabels, TimerNames
<1>3. val'[g] = KeysIn(b) /\ OnlyHas(g)
  BY <1>1, <1>2 DEF KeysIn, OnlyHas
<1>4. CellsStay /\ PendingStays /\ BatchesStay /\ KeysStay /\ SentStays /\ ResultsStay
  BY <1>1, HeapStays DEF CellsStay
<1>5. \A a \in Keys : Results(a)' = Results(a) /\ (Done(a)' <=> Done(a))
  BY <1>1, <1>4 DEF ResultsStay, Done
<1>6. "fetch" \in TimerLabels(g, b) \ {"idle", "start", "pending"} /\ "fetch" \notin FlushMu
  BY DEF TimerLabels, FlushLabels, RunnerLabels, Fetching, FlushMu
<1>7. TimerMuAt(g, b, "fetch")
  BY <1>1, <1>6 DEF TimerMuAt
<1> QED BY <1>1, <1>3, <1>4, <1>5, <1>6, <1>7, TimerGoesOn

\* run asks for the rows, gets them, an error or a panic, and says that it is done.
LEMMA Fetches ==
  ASSUME NEW keyOf, Asking(keyOf), LoaderParts(keyOf), NEW b \in Keys, NEW g \in {Of("flush", b), Of("run", b)},
         NEW f, FetchCode(b, f), pc[g] \in Fetching, Perform(g, f[pc[g]])
  PROVE  LoaderParts(keyOf)'
<1>1. Runs(g, b)
  BY DEF Runs, FlushRuns, RunRuns, Flush, Runner
<1>2. Sound(keyOf) /\ LoaderLabels /\ DOMAIN heap = LoaderVars
  BY SoundTimes DEF LoaderCells
<1>3. Sent(b) = 1 /\ ~Done(b)
  BY <1>1, <1>2 DEF Runs, Sound, RunsFit
<1>4. pc[g] \in {"fetch", "rows"} => val[g] = KeysIn(b)
  BY <1>2 DEF Sound, RunsFit, Flush, Runner, FlushHas, RunnerHas
<1>5. ASSUME NEW l \in Fetching \cup {"end"}
      PROVE  /\ l \in TimerLabels(g, b) \ {"idle", "start", "pending", "sent"}
             /\ lock' = lock => TimerMuAt(g, b, l)
  <2>1. l \notin FlushMu
    BY DEF Fetching, FlushMu
  <2> QED BY <2>1 DEF TimerLabels, FlushLabels, RunnerLabels, TimerMuAt, Fetching
<1>6. pc[g] \notin {"idle", "pending"}
  BY DEF Fetching
<1>7. ASSUME NEW l \in {"rows", "error", "crash"}, Goto(g, l), DataStays, l = "rows" => val[g] = KeysIn(b)
      PROVE  LoaderParts(keyOf)'
  <2>1. UNCHANGED <<val, buf, closed, lock, wg, heap>> /\ OnlyHas(g)
    BY <1>7, HasSame DEF DataStays
  <2>2. CellsStay /\ PendingStays /\ BatchesStay /\ KeysStay /\ SentStays /\ ResultsStay
    BY <2>1, HeapStays DEF CellsStay
  <2>3. \A a \in Keys : Results(a)' = Results(a) /\ (Done(a)' <=> Done(a))
    BY <2>1, <2>2 DEF ResultsStay, Done
  <2>4. l \in TimerLabels(g, b) \ {"idle", "start", "pending"} /\ TimerMuAt(g, b, l) /\ l # "sent"
    BY <1>5, <2>1 DEF Fetching
  <2>5. l \in {"fetch", "rows"} => val'[g] = KeysIn(b)
    BY <1>7, <2>1
  <2> QED BY <1>1, <1>6, <1>7, <2>1, <2>2, <2>3, <2>4, <2>5, TimerGoesOn
<1>8. ASSUME NEW v, v = Failed \/ v = KeysIn(b), Goto(g, "close"), heap' = [heap EXCEPT ![Of("results", b)] = v],
             UNCHANGED <<val, buf, closed, lock, wg>>
      PROVE  LoaderParts(keyOf)'
  <2>1. /\ PendingStays /\ BatchesStay /\ KeysStay /\ SentStays /\ DOMAIN heap' = DOMAIN heap
        /\ Results(b)' = v /\ \A a \in Keys \ {b} : Results(a)' = Results(a)
    BY <1>2, <1>8, SetsCell DEF Cells
  <2>2. \A a \in Keys : Done(a)' <=> Done(a)
    BY <1>8 DEF Done
  <2>3. "close" \in TimerLabels(g, b) \ {"idle", "start", "pending"} /\ TimerMuAt(g, b, "close") /\ OnlyHas(g)
    BY <1>5, <1>8, HasSame DEF Fetching
  <2> QED BY <1>1, <1>3, <1>6, <1>8, <2>1, <2>2, <2>3, TimerGoesOn
<1>9. CASE pc[g] = "fetch"
  <2>1. f[pc[g]] = Either({"rows", "error", "crash"})
    BY <1>9 DEF FetchCode
  <2>2. (\E l \in {"rows", "error", "crash"} : Goto(g, l)) /\ DataStays
    BY <2>1, DoesEither
  <2> QED BY <1>4, <1>7, <1>9, <2>2
<1>10. CASE pc[g] = "rows"
  <2>1. f[pc[g]] = Write(Of("results", b), 0, "close")
    BY <1>10 DEF FetchCode
  <2>2. Goto(g, "close") /\ heap' = [heap EXCEPT ![Of("results", b)] = val[g] + 0] /\ UNCHANGED <<val, buf, closed, lock, wg>>
    BY <2>1, DoesWrite
  <2>3. PICK v : v = val[g] + 0
    OBVIOUS
  <2>4. KeysIn(b) \in 0 .. 6
    BY <1>2, ListIsSum DEF Sound
  <2>5. v = KeysIn(b)
    BY <1>4, <1>10, <2>3, <2>4
  <2>6. heap' = [heap EXCEPT ![Of("results", b)] = v]
    BY <2>2, <2>3
  <2> QED BY <1>8, <2>2, <2>5, <2>6
<1>11. CASE pc[g] = "error"
  <2>1. f[pc[g]] = Set(Of("results", b), Failed, "close")
    BY <1>11 DEF FetchCode
  <2>2. Goto(g, "close") /\ heap' = [heap EXCEPT ![Of("results", b)] = Failed] /\ UNCHANGED <<val, buf, closed, lock, wg>>
    BY <2>1, DoesSet
  <2> QED BY <1>8, <2>2
<1>12. CASE pc[g] = "crash"
  <2>1. f[pc[g]] = Panic("error")
    BY <1>12 DEF FetchCode
  <2>2. Goto(g, "error") /\ DataStays
    BY <2>1, DoesPanic DEF None
  <2> QED BY <1>7, <2>2
<1>13. CASE pc[g] = "close"
  <2>1. f[pc[g]] = Close(Of("done", b), "end")
    BY <1>13 DEF FetchCode
  <2>2. /\ Goto(g, IF Of("done", b) \in closed THEN "panic" ELSE "end") /\ closed' = closed \cup {Of("done", b)}
        /\ UNCHANGED <<val, buf, lock, wg, heap>>
    BY <2>1, DoesClose
  <2>3. Goto(g, "end")
    BY <1>3, <2>2 DEF Done
  <2>4. CellsStay /\ PendingStays /\ BatchesStay /\ KeysStay /\ SentStays /\ ResultsStay
    BY <2>2, HeapStays DEF CellsStay
  <2>5. \A a \in Keys \ {b} : Results(a)' = Results(a) /\ (Done(a)' <=> Done(a))
    BY <2>2, <2>4, DonesDiffer DEF ResultsStay, Done
  <2>6. Results(b)' = Results(b)
    BY <2>4 DEF ResultsStay
  <2>7. "end" \in TimerLabels(g, b) \ {"idle", "start", "pending"} /\ TimerMuAt(g, b, "end") /\ OnlyHas(g)
    BY <1>5, <2>2, HasSame
  <2>8. "end" \notin {"unlock", "run", "sent", "fetch", "rows"} \cup Fetching
    BY DEF Fetching
  <2> QED BY <1>1, <1>3, <1>6, <2>2, <2>3, <2>4, <2>5, <2>6, <2>7, <2>8, TimerGoesOn
<1> QED BY <1>9, <1>10, <1>11, <1>12, <1>13 DEF Fetching

\* A step of flush that writes no cell.
LEMMA FlushWalks ==
  ASSUME NEW keyOf, Asking(keyOf), LoaderParts(keyOf), NEW b \in Keys, NEW g, g = Of("flush", b),
         NEW l \in {"check", "leave", "sent", "run", "end"}, Goto(g, l), TimerMuAt(g, b, l),
         UNCHANGED <<val, buf, closed, wg, heap>>, Flush(b) \notin {"idle", "pending"},
         l = "run" => FlushRuns(b), l = "sent" => Sent(b) = 0
  PROVE  LoaderParts(keyOf)'
<1>1. CellsStay /\ PendingStays /\ BatchesStay /\ KeysStay /\ SentStays /\ ResultsStay
  BY HeapStays DEF CellsStay
<1>2. \A a \in Keys : Results(a)' = Results(a) /\ (Done(a)' <=> Done(a))
  BY <1>1 DEF ResultsStay, Done
<1>3. l \in TimerLabels(g, b) \ {"idle", "start", "pending"} /\ l \notin {"unlock", "fetch", "rows"} /\ l \notin Fetching
  BY DEF TimerLabels, FlushLabels, FlushMu, Fetching
<1>4. OnlyHas(g) /\ pc[g] \notin {"idle", "pending"} /\ (l = "run" => Runs(g, b))
  BY HasSame DEF Flush, Runs
<1> QED BY <1>1, <1>2, <1>3, <1>4, TimerGoesOn

\* flush looks under the mutex whether its batch has gone already.
LEMMA FlushLooks ==
  ASSUME NEW keyOf, Asking(keyOf), LoaderParts(keyOf), NEW b \in Keys, Step(Of("flush", b)),
         Flush(b) \in {"start", "check", "leave", "unlock"}
  PROVE  LoaderParts(keyOf)'
<1>1. PICK f, g : g = Of("flush", b) /\ FlushCode(b, f) /\ Perform(g, f[Flush(b)])
  BY FlushInstr
<1>2. Flush(b) \in FlushMu => lock["mu"] = Held(g, 0)
  BY <1>1, FlushInstr
<1>3. g # None
  BY <1>1, TimersAre
<1>4. CASE Flush(b) = "start"
  <2>1. f[Flush(b)] = Lock("mu", "check")
    BY <1>1, <1>4 DEF FlushCode
  <2>2. /\ Unlocked("mu") /\ Goto(g, "check") /\ lock' = [lock EXCEPT !["mu"] = Held(g, 0)]
        /\ UNCHANGED <<val, buf, closed, wg, heap>>
    BY <1>1, <2>1, DoesLock
  <2>3. TimerMuAt(g, b, "check")
    BY <1>1, <2>2 DEF TimerMuAt
  <2> QED BY <1>1, <1>4, <2>2, <2>3, FlushWalks
<1>5. CASE Flush(b) = "check"
  <2>1. f[Flush(b)] = If(Of("sent", b), {1}, "leave", "sent")
    BY <1>1, <1>5 DEF FlushCode
  <2>2. Goto(g, IF heap[Of("sent", b)] \in {1} THEN "leave" ELSE "sent") /\ DataStays
    BY <1>1, <2>1, DoesIf
  <2>3. Sent(b) \in {0, 1}
    BY SoundTimes DEF Sound, RunsFit
  <2>4. PICK l \in {"leave", "sent"} : Goto(g, l) /\ (l = "sent" => Sent(b) = 0)
    BY <2>2, <2>3 DEF Sent
  <2>5. TimerMuAt(g, b, l)
    BY <1>5, <2>2 DEF TimerMuAt, DataStays, FlushMu
  <2> QED BY <1>1, <1>5, <2>2, <2>4, <2>5, FlushWalks DEF DataStays
<1>6. CASE Flush(b) = "leave"
  <2>1. f[Flush(b)] = Unlock("mu", "end")
    BY <1>1, <1>6 DEF FlushCode
  <2>2. ~Unlocked("mu")
    BY <1>2, <1>3, <1>6, HeldIsLocked DEF FlushMu
  <2>3. Goto(g, "end") /\ lock' = [lock EXCEPT !["mu"] = Released("mu")] /\ UNCHANGED <<val, buf, closed, wg, heap>>
    BY <1>1, <2>1, <2>2, DoesUnlock
  <2>4. TimerMuAt(g, b, "end")
    BY <1>1, <1>6, <2>3 DEF TimerMuAt, FlushMu
  <2> QED BY <1>1, <1>6, <2>3, <2>4, FlushWalks
<1>7. CASE Flush(b) = "unlock"
  <2>1. f[Flush(b)] = Unlock("mu", "run")
    BY <1>1, <1>7 DEF FlushCode
  <2>2. ~Unlocked("mu")
    BY <1>2, <1>3, <1>7, HeldIsLocked DEF FlushMu
  <2>3. Goto(g, "run") /\ lock' = [lock EXCEPT !["mu"] = Released("mu")] /\ UNCHANGED <<val, buf, closed, wg, heap>>
    BY <1>1, <2>1, <2>2, DoesUnlock
  <2>4. TimerMuAt(g, b, "run") /\ FlushRuns(b)
    BY <1>1, <1>7, <2>3 DEF TimerMuAt, FlushMu, FlushRuns
  <2> QED BY <1>1, <1>7, <2>3, <2>4, FlushWalks
<1> QED BY <1>4, <1>5, <1>6, <1>7

\* flush sends its batch, and takes it out of the pending place.
LEMMA FlushSends ==
  ASSUME NEW keyOf, Asking(keyOf), LoaderParts(keyOf), NEW b \in Keys, Step(Of("flush", b)),
         Flush(b) \in {"sent", "pending"}
  PROVE  LoaderParts(keyOf)'
<1>0. /\ keyOf \in [Callers -> Keys] /\ Sound(keyOf) /\ LoaderLabels /\ DOMAIN heap = LoaderVars /\ Pending \in 0 .. 3
  BY SoundTimes DEF LoaderCells
<1>1. PICK f, g : g = Of("flush", b) /\ FlushCode(b, f) /\ Perform(g, f[Flush(b)])
  BY FlushInstr
<1>2. AloneTimer(b)
  BY FlushInstr DEF FlushMu
<1>3. ASSUME NEW l \in {"pending", "unlock"}, Goto(g, l), UNCHANGED <<val, buf, closed, lock, wg>>
      PROVE  /\ Flush(b)' = l /\ Runner(b)' = Runner(b) /\ RunnerHas(b)' = RunnerHas(b)
             /\ CallersStay /\ DoneStays /\ \A a \in Keys \ {b} : TimerStays(a)
             /\ (DOMAIN heap' = DOMAIN heap /\ Pending' \in 0 .. 3 /\ BatchesStay) => Orderly'
  <2>1. l \in TimerLabels(g, b) /\ OnlyHas(g) /\ TimerMuAt(g, b, l)
    BY <1>1, <1>3, HasSame DEF TimerLabels, FlushLabels, TimerMuAt, FlushMu
  <2>2. DoneStays
    BY <1>3 DEF DoneStays, Done
  <2> QED BY <1>1, <1>3, <2>1, <2>2, TimerMoves
<1>4. CASE Flush(b) = "sent"
  <2>1. f[Flush(b)] = Set(Of("sent", b), 1, "pending")
    BY <1>1, <1>4 DEF FlushCode
  <2>2. Goto(g, "pending") /\ heap' = [heap EXCEPT ![Of("sent", b)] = 1] /\ UNCHANGED <<val, buf, closed, lock, wg>>
    BY <1>1, <2>1, DoesSet
  <2>3. /\ PendingStays /\ BatchesStay /\ KeysStay /\ ResultsStay /\ DOMAIN heap' = DOMAIN heap
        /\ Sent(b)' = 1 /\ \A a \in Keys \ {b} : Sent(a)' = Sent(a)
    BY <1>0, <2>2, SetsCell DEF Cells
  <2>4. /\ Flush(b)' = "pending" /\ Runner(b)' = Runner(b) /\ RunnerHas(b)' = RunnerHas(b)
        /\ CallersStay /\ DoneStays /\ (\A a \in Keys \ {b} : TimerStays(a)) /\ Orderly'
    BY <1>0, <1>3, <2>2, <2>3 DEF PendingStays
  <2>5. Sound(keyOf)'
    BY <1>0, <1>2, <1>4, <2>3, <2>4, TimerSends
  <2> QED BY <2>4, <2>5 DEF LoaderParts
<1>5. CASE Flush(b) = "pending"
  <2>1. f[Flush(b)] = Set("pending", 0, "unlock")
    BY <1>1, <1>5 DEF FlushCode
  <2>2. Goto(g, "unlock") /\ heap' = [heap EXCEPT !["pending"] = 0] /\ UNCHANGED <<val, buf, closed, lock, wg>>
    BY <1>1, <2>1, DoesSet
  <2>3. Pending' = 0 /\ BatchesStay /\ KeysStay /\ SentStays /\ ResultsStay /\ DOMAIN heap' = DOMAIN heap
    BY <1>0, <2>2, SetsPending
  <2>4. /\ Flush(b)' = "unlock" /\ Runner(b)' = Runner(b) /\ RunnerHas(b)' = RunnerHas(b)
        /\ CallersStay /\ DoneStays /\ (\A a \in Keys \ {b} : TimerStays(a)) /\ Orderly'
    BY <1>3, <2>2, <2>3
  <2>5. Sound(keyOf)'
    BY <1>0, <1>2, <1>5, <2>3, <2>4, TimerClears
  <2> QED BY <2>4, <2>5 DEF LoaderParts
<1> QED BY <1>4, <1>5

LEMMA FlushStepKeeps ==
  ASSUME NEW keyOf, Asking(keyOf), LoaderParts(keyOf), NEW b \in Keys, Step(Of("flush", b))
  PROVE  LoaderParts(keyOf)'
<1>1. PICK f, g : g = Of("flush", b) /\ FlushCode(b, f) /\ Perform(g, f[Flush(b)])
  BY FlushInstr
<1>2. Flush(b) \in FlushLabels \ {"idle", "end"} /\ Flush(b) = pc[g]
  BY <1>1, FlushInstr DEF Flush
<1>3. CASE Flush(b) \in {"start", "check", "leave", "unlock"}
  BY <1>3, FlushLooks
<1>4. CASE Flush(b) \in {"sent", "pending"}
  BY <1>4, FlushSends
<1>5. CASE Flush(b) = "run"
  <2>1. f["run"] = Read(Of("keys", b), "fetch")
    BY <1>1 DEF FlushCode
  <2>2. Runs(g, b)
    BY <1>1, <1>5 DEF Runs, FlushRuns
  <2> QED BY <1>1, <1>2, <1>5, <2>1, <2>2, TakesKeys
<1>6. CASE Flush(b) \in Fetching
  <2>1. FetchCode(b, f)
    BY <1>1 DEF FlushCode
  <2> QED BY <1>1, <1>2, <1>6, <2>1, Fetches
<1> QED BY <1>2, <1>3, <1>4, <1>5, <1>6 DEF FlushLabels, FlushMu

LEMMA RunStepKeeps ==
  ASSUME NEW keyOf, Asking(keyOf), LoaderParts(keyOf), NEW b \in Keys, Step(Of("run", b))
  PROVE  LoaderParts(keyOf)'
<1>1. PICK f, g : g = Of("run", b) /\ RunCode(b, f) /\ Perform(g, f[Runner(b)])
  BY RunInstr
<1>2. Runner(b) \in RunnerLabels \ {"idle", "end"} /\ Runner(b) = pc[g]
  BY <1>1, RunInstr DEF Runner
<1>3. CASE Runner(b) = "start"
  <2>1. f["start"] = Read(Of("keys", b), "fetch")
    BY <1>1 DEF RunCode
  <2>2. Runs(g, b)
    BY <1>1, <1>3 DEF Runs, RunRuns
  <2> QED BY <1>1, <1>2, <1>3, <2>1, <2>2, TakesKeys
<1>4. CASE Runner(b) \in Fetching
  <2>1. FetchCode(b, f)
    BY <1>1 DEF RunCode
  <2> QED BY <1>1, <1>2, <1>4, <2>1, Fetches
<1> QED BY <1>2, <1>3, <1>4 DEF RunnerLabels

-----------------------------------------------------------------------------
(* The batching cache: the request, its deadline, and the whole.           *)

LEMMA CtxIsNoBatch ==
  \A b \in Keys : Of("done", b) # "ctx"
BY ThreeKeys, CellNames

\* Nobody moves but the request itself.
LEMMA MainMoves ==
  ASSUME NEW keyOf, Asking(keyOf), LoaderParts(keyOf), NEW l \in {"go", "wait", "cancel", "end"}, Goto("main", l),
         l = "go" => pc["main"] = "start", UNCHANGED <<val, buf, lock, heap>>, DOMAIN wg' = DOMAIN wg, DoneStays
  PROVE  /\ pc'["main"] = l /\ CallersStay
         /\ CallersCounted' => LoaderParts(keyOf)'
<1>1. /\ keyOf \in [Callers -> Keys] /\ Sound(keyOf) /\ LoaderLabels /\ LoaderCells /\ LoaderMu
      /\ Pending \in 0 .. 3 /\ \A k \in Keys : BatchOf(k) \in 0 .. 3
  BY SoundTimes
<1>2. /\ DOMAIN pc = {"main", "flush1", "flush2", "flush3", "run1", "run2", "run3"} \cup Callers /\ DOMAIN val = DOMAIN pc
      /\ DOMAIN pc = {"main"} \cup TimerNames \cup Callers
  BY <1>1 DEF LoaderLabels, TimerNames
<1>3. pc'["main"] = l /\ DOMAIN pc' = DOMAIN pc /\ \A h \in DOMAIN pc : h # "main" => pc'[h] = pc[h]
  BY <1>2 DEF Goto
<1>4. CallersStay
  BY <1>2, <1>3, TimersAre DEF CallersStay, CallerStays, Stage, Batch
<1>5. TimersStay
  BY <1>2, <1>3, TimersAre DEF TimersStay, TimerStays, Flush, Runner, FlushHas, RunnerHas
<1>6. CellsStay /\ PendingStays /\ BatchesStay
  BY HeapStays DEF CellsStay
<1>7. Sound(keyOf)'
  BY <1>1, <1>4, <1>5, <1>6, AllQuiet DEF CallersStay
<1>8. LoaderLabels'
  <2>1. \A d \in Callers : pc'[d] \in DOMAIN StageOf
    BY <1>1, <1>2, <1>3, TimersAre DEF LoaderLabels
  <2>2. \A b \in Keys : /\ Flush(b)' \in {"idle", "start", "run", "end"} \cup FlushMu \cup Fetching
                        /\ Runner(b)' \in {"idle", "start", "end"} \cup Fetching
    BY <1>1, <1>5 DEF LoaderLabels, TimersStay, TimerStays
  <2>3. pc'["main"] \in {"start", "go"} => \A d \in Callers : Stage(d)' = "idle"
    BY <1>1, <1>3, <1>4 DEF LoaderLabels, CallersStay, CallerStays
  <2> QED BY <1>2, <1>3, <2>1, <2>2, <2>3 DEF LoaderLabels
<1>9. LoaderMu'
  <2>1. \A d \in Callers : Stage(d)' = Stage(d)
    BY <1>4 DEF CallersStay, CallerStays
  <2>2. \A b \in Keys : Flush(b)' = Flush(b)
    BY <1>5 DEF TimersStay, TimerStays
  <2> QED BY <1>1, <2>1, <2>2 DEF LoaderMu
<1>10. LoaderCells'
  BY <1>1, <1>6, CellsKept DEF PendingStays, BatchesStay
<1> QED BY <1>3, <1>4, <1>7, <1>8, <1>9, <1>10 DEF LoaderParts, Orderly

\* The request starts its three resolvers.
LEMMA MainStarts ==
  ASSUME NEW keyOf, Asking(keyOf), LoaderParts(keyOf), pc["main"] = "go", DataStays,
         pc' = [h \in Goroutines |-> IF h = "main" THEN "wait" ELSE IF h \in Callers THEN "start" ELSE pc[h]]
  PROVE  LoaderParts(keyOf)'
<1>1. /\ keyOf \in [Callers -> Keys] /\ Sound(keyOf) /\ LoaderLabels /\ LoaderCells /\ LoaderMu /\ CallersCounted
      /\ Pending \in 0 .. 3 /\ \A k \in Keys : BatchOf(k) \in 0 .. 3
  BY SoundTimes
<1>2. /\ DOMAIN pc = {"main", "flush1", "flush2", "flush3", "run1", "run2", "run3"} \cup Callers /\ DOMAIN val = DOMAIN pc
      /\ DOMAIN pc = {"main"} \cup TimerNames \cup Callers /\ Goroutines = DOMAIN pc
  BY <1>1, LoaderRuns DEF LoaderLabels, TimerNames
<1>3. UNCHANGED <<val, buf, closed, lock, wg, heap>>
  BY DEF DataStays
<1>4. /\ pc'["main"] = "wait" /\ DOMAIN pc' = DOMAIN pc
      /\ \A c \in Callers : pc'[c] = "start"
      /\ \A h \in TimerNames : pc'[h] = pc[h]
  BY <1>2, TimersAre
<1>5. \A c \in Callers : Stage(c) = "idle" /\ Stage(c)' = "start" /\ pc'[c] \in DOMAIN StageOf
  BY <1>1, <1>4, PlainLabels DEF LoaderLabels, Stage, Plain
<1>6. TimersStay
  BY <1>2, <1>3, <1>4, TimersAre DEF TimersStay, TimerStays, Flush, Runner, FlushHas, RunnerHas
<1>7. CellsStay /\ PendingStays /\ BatchesStay /\ DoneStays
  BY <1>3, HeapStays DEF CellsStay, DoneStays, Done
<1>8. Sound(keyOf)'
  BY <1>1, <1>5, <1>6, <1>7, AllQuiet
<1>9. LoaderLabels'
  <2>1. \A b \in Keys : /\ Flush(b)' \in {"idle", "start", "run", "end"} \cup FlushMu \cup Fetching
                        /\ Runner(b)' \in {"idle", "start", "end"} \cup Fetching
    BY <1>1, <1>6 DEF LoaderLabels, TimersStay, TimerStays
  <2> QED BY <1>2, <1>3, <1>4, <1>5, <2>1 DEF LoaderLabels
<1>10. LoaderMu'
  <2>1. \A b \in Keys : Flush(b)' = Flush(b)
    BY <1>6 DEF TimersStay, TimerStays
  <2> QED BY <1>1, <1>3, <1>5, <2>1 DEF LoaderMu, LoadMu
<1>11. LoaderCells'
  BY <1>1, <1>3, <1>7, CellsKept DEF PendingStays, BatchesStay
<1>12. CallersCounted'
  BY <1>1, <1>3, <1>4, <1>5, CountStays
<1> QED BY <1>8, <1>9, <1>10, <1>11, <1>12 DEF LoaderParts, Orderly

LEMMA LoaderMainKeeps ==
  ASSUME NEW keyOf, Asking(keyOf), LoaderParts(keyOf), Step("main")
  PROVE  LoaderParts(keyOf)'
<1>1. LoaderLabels /\ CallersCounted /\ DOMAIN wg = Groups
  BY SoundTimes DEF LoaderCells
<1>2. Running("main") /\ Perform("main", Instr("main"))
  BY StepPerforms
<1>3. Perform("main", MainCode[pc["main"]])
  BY <1>2, LoaderRuns DEF Instr
<1>4. pc["main"] \in {"start", "go", "wait", "cancel"}
  BY <1>1, <1>2 DEF LoaderLabels, Running
<1>5. CASE pc["main"] = "start"
  <2>1. MainCode["start"] = Add("wg", 3, "go")
    BY DEF MainCode
  <2>2. /\ wg' = [wg EXCEPT !["wg"] = @ + 3] /\ Goto("main", IF wg'["wg"] < 0 THEN "panic" ELSE "go")
        /\ UNCHANGED <<val, buf, closed, lock, heap>>
    BY <1>3, <1>5, <2>1, DoesAdd
  <2>3. wg["wg"] = 0
    BY <1>1, <1>5 DEF CallersCounted
  <2>4. wg'["wg"] = 3 /\ DOMAIN wg' = DOMAIN wg
    BY <1>1, <2>2, <2>3 DEF Groups
  <2>5. Goto("main", "go")
    BY <2>2, <2>4
  <2>6. DoneStays
    BY <2>2 DEF DoneStays, Done
  <2>7. pc'["main"] = "go" /\ CallersStay /\ (CallersCounted' => LoaderParts(keyOf)')
    BY <1>5, <2>2, <2>4, <2>5, <2>6, MainMoves
  <2>8. \A c \in Callers : Unreturned(c)' = 1
    BY <1>1, <1>5, <2>7 DEF LoaderLabels, CallersStay, CallerStays, Unreturned
  <2>9. Unreturned("c1")' = 1 /\ Unreturned("c2")' = 1 /\ Unreturned("c3")' = 1
    BY <2>8 DEF Callers
  <2>10. CallersCounted'
    BY <2>4, <2>7, <2>9 DEF CallersCounted
  <2> QED BY <2>7, <2>10
<1>6. CASE pc["main"] = "go"
  <2>1. MainCode["go"] = Go(Callers, "wait")
    BY DEF MainCode
  <2>2. /\ pc' = [h \in Goroutines |-> IF h = "main" THEN "wait" ELSE IF h \in Callers THEN "start" ELSE pc[h]]
        /\ DataStays
    BY <1>3, <1>6, <2>1, DoesGo
  <2> QED BY <1>6, <2>2, MainStarts
<1>7. ASSUME NEW l \in {"cancel", "end"}, Goto("main", l), UNCHANGED <<val, buf, lock, wg, heap>>, DoneStays,
             pc["main"] # "start"
      PROVE  LoaderParts(keyOf)'
  <2>1. pc'["main"] = l /\ CallersStay /\ (CallersCounted' => LoaderParts(keyOf)')
    BY <1>7, MainMoves
  <2>2. CallersCounted'
    BY <1>1, <1>7, <2>1, CountStays DEF CallersStay, CallerStays
  <2> QED BY <2>1, <2>2
<1>8. CASE pc["main"] = "wait"
  <2>1. MainCode["wait"] = Wait("wg", "cancel")
    BY DEF MainCode
  <2>2. Goto("main", "cancel") /\ DataStays
    BY <1>3, <1>8, <2>1, DoesWait
  <2>3. DoneStays /\ UNCHANGED <<val, buf, lock, wg, heap>>
    BY <2>2 DEF DataStays, DoneStays, Done
  <2> QED BY <1>7, <1>8, <2>2, <2>3
<1>9. CASE pc["main"] = "cancel"
  <2>1. MainCode["cancel"] = Cancel({"ctx"}, "end")
    BY DEF MainCode
  <2>2. Goto("main", "end") /\ closed' = closed \cup {"ctx"} /\ UNCHANGED <<val, buf, lock, wg, heap>>
    BY <1>3, <1>9, <2>1, DoesCancel
  <2>3. DoneStays
    BY <2>2, CtxIsNoBatch DEF DoneStays, Done
  <2> QED BY <1>7, <1>9, <2>2, <2>3
<1> QED BY <1>4, <1>5, <1>6, <1>8, <1>9

\* Nobody moves: the request's deadline passes, or nothing happens.
LEMMA LoaderStands ==
  ASSUME NEW keyOf, Asking(keyOf), LoaderParts(keyOf), UNCHANGED <<pc, val, buf, lock, wg, heap>>, DoneStays
  PROVE  LoaderParts(keyOf)'
<1>1. /\ keyOf \in [Callers -> Keys] /\ Orderly /\ Sound(keyOf) /\ LoaderLabels
  BY SoundTimes
<1>2. CellsStay
  BY HeapStays
<1>3. CallersStay /\ TimersStay
  BY DEF CallersStay, CallerStays, TimersStay, TimerStays, Stage, Batch, Flush, Runner, FlushHas, RunnerHas
<1>4. Sound(keyOf)'
  BY <1>1, <1>2, <1>3, AllQuiet DEF CallersStay
<1>5. LoaderLabels'
  BY <1>1 DEF LoaderLabels, Flush, Runner, Stage
<1>6. LoaderCells'
  BY <1>1 DEF Orderly, LoaderCells, Pending, BatchOf
<1>7. CallersCounted'
  BY <1>1 DEF Orderly, CallersCounted, Unreturned, Stage
<1>8. LoaderMu'
  BY <1>1 DEF Orderly, LoaderMu, Stage, Flush
<1> QED BY <1>4, <1>5, <1>6, <1>7, <1>8 DEF LoaderParts, Orderly

LEMMA LoaderStepKeeps ==
  ASSUME NEW keyOf, Asking(keyOf), LoaderParts(keyOf), [Next]_vars
  PROVE  LoaderParts(keyOf)'
<1>1. CASE UNCHANGED vars
  <2>1. UNCHANGED <<pc, val, buf, closed, lock, wg, heap>>
    BY <1>1 DEF vars, chanVars, syncVars, dataVars
  <2>2. DoneStays
    BY <2>1 DEF DoneStays, Done
  <2> QED BY <2>1, <2>2, LoaderStands
<1>2. CASE Expire
  <2>1. UNCHANGED <<pc, val, buf, lock, wg, heap>> /\ closed' = closed \cup Program.deadlines
    BY <1>2 DEF Expire, syncVars, dataVars
  <2>2. Program.deadlines \subseteq {"ctx"}
    BY LoaderRuns
  <2>3. DoneStays
    BY <2>1, <2>2, CtxIsNoBatch DEF DoneStays, Done
  <2> QED BY <2>1, <2>3, LoaderStands
<1>3. ASSUME NEW g \in Goroutines, Step(g) PROVE LoaderParts(keyOf)'
  <2>1. Goroutines = {"main", "flush1", "flush2", "flush3", "run1", "run2", "run3"} \cup Callers
    BY LoaderRuns
  <2>2. CASE g \in Callers
    BY <1>3, <2>2, CallerStepKeeps
  <2>3. CASE g = "main"
    BY <1>3, <2>3, LoaderMainKeeps
  <2>4. ASSUME NEW b \in Keys, g = Of("flush", b) PROVE LoaderParts(keyOf)'
    BY <1>3, <2>4, FlushStepKeeps
  <2>5. ASSUME NEW b \in Keys, g = Of("run", b) PROVE LoaderParts(keyOf)'
    BY <1>3, <2>5, RunStepKeeps
  <2>6. CASE g \in {"flush1", "flush2", "flush3"}
    BY <2>4, <2>6, ThreeKeys, CellNames
  <2>7. CASE g \in {"run1", "run2", "run3"}
    BY <2>5, <2>7, ThreeKeys, CellNames
  <2> QED BY <2>1, <2>2, <2>3, <2>6, <2>7
<1> QED BY <1>1, <1>2, <1>3 DEF Next

LEMMA LoaderBegins ==
  ASSUME NEW keyOf, Asking(keyOf), Init
  PROVE  LoaderParts(keyOf)
<1>1. /\ Goroutines = {"main", "flush1", "flush2", "flush3", "run1", "run2", "run3"} \cup Callers
      /\ Program.caps = [c \in {"ctx", "done1", "done2", "done3"} |-> 0]
      /\ Program.vars = [x \in LoaderVars |-> 0]
  BY LoaderRuns
<1>2. Goroutines = {"main"} \cup TimerNames \cup Callers
  BY <1>1 DEF TimerNames
<1>3. /\ pc = [g \in Goroutines |-> IF g = "main" THEN "start" ELSE "idle"]
      /\ val = [g \in Goroutines |-> 0]
      /\ buf = [c \in {"ctx", "done1", "done2", "done3"} |-> <<>>] /\ closed = {}
      /\ lock = [m \in Mutexes |-> Held(None, 0)] /\ wg = [w \in Groups |-> 0]
      /\ heap = [x \in LoaderVars |-> 0]
  BY <1>1 DEF Init
<1>4. pc["main"] = "start" /\ \A c \in Callers : pc[c] = "idle" /\ Stage(c) = "idle" /\ pc[c] \in DOMAIN StageOf
  BY <1>2, <1>3, TimersAre, PlainLabels DEF Stage, Plain
<1>5. \A b \in Keys : Flush(b) = "idle" /\ Runner(b) = "idle" /\ ~Done(b)
  BY <1>2, <1>3, TimersAre DEF Flush, Runner, Done
<1>6. /\ Pending = 0
      /\ \A b \in Keys : BatchOf(b) = 0 /\ KeysIn(b) = 0 /\ Sent(b) = 0 /\ Results(b) = 0
  BY <1>3, CellsDiffer DEF Pending, BatchOf, KeysIn, Sent, Results, Cells
<1>7. LoaderLabels
  BY <1>1, <1>3, <1>4, <1>5 DEF LoaderLabels
<1>8. LoaderCells
  <2>1. \A b \in Keys : buf[Of("done", b)] = <<>>
    BY <1>3, ThreeKeys, CellNames
  <2> QED BY <1>3, <1>6, <2>1 DEF LoaderCells
<1>9. CallersCounted
  BY <1>3, <1>4 DEF CallersCounted, Groups
<1>10. LoaderMu
  BY <1>4, <1>5 DEF LoaderMu, LoadMu, FlushMu
<1>11. CallersKnow(keyOf)
  BY <1>4 DEF CallersKnow, Knows
<1>12. KeysFit(keyOf)
  <2>1. \A k, b \in Keys : Share(keyOf, k, b) = 0
    BY <1>6, ThreeKeys DEF Share, Written
  <2> QED BY <1>6, <2>1, ThreeKeys DEF KeysFit
<1>13. PendingFits
  BY <1>6, ThreeKeys DEF PendingFits
<1>14. FreshFits(keyOf)
  BY <1>5, <1>6, ThreeKeys DEF FreshFits
<1>15. \A b \in Keys : ~FlushRuns(b) /\ ~RunRuns(b) /\ ~Going(b)
  BY <1>4, <1>5 DEF FlushRuns, RunRuns, Going, Fetching
<1>16. RunsFit
  BY <1>5, <1>6, <1>15 DEF RunsFit, Failed
<1> QED BY <1>7, <1>8, <1>9, <1>10, <1>11, <1>12, <1>13, <1>14, <1>16 DEF LoaderParts, Orderly, Sound

LEMMA LoaderInvHolds ==
  /\ Init => LoaderInv
  /\ LoaderInv /\ [Next]_vars => LoaderInv'
<1>1. ASSUME Init PROVE LoaderInv
  BY <1>1, LoaderBegins DEF LoaderInv
<1>2. ASSUME LoaderInv, [Next]_vars PROVE LoaderInv'
  <2> SUFFICES ASSUME NEW keyOf \in {Distinct, Shared}, Asking(keyOf)' PROVE LoaderParts(keyOf)'
    BY DEF LoaderInv
  <2>1. prog' = prog
    BY <1>2, ProgStays
  <2>2. Asking(keyOf)
    BY <2>1 DEF Asking
  <2>3. LoaderParts(keyOf)
    BY <1>2, <2>2 DEF LoaderInv
  <2> QED BY <1>2, <2>2, <2>3, LoaderStepKeeps
<1> QED BY <1>1, <1>2

\* dataloader.go Load, enqueue, flush and run, whatever the callers, the timers and
\* the fetches do and in any order: l.mu serialises callers and timers; the list of a
\* batch is the keys cached in it; the pending batch is unsent and has room, but while
\* it is being sent; a batch is sent once, fetched once, by its timer or because it is
\* full, with the list it was sent with; its channel is closed once; and nobody panics.
THEOREM LoaderHolds == Spec => []LoaderInv
<1>1. LoaderInv /\ [Next]_vars => LoaderInv'
  BY LoaderInvHolds
<1> QED BY <1>1, LoaderInvHolds, PTL DEF Spec

LEMMA HoldingHasBit ==
  ASSUME NEW k \in Keys, NEW v \in Holding[k]
  PROVE  (v \div Bit[k]) % 2 = 1
<1>1. CASE k = 1
  <2>1. v \in {1, 3, 5, 7} /\ Bit[k] = 1
    BY <1>1, ThreeKeys DEF Holding
  <2> QED BY <2>1
<1>2. CASE k = 2
  <2>1. v \in {2, 3, 6, 7} /\ Bit[k] = 2
    BY <1>2, ThreeKeys DEF Holding
  <2> QED BY <2>1
<1>3. CASE k = 3
  <2>1. v \in {4, 5, 6, 7} /\ Bit[k] = 4
    BY <1>3, ThreeKeys DEF Holding
  <2> QED BY <2>1
<1> QED BY <1>1, <1>2, <1>3, ThreeKeys

\* dataloader.go Load, enqueue and run: however callers, timers and full batches
\* race, no batch outgrows MaxBatch, and a caller that is given rows is given those
\* of a fetch its own key was part of.
THEOREM BatchesHoldTheirKeys == Spec => []BatchHoldsKey
<1>1. ASSUME LoaderInv PROVE BatchHoldsKey
  <2>1. Distinct # Shared
    BY DEF Distinct, Shared
  <2> SUFFICES ASSUME NEW keyOf \in {Distinct, Shared}, prog = (IF keyOf = Distinct THEN "distinctKeys" ELSE "sharedKey")
               PROVE  /\ \A b \in Keys : heap[Of("keys", b)] # 7
                      /\ \A c \in DOMAIN keyOf : pc[c] = "done" /\ val[c] # Failed => (val[c] \div Bit[keyOf[c]]) % 2 = 1
    BY DEF BatchHoldsKey
  <2>2. Asking(keyOf)
    BY <2>1 DEF Asking
  <2>3. LoaderParts(keyOf)
    BY <1>1, <2>2 DEF LoaderInv
  <2>4. keyOf \in [Callers -> Keys] /\ Sound(keyOf)
    BY <2>2, <2>3, SoundTimes
  <2>5. \A b \in Keys : heap[Of("keys", b)] # 7
    BY <2>4 DEF Sound, KeysFit, KeysIn
  <2>6. ASSUME NEW c \in DOMAIN keyOf, pc[c] = "done", val[c] # Failed
        PROVE  (val[c] \div Bit[keyOf[c]]) % 2 = 1
    <3>1. PICK k \in Keys : k = keyOf[c]
      BY <2>4
    <3>2. c \in Callers /\ Stage(c) = "done"
      BY <2>4, <2>6, PlainLabels DEF Stage, Plain
    <3>3. Knows(keyOf, c, k)
      BY <2>4, <3>1, <3>2 DEF Sound, CallersKnow
    <3>4. val[c] \in Holding[k]
      BY <2>6, <3>2, <3>3 DEF Knows
    <3> QED BY <3>1, <3>4, HoldingHasBit
  <2> QED BY <2>5, <2>6
<1>2. LoaderInv => BatchHoldsKey
  BY <1>1
<1> QED BY <1>2, LoaderHolds, PTL

-----------------------------------------------------------------------------
(* The batching cache: nobody uses what another is writing.                *)

Stores == {"set", "write", "plus"}
Uses   == Stores \cup {"read", "if"}

\* As RaceFree, where adding to a slice writes it too.
NobodyInterferes ==
  \A g \in Goroutines : \A h \in Goroutines \ {g} :
    \A i \in AtHand(g), j \in AtHand(h) : i.op \in Stores /\ j.op \in Uses => i.var # j.var

\* What l.mu guards; what entitles goroutine g to the access i: the mutex, or that
\* it runs the batch, or that the batch is done.  A batch's list is added to under
\* the mutex before the batch is sent, and read by who runs it without.
UnderMu    == {"pending"} \cup {Of(x, b) : x \in {"batch", "sent"}, b \in Keys}
HoldsMu(g) == lock["mu"] = Held(g, 0)
Entitled(g, i) ==
  \/ HoldsMu(g) /\ i.var \in UnderMu
  \/ \E b \in Keys : /\ i.var = Of("keys", b)
                     /\ \/ HoldsMu(g) /\ (i.op \in Stores => ~FlushRuns(b) /\ ~RunRuns(b))
                        \/ Runs(g, b) /\ i.op \notin Stores
  \/ \E b \in Keys : /\ i.var = Of("results", b)
                     /\ Runs(g, b) \/ (Done(b) /\ i.op \notin Stores)

\* A batch that takes a key in is run by nobody yet.
LEMMA JoinedIsUnsent ==
  ASSUME NEW keyOf, Asking(keyOf), LoaderParts(keyOf), NEW c \in Callers, NEW b \in Keys, Stage(c) = "key", Batch(c) = b
  PROVE  ~FlushRuns(b) /\ ~RunRuns(b)
<1>1. keyOf \in [Callers -> Keys] /\ Sound(keyOf) /\ LoaderMu
  BY SoundTimes
<1>2. Alone(c)
  BY <1>1, CallerAlone DEF LoadMu
<1>3. Pending = b
  BY <1>1 DEF Sound, CallersKnow, Knows
<1>4. ~Going(b)
  BY <1>2 DEF Going, Alone, LoadMu
<1>5. \A a \in Keys : Flush(a) # "pending"
  BY <1>2 DEF Alone, FlushMu
<1>6. Sent(b) = 0
  BY <1>1, <1>3, <1>4, <1>5 DEF Sound, PendingFits
<1> QED BY <1>1, <1>6 DEF Sound, RunsFit

LEMMA CallerEntitled ==
  ASSUME NEW keyOf, Asking(keyOf), LoaderParts(keyOf), NEW c \in Callers, NEW i \in AtHand(c), i.op \in Uses
  PROVE  Entitled(c, i)
<1>1. /\ keyOf \in [Callers -> Keys] /\ Sound(keyOf) /\ LoaderLabels /\ LoaderMu
  BY SoundTimes
<1>2. Running(c) /\ i = Instr(c)
  BY DEF AtHand
<1>3. PICK f, k : k = keyOf[c] /\ f = Load(k)
  OBVIOUS
<1>4. Program.code[c] = f
  BY <1>3, LoaderRuns
<1>5. i = f[pc[c]]
  BY <1>2, <1>4 DEF Instr
<1>6. CallerCode(k, f) /\ k \in Keys
  BY <1>1, <1>3, LoadCodeIs
<1>7. Knows(keyOf, c, k)
  BY <1>1, <1>3 DEF Sound, CallersKnow
<1>8. Stage(c) \in Numbers \cup Plain /\ (Stage(c) \in Plain => pc[c] = Stage(c))
  BY <1>1, StageTable DEF LoaderLabels, Stage
<1>9. Stage(c) \notin {"idle", "end"}
  BY <1>2, <1>8 DEF Running, Plain
<1>10. Stage(c) \in LoadMu => HoldsMu(c)
  BY <1>1, CallerAlone DEF HoldsMu
<1>11. CASE Stage(c) \in {"cached", "cached1", "cached2"}
  <2>1. pc[c] = Stage(c)
    BY <1>8, <1>11 DEF Plain
  <2>2. PICK S, l, m : i = If(Of("batch", k), S, l, m)
    BY <1>5, <1>6, <1>11, <2>1 DEF CallerCode
  <2>3. i.var = Of("batch", k)
    BY <2>2 DEF If
  <2> QED BY <1>6, <1>10, <1>11, <2>3 DEF Entitled, UnderMu, LoadMu
<1>12. CASE Stage(c) \in {"enqueue", "pending1", "pending2", "open"}
  <2>1. pc[c] = Stage(c)
    BY <1>8, <1>12 DEF Plain
  <2>2. (\E S, l, m : i = If("pending", S, l, m)) \/ i = Set("pending", k, "after")
    BY <1>5, <1>6, <1>12, <2>1 DEF CallerCode
  <2>3. i.var = "pending"
    BY <2>2 DEF If, Set
  <2> QED BY <1>10, <1>12, <2>3 DEF Entitled, UnderMu, LoadMu
<1>13. CASE Stage(c) \in {"start", "after", "done"}
  <2>1. pc[c] = Stage(c)
    BY <1>8, <1>13 DEF Plain
  <2>2. i = Lock("mu", "cached") \/ i = Go({Of("flush", k)}, Of("add", k)) \/ i = Add("wg", -1, "end")
    BY <1>5, <1>6, <1>13, <2>1 DEF CallerCode
  <2> QED BY <2>2 DEF Lock, Go, Add, Uses, Stores
<1>14. CASE Stage(c) \in Numbers
  <2>1. PICK b \in Keys : b = Batch(c) /\ pc[c] = Of(Stage(c), b)
    BY <1>1, <1>14, NumberedStage
  <2>2. i = f[Of(Stage(c), b)]
    BY <1>5, <2>1
  <2>3. CASE Stage(c) = "add"
    <3>1. i = Set(Of("batch", k), b, Of("key", b))
      BY <1>6, <2>2, <2>3 DEF CallerCode
    <3>2. i.var = Of("batch", k)
      BY <3>1 DEF Set
    <3> QED BY <1>6, <1>10, <2>3, <3>2 DEF Entitled, UnderMu, LoadMu
  <2>4. CASE Stage(c) = "send"
    <3>1. i = Set(Of("sent", b), 1, Of("clear", b))
      BY <1>6, <2>2, <2>4 DEF CallerCode
    <3>2. i.var = Of("sent", b)
      BY <3>1 DEF Set
    <3> QED BY <1>10, <2>4, <3>2 DEF Entitled, UnderMu, LoadMu
  <2>5. CASE Stage(c) = "clear"
    <3>1. i = Set("pending", 0, Of("go", b))
      BY <1>6, <2>2, <2>5 DEF CallerCode
    <3>2. i.var = "pending"
      BY <3>1 DEF Set
    <3> QED BY <1>10, <2>5, <3>2 DEF Entitled, UnderMu, LoadMu
  <2>6. CASE Stage(c) = "key"
    <3>1. i = Plus(Of("keys", b), Bit[k], Of("full", b))
      BY <1>6, <2>2, <2>6 DEF CallerCode
    <3>2. i.var = Of("keys", b)
      BY <3>1 DEF Plus
    <3>3. ~FlushRuns(b) /\ ~RunRuns(b)
      BY <2>1, <2>6, JoinedIsUnsent
    <3> QED BY <1>10, <2>6, <3>2, <3>3 DEF Entitled, LoadMu
  <2>7. CASE Stage(c) = "full"
    <3>1. i = If(Of("keys", b), Full, Of("send", b), Of("leave", b))
      BY <1>6, <2>2, <2>7 DEF CallerCode
    <3>2. i.var = Of("keys", b) /\ i.op \notin Stores
      BY <3>1 DEF If, Stores
    <3> QED BY <1>10, <2>7, <3>2 DEF Entitled, LoadMu
  <2>8. CASE Stage(c) = "read"
    <3>1. i = Read(Of("results", b), "done")
      BY <1>6, <2>2, <2>8 DEF CallerCode
    <3>2. i.var = Of("results", b) /\ i.op \notin Stores
      BY <3>1 DEF Read, Stores
    <3>3. Done(b)
      BY <1>7, <2>1, <2>8 DEF Knows
    <3> QED BY <3>2, <3>3 DEF Entitled
  <2>9. CASE Stage(c) \in {"go", "leave", "wait"}
    <3>1. \/ i = Go({Of("run", b)}, Of("leave", b)) \/ i = Unlock("mu", Of("wait", b))
          \/ i = Comm({Recv(Of("done", b), Of("read", b)), Recv("ctx", "done")})
      BY <1>6, <2>2, <2>9 DEF CallerCode
    <3> QED BY <3>1 DEF Go, Unlock, Comm, Uses, Stores
  <2> QED BY <1>14, <2>3, <2>4, <2>5, <2>6, <2>7, <2>8, <2>9 DEF Numbers
<1> QED BY <1>8, <1>9, <1>11, <1>12, <1>13, <1>14 DEF Plain

LEMMA FetchEntitled ==
  ASSUME NEW b \in Keys, NEW g, NEW f, FetchCode(b, f), pc[g] \in Fetching, Runs(g, b), f[pc[g]].op \in Uses
  PROVE  Entitled(g, f[pc[g]])
<1>1. PICK i : i = f[pc[g]]
  OBVIOUS
<1>2. CASE pc[g] \in {"rows", "error"}
  <2>1. i = Write(Of("results", b), 0, "close") \/ i = Set(Of("results", b), Failed, "close")
    BY <1>1, <1>2 DEF FetchCode
  <2>2. i.var = Of("results", b)
    BY <2>1 DEF Write, Set
  <2> QED BY <1>1, <2>2 DEF Entitled
<1>3. CASE pc[g] \in {"fetch", "crash", "close"}
  <2>1. i = Either({"rows", "error", "crash"}) \/ i = Panic("error") \/ i = Close(Of("done", b), "end")
    BY <1>1, <1>3 DEF FetchCode
  <2> QED BY <1>1, <2>1 DEF Either, Panic, Close, Uses, Stores
<1> QED BY <1>2, <1>3 DEF Fetching

LEMMA FlushEntitled ==
  ASSUME NEW keyOf, Asking(keyOf), LoaderParts(keyOf), NEW b \in Keys, NEW g, g = Of("flush", b),
         NEW i \in AtHand(g), i.op \in Uses
  PROVE  Entitled(g, i)
<1>1. LoaderLabels /\ LoaderMu
  BY SoundTimes
<1>2. Running(g) /\ i = Instr(g)
  BY DEF AtHand
<1>3. PICK f : f = flush(b)
  OBVIOUS
<1>4. Program.code[g] = f /\ FlushCode(b, f)
  BY <1>3, LoaderRuns, FlushCodeIs
<1>5. i = f[pc[g]] /\ pc[g] = Flush(b)
  BY <1>2, <1>4 DEF Instr, Flush
<1>6. Flush(b) \in FlushLabels \ {"idle", "end"}
  BY <1>1, <1>2, <1>5 DEF Running, LoaderLabels, FlushLabels
<1>7. Flush(b) \in FlushMu => HoldsMu(g)
  BY <1>1, TimerAlone DEF HoldsMu
<1>8. CASE Flush(b) \in {"check", "sent", "pending"}
  <2>1. i = If(Of("sent", b), {1}, "leave", "sent") \/ i = Set(Of("sent", b), 1, "pending") \/ i = Set("pending", 0, "unlock")
    BY <1>4, <1>5, <1>8 DEF FlushCode
  <2>2. i.var \in {"pending", Of("sent", b)}
    BY <2>1 DEF If, Set
  <2> QED BY <1>7, <1>8, <2>2 DEF Entitled, UnderMu, FlushMu
<1>9. CASE Flush(b) \in {"start", "leave", "unlock"}
  <2>1. i = Lock("mu", "check") \/ i = Unlock("mu", "end") \/ i = Unlock("mu", "run")
    BY <1>4, <1>5, <1>9 DEF FlushCode
  <2> QED BY <2>1 DEF Lock, Unlock, Uses, Stores
<1>10. CASE Flush(b) = "run"
  <2>1. i = Read(Of("keys", b), "fetch")
    BY <1>4, <1>5, <1>10 DEF FlushCode
  <2>2. i.var = Of("keys", b) /\ i.op \notin Stores
    BY <2>1 DEF Read, Stores
  <2>3. Runs(g, b)
    BY <1>10 DEF Runs, FlushRuns
  <2> QED BY <2>2, <2>3 DEF Entitled
<1>11. CASE Flush(b) \in Fetching
  <2>1. Runs(g, b) /\ FetchCode(b, f)
    BY <1>4, <1>11 DEF Runs, FlushRuns, FlushCode
  <2> QED BY <1>5, <1>11, <2>1, FetchEntitled
<1> QED BY <1>6, <1>8, <1>9, <1>10, <1>11 DEF FlushLabels, FlushMu

LEMMA RunEntitled ==
  ASSUME NEW keyOf, Asking(keyOf), LoaderParts(keyOf), NEW b \in Keys, NEW g, g = Of("run", b),
         NEW i \in AtHand(g), i.op \in Uses
  PROVE  Entitled(g, i)
<1>1. LoaderLabels
  BY SoundTimes
<1>2. Running(g) /\ i = Instr(g)
  BY DEF AtHand
<1>3. PICK f : f = run(b, "start")
  OBVIOUS
<1>4. Program.code[g] = f /\ RunCode(b, f)
  BY <1>3, LoaderRuns, RunCodeIs DEF RunCode
<1>5. i = f[pc[g]] /\ pc[g] = Runner(b)
  BY <1>2, <1>4 DEF Instr, Runner
<1>6. Runner(b) \in RunnerLabels \ {"idle", "end"}
  BY <1>1, <1>2, <1>5 DEF Running, LoaderLabels, RunnerLabels
<1>7. Runs(g, b)
  BY <1>6 DEF Runs, RunRuns, RunnerLabels
<1>8. CASE Runner(b) = "start"
  <2>1. i = Read(Of("keys", b), "fetch")
    BY <1>4, <1>5, <1>8 DEF RunCode
  <2>2. i.var = Of("keys", b) /\ i.op \notin Stores
    BY <2>1 DEF Read, Stores
  <2> QED BY <1>7, <2>2 DEF Entitled
<1>9. CASE Runner(b) \in Fetching
  <2>1. FetchCode(b, f)
    BY <1>4 DEF RunCode
  <2> QED BY <1>5, <1>7, <1>9, <2>1, FetchEntitled
<1> QED BY <1>6, <1>8, <1>9 DEF RunnerLabels

LEMMA EveryoneEntitled ==
  ASSUME NEW keyOf, Asking(keyOf), LoaderParts(keyOf), NEW g \in Goroutines, NEW i \in AtHand(g), i.op \in Uses
  PROVE  Entitled(g, i)
<1>1. Goroutines = {"main", "flush1", "flush2", "flush3", "run1", "run2", "run3"} \cup Callers
  BY LoaderRuns
<1>2. CASE g \in Callers
  BY <1>2, CallerEntitled
<1>3. CASE g = "main"
  <2>1. i = Program.code["main"][pc["main"]] /\ Running("main")
    BY <1>3 DEF AtHand, Instr
  <2>2. i = MainCode[pc["main"]] /\ pc["main"] \in {"start", "go", "wait", "cancel"}
    BY <2>1, LoaderRuns, SoundTimes DEF LoaderLabels, Running
  <2>3. i = Add("wg", 3, "go") \/ i = Go(Callers, "wait") \/ i = Wait("wg", "cancel") \/ i = Cancel({"ctx"}, "end")
    BY <2>2 DEF MainCode
  <2> QED BY <2>3 DEF Add, Go, Wait, Cancel, Uses, Stores
<1>4. CASE g \in {"flush1", "flush2", "flush3"}
  <2>1. PICK b \in Keys : g = Of("flush", b)
    BY <1>4, ThreeKeys, CellNames
  <2> QED BY <2>1, FlushEntitled
<1>5. CASE g \in {"run1", "run2", "run3"}
  <2>1. PICK b \in Keys : g = Of("run", b)
    BY <1>5, ThreeKeys, CellNames
  <2> QED BY <2>1, RunEntitled
<1> QED BY <1>1, <1>2, <1>3, <1>4, <1>5

\* Two that are entitled to one variable, one of them to write it, are one.
LEMMA EntitledOnce ==
  ASSUME RunsFit, NEW g, NEW h, NEW i, NEW j, Entitled(g, i), Entitled(h, j), i.op \in Stores, i.var = j.var
  PROVE  g = h
<1>1. \A b \in Keys : /\ Of("keys", b) \notin UnderMu /\ Of("results", b) \notin UnderMu
                      /\ \A a \in Keys : /\ Of("keys", a) # Of("results", b)
                                         /\ Of("keys", a) = Of("keys", b) => a = b
                                         /\ Of("results", a) = Of("results", b) => a = b
  BY CellsDiffer DEF UnderMu, Cells
<1>2. HoldsMu(g) /\ HoldsMu(h) => g = h
  BY HeldOnce DEF HoldsMu
<1>3. CASE i.var \in UnderMu
  BY <1>1, <1>2, <1>3 DEF Entitled
<1>4. ASSUME NEW b \in Keys, i.var = Of("keys", b) PROVE g = h
  <2>1. HoldsMu(g) /\ ~FlushRuns(b) /\ ~RunRuns(b)
    BY <1>1, <1>4 DEF Entitled
  <2>2. HoldsMu(h) \/ Runs(h, b)
    BY <1>1, <1>4 DEF Entitled
  <2> QED BY <1>2, <2>1, <2>2 DEF Runs
<1>5. ASSUME NEW b \in Keys, i.var = Of("results", b) PROVE g = h
  <2>1. Runs(g, b)
    BY <1>1, <1>5 DEF Entitled
  <2>2. Runs(h, b) \/ Done(b)
    BY <1>1, <1>5 DEF Entitled
  <2> QED BY <2>1, <2>2 DEF Runs, RunsFit
<1> QED BY <1>3, <1>4, <1>5 DEF Entitled

-----------------------------------------------------------------------------
(* Critical sections, and the hub: nobody panics.                          *)

\* S[g][m]: the labels at which goroutine g holds mutex m.
Guards(S) == \A g \in DOMAIN S : \A m \in Mutexes : pc[g] \in S[g][m] => lock[m] = Held(g, 0)
Proper(S) == None \notin DOMAIN S /\ \A g \in DOMAIN S : \A m \in Mutexes : "start" \notin S[g][m]

\* Goroutine g goes on to l, those of B begin, and nobody else moves.
GoesOn(S, g, l, B) ==
  /\ pc'[g] = l
  /\ \A h \in DOMAIN S \ {g} : pc'[h] = IF h \in B THEN "start" ELSE pc[h]

\* It is at l only with mutexes it had.
Enters(S, g, l, m) == l \in S[g][m] => pc[g] \in S[g][m]
Within(S, g, l)    == \A m \in Mutexes : Enters(S, g, l, m)

\* What the step does to each mutex: nothing, or it takes it, or it had it.
Respects(S, g, l) ==
  \A m \in Mutexes :
    \/ lock'[m] = lock[m] /\ Enters(S, g, l, m)
    \/ Unlocked(m) /\ lock'[m] = Held(g, 0)
    \/ pc[g] \in S[g][m] /\ l \notin S[g][m]

\* Goroutines that respect their sections are alone in them.
LEMMA GuardsKept ==
  ASSUME NEW S, Proper(S), Guards(S), NEW g \in DOMAIN S, NEW l, NEW B, GoesOn(S, g, l, B), Respects(S, g, l)
  PROVE  Guards(S)'
<1> SUFFICES ASSUME NEW h \in DOMAIN S, NEW m \in Mutexes, pc'[h] \in S[h][m]
             PROVE  lock'[m] = Held(h, 0)
  BY DEF Guards
<1>1. CASE h = g
  <2>1. l \in S[g][m]
    BY <1>1 DEF GoesOn
  <2>2. pc[g] \in S[g][m] => lock[m] = Held(g, 0)
    BY DEF Guards
  <2> QED BY <1>1, <2>1, <2>2 DEF Respects, Enters
<1>2. CASE h # g
  <2>1. pc[h] \in S[h][m]
    BY <1>2 DEF GoesOn, Proper
  <2>2. lock[m] = Held(h, 0)
    BY <2>1 DEF Guards
  <2>3. ~Unlocked(m)
    BY <2>2 DEF Unlocked, Held, Proper
  <2>4. pc[g] \notin S[g][m]
    <3>1. pc[g] \in S[g][m] => lock[m] = Held(g, 0)
      BY DEF Guards
    <3> QED BY <1>2, <2>2, <3>1, HeldOnce
  <2> QED BY <2>2, <2>3, <2>4 DEF Respects
<1> QED BY <1>1, <1>2

LEMMA LockRespects ==
  ASSUME NEW S, NEW g, NEW m \in Mutexes, NEW l, DOMAIN lock = Mutexes, Perform(g, Lock(m, l)),
         \A n \in Mutexes \ {m} : Enters(S, g, l, n)
  PROVE  /\ Goto(g, l) /\ Respects(S, g, l) /\ DOMAIN lock' = Mutexes
         /\ UNCHANGED <<prog, val, buf, closed, wg, asleep, heap, got>>
<1>1. Unlocked(m) /\ Goto(g, l) /\ lock' = [lock EXCEPT ![m] = Held(g, 0)]
      /\ UNCHANGED <<prog, val, buf, closed, wg, asleep, heap, got>>
  BY DoesLock
<1> QED BY <1>1 DEF Respects

\* A mutex is given back by who holds it: it does not panic.
LEMMA UnlockRespects ==
  ASSUME NEW S, Proper(S), Guards(S), NEW g \in DOMAIN S, NEW m \in Mutexes, NEW l, DOMAIN lock = Mutexes,
         Perform(g, Unlock(m, l)), pc[g] \in S[g][m], l \notin S[g][m], \A n \in Mutexes \ {m} : Enters(S, g, l, n)
  PROVE  /\ Goto(g, l) /\ Respects(S, g, l) /\ DOMAIN lock' = Mutexes
         /\ UNCHANGED <<prog, val, buf, closed, wg, asleep, heap, got>>
<1>1. lock[m] = Held(g, 0)
  BY DEF Guards
<1>2. ~Unlocked(m)
  BY <1>1 DEF Unlocked, Held, Proper
<1>3. Goto(g, l) /\ lock' = [lock EXCEPT ![m] = Released(m)]
      /\ UNCHANGED <<prog, val, buf, closed, wg, asleep, heap, got>>
  BY <1>2, DoesUnlock
<1> QED BY <1>3 DEF Respects

LEMMA StaysWithin ==
  ASSUME NEW S, NEW g, NEW l, lock' = lock, Within(S, g, l)
  PROVE  Respects(S, g, l)
BY DEF Respects, Within

LEMMA GotoGoesOn ==
  ASSUME NEW S, NEW g \in DOMAIN S, NEW l, DOMAIN S \subseteq DOMAIN pc, Goto(g, l)
  PROVE  GoesOn(S, g, l, {})
BY DEF Goto, GoesOn

\* Where the hub's goroutines hold h.mu, and sub.mu of either subscription.
Nowhere   == [m \in Mutexes |-> {}]
ServeIn   == [mu |-> InMu, a |-> {"add1", "added1", "delete1", "empty1", "stay1", "last1"},
              b |-> {"add2", "added2", "delete2", "empty2", "stay2", "last2"}]
Fanout    == {"first", "send1", "second", "send2", "unlock"}
PumpIn(i) == [m \in Mutexes |-> IF m = Guard(i) THEN Fanout ELSE {}]
HubSections ==
  [main |-> Nowhere, serve1 |-> ServeIn, serve2 |-> ServeIn, write1 |-> Nowhere, write2 |-> Nowhere,
   pump1 |-> PumpIn(1), pump2 |-> PumpIn(2)]

\* Where a connection's goroutine is once it has closed `closed`.
Left == {"ws", "lock", "look", "mine", "gone1", "delete1", "empty1", "stay1", "last1", "cancel1",
         "gone2", "delete2", "empty2", "stay2", "last2", "cancel2", "forget", "unlock", "end"}

\* A send buffer is never closed, and `closed` once.
ChannelsOpen ==
  /\ {"send1", "send2"} \cap closed = {}
  /\ \A c \in Conns : Of("closed", c) \in closed => At(c) \in Left

NobodyPanicked == \A g \in DOMAIN HubSections : pc[g] # "panic"

HubSafe == Guards(HubSections) /\ ChannelsOpen /\ NobodyPanicked

LEMMA HubSectionsAre ==
  /\ DOMAIN HubSections = {"main", "serve1", "serve2", "write1", "write2", "pump1", "pump2"}
  /\ \A c \in Conns : HubSections[Of("serve", c)] = ServeIn /\ HubSections[Of("write", c)] = Nowhere
  /\ \A i \in Conns : HubSections[Of("pump", i)] = PumpIn(i)
  /\ HubSections["main"] = Nowhere
  /\ \A c \in Conns : {Of("serve", c), Of("write", c), Of("pump", c)} \subseteq DOMAIN HubSections
BY HubNames, TwoConns DEF HubSections

LEMMA HubProper == Proper(HubSections)
<1>1. \A m \in Mutexes : "start" \notin ServeIn[m] /\ "start" \notin Nowhere[m]
  BY DEF Mutexes, ServeIn, Nowhere, InMu
<1>2. \A i \in Conns : \A m \in Mutexes : "start" \notin PumpIn(i)[m]
  BY DEF PumpIn, Fanout
<1>3. \A g \in DOMAIN HubSections : HubSections[g] \in {ServeIn, Nowhere, PumpIn(1), PumpIn(2)}
  BY DEF HubSections
<1>4. None \notin DOMAIN HubSections
  BY HubSectionsAre DEF None
<1> QED BY <1>1, <1>2, <1>3, <1>4, TwoConns DEF Proper

\* Channels that are closed without leaving one open that should be.
LEMMA ChannelsStay ==
  ASSUME ChannelsOpen, NEW X, closed' = closed \cup X, {"send1", "send2"} \cap X = {},
         \A c \in Conns : /\ At(c) \in Left => At(c)' \in Left
                          /\ Of("closed", c) \in X => At(c)' \in Left
  PROVE  ChannelsOpen'
BY DEF ChannelsOpen

\* What a step of the hub has to be for nobody to panic.
LEMMA HubSafeKept ==
  ASSUME HubSafe, NEW g \in DOMAIN HubSections, NEW l, l # "panic", NEW B,
         GoesOn(HubSections, g, l, B), Respects(HubSections, g, l), ChannelsOpen'
  PROVE  HubSafe'
<1>1. Guards(HubSections)'
  BY GuardsKept, HubProper DEF HubSafe
<1>2. NobodyPanicked'
  BY DEF HubSafe, NobodyPanicked, GoesOn
<1> QED BY <1>1, <1>2 DEF HubSafe

LEMMA HubDomain ==
  ASSUME HubParts
  PROVE  DOMAIN HubSections \subseteq DOMAIN pc /\ DOMAIN lock = Mutexes
BY HubSectionsAre DEF HubParts, LabelsShape, DataShape

\* From k to l without a mutex, and without being served again.
Smooth(k, l) ==
  /\ l # "panic" /\ (k \in Left => l \in Left)
  /\ \A m \in Mutexes : l \in ServeIn[m] => k \in ServeIn[m]

LEMMA ServeSectionsAre ==
  /\ Mutexes = {"mu", "a", "b"}
  /\ ServeIn["mu"] = InMu
  /\ ServeIn["a"] = {"add1", "added1", "delete1", "empty1", "stay1", "last1"}
  /\ ServeIn["b"] = {"add2", "added2", "delete2", "empty2", "stay2", "last2"}
BY DEF Mutexes, ServeIn

\* Of what should stay open, only its own is closed, and no connection is served again.
Closes(c, l, X) ==
  /\ closed' = closed \cup X /\ {"send1", "send2"} \cap X = {}
  /\ \A d \in Conns : Of("closed", d) \in X => d = c /\ l \in Left
NotServed(B) == \A d \in Conns : Of("serve", d) \notin B

LEMMA ClosesNothing ==
  ASSUME closed' = closed
  PROVE  \A c, l : Closes(c, l, {})
BY DEF Closes

\* A step of a connection's goroutine that closes nothing but its own.
LEMMA ServeSafe ==
  ASSUME HubParts, HubSafe, NEW c \in Conns, NEW g, g = Of("serve", c), NEW l, l # "panic",
         At(c) \in Left => l \in Left, NEW B, NotServed(B),
         GoesOn(HubSections, g, l, B), Respects(HubSections, g, l), NEW X, Closes(c, l, X)
  PROVE  HubSafe'
<1>1. g \in DOMAIN HubSections
  BY HubSectionsAre
<1>2. At(c)' = l /\ \A d \in Conns \ {c} : At(d)' = At(d)
  BY HubNames, TwoConns, HubSectionsAre DEF GoesOn, At, NotServed
<1>3. ChannelsOpen'
  BY <1>2, ChannelsStay DEF HubSafe, Closes
<1> QED BY <1>1, <1>3, HubSafeKept

LEMMA ServeSmooth ==
  ASSUME HubParts, HubSafe, NEW c \in Conns, NEW g, g = Of("serve", c), NEW l, Smooth(At(c), l),
         Goto(g, l), lock' = lock, NEW X, Closes(c, l, X)
  PROVE  HubSafe'
<1>1. g \in DOMAIN HubSections /\ HubSections[g] = ServeIn
  BY HubSectionsAre
<1>2. GoesOn(HubSections, g, l, {})
  BY <1>1, HubDomain, GotoGoesOn
<1>3. Within(HubSections, g, l)
  BY <1>1 DEF Within, Enters, Smooth, At
<1>4. Respects(HubSections, g, l)
  BY <1>3, StaysWithin
<1>5. l # "panic" /\ (At(c) \in Left => l \in Left)
  BY DEF Smooth
<1>6. NotServed({})
  BY DEF NotServed
<1> QED BY <1>2, <1>4, <1>5, <1>6, ServeSafe

\* A test, a choice, a write or a wait: no mutex.
LEMMA ServeQuietly ==
  ASSUME HubParts, HubSafe, NEW c \in Conns, NEW g, g = Of("serve", c), NEW k, k = At(c),
         NEW f, ServeCode(c, f), Perform(g, f[k]),
         k \in {"find", "which", "look", "mine", "empty1", "empty2", "frames", "read",
                "create", "forget", "add1", "add2", "delete1", "delete2"}
  PROVE  HubSafe'
<1>1. ASSUME NEW l, Smooth(k, l), Goto(g, l), lock' = lock, closed' = closed PROVE HubSafe'
  <2>1. Closes(c, l, {})
    BY <1>1, ClosesNothing
  <2> QED BY <1>1, <2>1, ServeSmooth
<1>2. ASSUME NEW x, NEW S, NEW l, NEW m, f[k] = If(x, S, l, m), Smooth(k, l), Smooth(k, m) PROVE HubSafe'
  <2>1. (Goto(g, l) \/ Goto(g, m)) /\ DataStays
    BY <1>2, DoesIf
  <2> QED BY <1>1, <1>2, <2>1 DEF DataStays
<1>3. ASSUME NEW x, NEW v, NEW l, f[k] = Set(x, v, l), Smooth(k, l) PROVE HubSafe'
  <2>1. Goto(g, l) /\ lock' = lock /\ closed' = closed
    BY <1>3, DoesSet
  <2> QED BY <1>1, <1>3, <2>1
<1>4. CASE k = "find"
  <2>1. Smooth(k, "create") /\ Smooth(k, "which")
    BY <1>4, ServeSectionsAre DEF Smooth, Left, InMu
  <2>2. PICK x, S : f[k] = If(x, S, "create", "which")
    BY <1>4 DEF ServeCode
  <2> QED BY <1>2, <2>1, <2>2
<1>5. CASE k = "which"
  <2>1. Smooth(k, "join1") /\ Smooth(k, "join2")
    BY <1>5, ServeSectionsAre DEF Smooth, Left, InMu
  <2>2. PICK x, S : f[k] = If(x, S, "join1", "join2")
    BY <1>5 DEF ServeCode
  <2> QED BY <1>2, <2>1, <2>2
<1>6. CASE k = "look"
  <2>1. Smooth(k, "unlock") /\ Smooth(k, "mine")
    BY <1>6, ServeSectionsAre DEF Smooth, Left, InMu
  <2>2. PICK x, S : f[k] = If(x, S, "unlock", "mine")
    BY <1>6 DEF ServeCode
  <2> QED BY <1>2, <2>1, <2>2
<1>7. CASE k = "mine"
  <2>1. Smooth(k, "gone1") /\ Smooth(k, "gone2")
    BY <1>7, ServeSectionsAre DEF Smooth, Left, InMu
  <2>2. PICK x, S : f[k] = If(x, S, "gone1", "gone2")
    BY <1>7 DEF ServeCode
  <2> QED BY <1>2, <2>1, <2>2
<1>8. CASE k = "empty1"
  <2>1. Smooth(k, "stay1") /\ Smooth(k, "last1")
    BY <1>8, ServeSectionsAre DEF Smooth, Left, InMu
  <2>2. PICK x, S : f[k] = If(x, S, "stay1", "last1")
    BY <1>8 DEF ServeCode
  <2> QED BY <1>2, <2>1, <2>2
<1>9. CASE k = "empty2"
  <2>1. Smooth(k, "stay2") /\ Smooth(k, "last2")
    BY <1>9, ServeSectionsAre DEF Smooth, Left, InMu
  <2>2. PICK x, S : f[k] = If(x, S, "stay2", "last2")
    BY <1>9 DEF ServeCode
  <2> QED BY <1>2, <2>1, <2>2
<1>10. CASE k = "create"
  <2>1. Smooth(k, "pump")
    BY <1>10, ServeSectionsAre DEF Smooth, Left, InMu
  <2>2. PICK x, v : f[k] = Set(x, v, "pump")
    BY <1>10 DEF ServeCode
  <2> QED BY <1>3, <2>1, <2>2
<1>11. CASE k = "forget"
  <2>1. Smooth(k, "unlock")
    BY <1>11, ServeSectionsAre DEF Smooth, Left, InMu
  <2>2. PICK x, v : f[k] = Set(x, v, "unlock")
    BY <1>11 DEF ServeCode
  <2> QED BY <1>3, <2>1, <2>2
<1>12. CASE k = "add1"
  <2>1. Smooth(k, "added1")
    BY <1>12, ServeSectionsAre DEF Smooth, Left, InMu
  <2>2. PICK x, v : f[k] = Set(x, v, "added1")
    BY <1>12 DEF ServeCode
  <2> QED BY <1>3, <2>1, <2>2
<1>13. CASE k = "add2"
  <2>1. Smooth(k, "added2")
    BY <1>13, ServeSectionsAre DEF Smooth, Left, InMu
  <2>2. PICK x, v : f[k] = Set(x, v, "added2")
    BY <1>13 DEF ServeCode
  <2> QED BY <1>3, <2>1, <2>2
<1>14. CASE k = "delete1"
  <2>1. Smooth(k, "empty1")
    BY <1>14, ServeSectionsAre DEF Smooth, Left, InMu
  <2>2. PICK x, v : f[k] = Set(x, v, "empty1")
    BY <1>14 DEF ServeCode
  <2> QED BY <1>3, <2>1, <2>2
<1>15. CASE k = "delete2"
  <2>1. Smooth(k, "empty2")
    BY <1>15, ServeSectionsAre DEF Smooth, Left, InMu
  <2>2. PICK x, v : f[k] = Set(x, v, "empty2")
    BY <1>15 DEF ServeCode
  <2> QED BY <1>3, <2>1, <2>2
<1>16. CASE k = "frames"
  <2>1. Smooth(k, "serve") /\ Smooth(k, "leave")
    BY <1>16, ServeSectionsAre DEF Smooth, Left, InMu
  <2>2. f[k] = Either({"serve", "leave"})
    BY <1>16 DEF ServeCode
  <2>3. PICK l \in {"serve", "leave"} : Goto(g, l) /\ DataStays
    BY <2>2, DoesEither
  <2> QED BY <1>1, <2>1, <2>3 DEF DataStays
<1>17. CASE k = "read"
  <2>1. Smooth(k, "leave")
    BY <1>17, ServeSectionsAre DEF Smooth, Left, InMu
  <2>2. f[k] = CommOr({Recv(Of("ws", c), "leave"), Timer("leave")}, None)
    BY <1>17, WithoutDefault DEF ServeCode
  <2>3. PICK d \in {Recv(Of("ws", c), "leave"), Timer("leave")} : Take(g, d)
    <3>1. \A d \in {Recv(Of("ws", c), "leave"), Timer("leave")} : d.dir # "send"
      BY DEF Recv, RangeOver, Timer
    <3> QED BY <2>2, <3>1, DoesComm
  <2>4. Goto(g, "leave") /\ closed' = closed /\ lock' = lock
    BY <2>3, TakesRecv, TakesTimer
  <2> QED BY <1>1, <2>1, <2>4
<1> QED BY <1>4, <1>5, <1>6, <1>7, <1>8, <1>9, <1>10, <1>11, <1>12, <1>13, <1>14, <1>15, <1>16, <1>17

\* h.mu, or a subscription's.
LEMMA ServeMutexes ==
  ASSUME HubParts, HubSafe, NEW c \in Conns, NEW g, g = Of("serve", c), NEW k, k = At(c),
         NEW f, ServeCode(c, f), Perform(g, f[k]),
         k \in {"start", "join1", "join2", "lock", "gone1", "gone2",
                "added1", "added2", "joined", "stay1", "stay2", "last1", "last2", "unlock"}
  PROVE  HubSafe'
<1>1. /\ g \in DOMAIN HubSections /\ HubSections[g] = ServeIn /\ pc[g] = k
      /\ DOMAIN HubSections \subseteq DOMAIN pc /\ DOMAIN lock = Mutexes
  BY HubSectionsAre, HubDomain DEF At
<1>2. ASSUME NEW l, l # "panic", k \in Left => l \in Left, Goto(g, l), Respects(HubSections, g, l), closed' = closed
      PROVE  HubSafe'
  <2>1. Closes(c, l, {}) /\ NotServed({})
    BY <1>2, ClosesNothing DEF NotServed
  <2>2. GoesOn(HubSections, g, l, {})
    BY <1>1, <1>2, GotoGoesOn
  <2> QED BY <1>2, <2>1, <2>2, ServeSafe
<1>3. ASSUME NEW m \in Mutexes, NEW l, f[k] = Lock(m, l), l # "panic", k \in Left => l \in Left,
             \A n \in Mutexes \ {m} : l \in ServeIn[n] => k \in ServeIn[n]
      PROVE  HubSafe'
  <2>1. \A n \in Mutexes \ {m} : Enters(HubSections, g, l, n)
    BY <1>1, <1>3 DEF Enters
  <2>2. Goto(g, l) /\ Respects(HubSections, g, l) /\ closed' = closed
    BY <1>1, <1>3, <2>1, LockRespects
  <2> QED BY <1>2, <1>3, <2>2
<1>4. ASSUME NEW m \in Mutexes, NEW l, f[k] = Unlock(m, l), l # "panic", k \in Left => l \in Left,
             k \in ServeIn[m], l \notin ServeIn[m],
             \A n \in Mutexes \ {m} : l \in ServeIn[n] => k \in ServeIn[n]
      PROVE  HubSafe'
  <2>1. \A n \in Mutexes \ {m} : Enters(HubSections, g, l, n)
    BY <1>1, <1>4 DEF Enters
  <2>2. Goto(g, l) /\ Respects(HubSections, g, l) /\ closed' = closed
    BY <1>1, <1>4, <2>1, UnlockRespects, HubProper DEF HubSafe
  <2> QED BY <1>2, <1>4, <2>2
<1>5. CASE k = "start"
  <2>1. f[k] = Lock("mu", "find")
    BY <1>5 DEF ServeCode
  <2>2. /\ "find" # "panic" /\ (k \in Left => "find" \in Left) /\ "mu" \in Mutexes
        /\ \A n \in Mutexes \ {"mu"} : "find" \in ServeIn[n] => k \in ServeIn[n]
    BY <1>5, ServeSectionsAre DEF Left, InMu
  <2> QED BY <1>3, <2>1, <2>2
<1>6. CASE k = "join1"
  <2>1. f[k] = Lock("a", "add1")
    BY <1>6 DEF ServeCode
  <2>2. /\ "add1" # "panic" /\ (k \in Left => "add1" \in Left) /\ "a" \in Mutexes
        /\ \A n \in Mutexes \ {"a"} : "add1" \in ServeIn[n] => k \in ServeIn[n]
    BY <1>6, ServeSectionsAre DEF Left, InMu
  <2> QED BY <1>3, <2>1, <2>2
<1>7. CASE k = "join2"
  <2>1. f[k] = Lock("b", "add2")
    BY <1>7 DEF ServeCode
  <2>2. /\ "add2" # "panic" /\ (k \in Left => "add2" \in Left) /\ "b" \in Mutexes
        /\ \A n \in Mutexes \ {"b"} : "add2" \in ServeIn[n] => k \in ServeIn[n]
    BY <1>7, ServeSectionsAre DEF Left, InMu
  <2> QED BY <1>3, <2>1, <2>2
<1>8. CASE k = "lock"
  <2>1. f[k] = Lock("mu", "look")
    BY <1>8 DEF ServeCode
  <2>2. /\ "look" # "panic" /\ (k \in Left => "look" \in Left) /\ "mu" \in Mutexes
        /\ \A n \in Mutexes \ {"mu"} : "look" \in ServeIn[n] => k \in ServeIn[n]
    BY <1>8, ServeSectionsAre DEF Left, InMu
  <2> QED BY <1>3, <2>1, <2>2
<1>9. CASE k = "gone1"
  <2>1. f[k] = Lock("a", "delete1")
    BY <1>9 DEF ServeCode
  <2>2. /\ "delete1" # "panic" /\ (k \in Left => "delete1" \in Left) /\ "a" \in Mutexes
        /\ \A n \in Mutexes \ {"a"} : "delete1" \in ServeIn[n] => k \in ServeIn[n]
    BY <1>9, ServeSectionsAre DEF Left, InMu
  <2> QED BY <1>3, <2>1, <2>2
<1>10. CASE k = "gone2"
  <2>1. f[k] = Lock("b", "delete2")
    BY <1>10 DEF ServeCode
  <2>2. /\ "delete2" # "panic" /\ (k \in Left => "delete2" \in Left) /\ "b" \in Mutexes
        /\ \A n \in Mutexes \ {"b"} : "delete2" \in ServeIn[n] => k \in ServeIn[n]
    BY <1>10, ServeSectionsAre DEF Left, InMu
  <2> QED BY <1>3, <2>1, <2>2
<1>11. CASE k = "added1"
  <2>1. f[k] = Unlock("a", "joined")
    BY <1>11 DEF ServeCode
  <2>2. /\ "joined" # "panic" /\ (k \in Left => "joined" \in Left) /\ "a" \in Mutexes
        /\ k \in ServeIn["a"] /\ "joined" \notin ServeIn["a"]
        /\ \A n \in Mutexes \ {"a"} : "joined" \in ServeIn[n] => k \in ServeIn[n]
    BY <1>11, ServeSectionsAre DEF Left, InMu
  <2> QED BY <1>4, <2>1, <2>2
<1>12. CASE k = "added2"
  <2>1. f[k] = Unlock("b", "joined")
    BY <1>12 DEF ServeCode
  <2>2. /\ "joined" # "panic" /\ (k \in Left => "joined" \in Left) /\ "b" \in Mutexes
        /\ k \in ServeIn["b"] /\ "joined" \notin ServeIn["b"]
        /\ \A n \in Mutexes \ {"b"} : "joined" \in ServeIn[n] => k \in ServeIn[n]
    BY <1>12, ServeSectionsAre DEF Left, InMu
  <2> QED BY <1>4, <2>1, <2>2
<1>13. CASE k = "joined"
  <2>1. f[k] = Unlock("mu", "frames")
    BY <1>13 DEF ServeCode
  <2>2. /\ "frames" # "panic" /\ (k \in Left => "frames" \in Left) /\ "mu" \in Mutexes
        /\ k \in ServeIn["mu"] /\ "frames" \notin ServeIn["mu"]
        /\ \A n \in Mutexes \ {"mu"} : "frames" \in ServeIn[n] => k \in ServeIn[n]
    BY <1>13, ServeSectionsAre DEF Left, InMu
  <2> QED BY <1>4, <2>1, <2>2
<1>14. CASE k = "stay1"
  <2>1. f[k] = Unlock("a", "unlock")
    BY <1>14 DEF ServeCode
  <2>2. /\ "unlock" # "panic" /\ (k \in Left => "unlock" \in Left) /\ "a" \in Mutexes
        /\ k \in ServeIn["a"] /\ "unlock" \notin ServeIn["a"]
        /\ \A n \in Mutexes \ {"a"} : "unlock" \in ServeIn[n] => k \in ServeIn[n]
    BY <1>14, ServeSectionsAre DEF Left, InMu
  <2> QED BY <1>4, <2>1, <2>2
<1>15. CASE k = "stay2"
  <2>1. f[k] = Unlock("b", "unlock")
    BY <1>15 DEF ServeCode
  <2>2. /\ "unlock" # "panic" /\ (k \in Left => "unlock" \in Left) /\ "b" \in Mutexes
        /\ k \in ServeIn["b"] /\ "unlock" \notin ServeIn["b"]
        /\ \A n \in Mutexes \ {"b"} : "unlock" \in ServeIn[n] => k \in ServeIn[n]
    BY <1>15, ServeSectionsAre DEF Left, InMu
  <2> QED BY <1>4, <2>1, <2>2
<1>16. CASE k = "last1"
  <2>1. f[k] = Unlock("a", "cancel1")
    BY <1>16 DEF ServeCode
  <2>2. /\ "cancel1" # "panic" /\ (k \in Left => "cancel1" \in Left) /\ "a" \in Mutexes
        /\ k \in ServeIn["a"] /\ "cancel1" \notin ServeIn["a"]
        /\ \A n \in Mutexes \ {"a"} : "cancel1" \in ServeIn[n] => k \in ServeIn[n]
    BY <1>16, ServeSectionsAre DEF Left, InMu
  <2> QED BY <1>4, <2>1, <2>2
<1>17. CASE k = "last2"
  <2>1. f[k] = Unlock("b", "cancel2")
    BY <1>17 DEF ServeCode
  <2>2. /\ "cancel2" # "panic" /\ (k \in Left => "cancel2" \in Left) /\ "b" \in Mutexes
        /\ k \in ServeIn["b"] /\ "cancel2" \notin ServeIn["b"]
        /\ \A n \in Mutexes \ {"b"} : "cancel2" \in ServeIn[n] => k \in ServeIn[n]
    BY <1>17, ServeSectionsAre DEF Left, InMu
  <2> QED BY <1>4, <2>1, <2>2
<1>18. CASE k = "unlock"
  <2>1. f[k] = Unlock("mu", "end")
    BY <1>18 DEF ServeCode
  <2>2. /\ "end" # "panic" /\ (k \in Left => "end" \in Left) /\ "mu" \in Mutexes
        /\ k \in ServeIn["mu"] /\ "end" \notin ServeIn["mu"]
        /\ \A n \in Mutexes \ {"mu"} : "end" \in ServeIn[n] => k \in ServeIn[n]
    BY <1>18, ServeSectionsAre DEF Left, InMu
  <2> QED BY <1>4, <2>1, <2>2
<1> QED BY <1>5, <1>6, <1>7, <1>8, <1>9, <1>10, <1>11, <1>12, <1>13, <1>14, <1>15, <1>16, <1>17, <1>18

\* It closes its channel once, cancels, or starts a goroutine.
LEMMA ServeEnds ==
  ASSUME prog = "hub", HubParts, HubSafe, NEW c \in Conns, NEW g, g = Of("serve", c), NEW k, k = At(c),
         NEW f, ServeCode(c, f), Perform(g, f[k]),
         k \in {"leave", "ws", "cancel1", "cancel2", "pump", "serve"}
  PROVE  HubSafe'
<1>1. CASE k = "leave"
  <2>1. f[k] = Close(Of("closed", c), "ws")
    BY <1>1 DEF ServeCode
  <2>2. Of("closed", c) \notin closed
    BY <1>1 DEF HubSafe, ChannelsOpen, Left
  <2>3. Goto(g, "ws") /\ closed' = closed \cup {Of("closed", c)} /\ lock' = lock
    BY <2>1, <2>2, DoesClose
  <2>4. Smooth(k, "ws") /\ "ws" \in Left
    BY <1>1, ServeSectionsAre DEF Smooth, Left, InMu
  <2>5. {"send1", "send2"} \cap {Of("closed", c)} = {} /\ \A d \in Conns : Of("closed", d) = Of("closed", c) => d = c
    BY HubNames, TwoConns
  <2>6. Closes(c, "ws", {Of("closed", c)})
    BY <2>3, <2>4, <2>5 DEF Closes
  <2> QED BY <2>3, <2>4, <2>6, ServeSmooth
<1>2. ASSUME NEW x \in {"ws1", "ws2", "ctx1", "ctx2"}, NEW l, f[k] = Cancel({x}, l), Smooth(k, l) PROVE HubSafe'
  <2>1. Goto(g, l) /\ closed' = closed \cup {x} /\ lock' = lock
    BY <1>2, DoesCancel
  <2>2. {"send1", "send2"} \cap {x} = {} /\ \A d \in Conns : Of("closed", d) # x
    BY HubNames, TwoConns
  <2>3. Closes(c, l, {x})
    BY <2>1, <2>2 DEF Closes
  <2> QED BY <1>2, <2>1, <2>3, ServeSmooth
<1>3. CASE k = "ws"
  <2>1. f[k] = Cancel({Of("ws", c)}, "lock") /\ Of("ws", c) \in {"ws1", "ws2", "ctx1", "ctx2"}
    BY <1>3, HubNames, TwoConns DEF ServeCode
  <2>2. Smooth(k, "lock")
    BY <1>3, ServeSectionsAre DEF Smooth, Left, InMu
  <2> QED BY <1>2, <2>1, <2>2
<1>4. CASE k \in {"cancel1", "cancel2"}
  <2>1. PICK x \in {"ctx1", "ctx2"} : f[k] = Cancel({x}, "forget")
    BY <1>4 DEF ServeCode
  <2>2. Smooth(k, "forget")
    BY <1>4, ServeSectionsAre DEF Smooth, Left, InMu
  <2> QED BY <1>2, <2>1, <2>2
<1>5. ASSUME NEW b \in {Of("write", c), Of("pump", c)}, NEW l, f[k] = Go({b}, l), Smooth(k, l) PROVE HubSafe'
  <2>1. pc' = [h \in Goroutines |-> IF h = g THEN l ELSE IF h \in {b} THEN "start" ELSE pc[h]] /\ DataStays
    BY <1>5, DoesGo
  <2>2. Goroutines = DOMAIN HubSections
    BY HubRuns, HubGoroutinesRun, HubSectionsAre DEF Goroutines
  <2>3. g \in DOMAIN HubSections /\ HubSections[g] = ServeIn /\ pc[g] = k
    BY HubSectionsAre DEF At
  <2>4. GoesOn(HubSections, g, l, {b})
    BY <2>1, <2>2, <2>3 DEF GoesOn
  <2>5. Respects(HubSections, g, l)
    <3>1. Within(HubSections, g, l)
      BY <1>5, <2>3 DEF Within, Enters, Smooth
    <3> QED BY <2>1, <3>1, StaysWithin DEF DataStays
  <2>6. Closes(c, l, {})
    BY <2>1, ClosesNothing DEF DataStays
  <2>7. NotServed({b})
    BY HubNames, TwoConns DEF NotServed
  <2>8. l # "panic" /\ (k \in Left => l \in Left)
    BY <1>5 DEF Smooth
  <2> QED BY <2>4, <2>5, <2>6, <2>7, <2>8, ServeSafe
<1>6. CASE k = "serve"
  <2>1. f[k] = Go({Of("write", c)}, "read")
    BY <1>6 DEF ServeCode
  <2>2. Smooth(k, "read")
    BY <1>6, ServeSectionsAre DEF Smooth, Left, InMu
  <2> QED BY <1>5, <2>1, <2>2
<1>7. CASE k = "pump"
  <2>1. PICK l \in {"join1", "join2"} : f[k] = Go({Of("pump", c)}, l)
    BY <1>7, HubNames, TwoConns DEF ServeCode
  <2>2. Smooth(k, l)
    BY <1>7, ServeSectionsAre DEF Smooth, Left, InMu
  <2> QED BY <1>5, <2>1, <2>2
<1> QED BY <1>1, <1>3, <1>4, <1>6, <1>7

LEMMA ServeStepSafe ==
  ASSUME prog = "hub", HubParts, HubSafe, NEW c \in Conns, Step(Of("serve", c))
  PROVE  HubSafe'
<1>1. PICK g, k, f : g = Of("serve", c) /\ k = At(c) /\ f = ServeWS(c)
  OBVIOUS
<1>2. /\ Perform(g, f[k]) /\ ServeCode(c, f) /\ k \in ServeLabels \ {"idle", "end", "panic"}
  BY <1>1, StepPerforms, ServeInstr DEF Running, At
<1>3. CASE k \in {"find", "which", "look", "mine", "empty1", "empty2", "frames", "read",
                  "create", "forget", "add1", "add2", "delete1", "delete2"}
  BY <1>1, <1>2, <1>3, ServeQuietly
<1>4. CASE k \in {"start", "join1", "join2", "lock", "gone1", "gone2",
                  "added1", "added2", "joined", "stay1", "stay2", "last1", "last2", "unlock"}
  BY <1>1, <1>2, <1>4, ServeMutexes
<1>5. CASE k \in {"leave", "ws", "cancel1", "cancel2", "pump", "serve"}
  BY <1>1, <1>2, <1>5, ServeEnds
<1> QED BY <1>2, <1>3, <1>4, <1>5 DEF ServeLabels, InMu, Early, Attached

\* A step that no connection's goroutine takes and that closes at most a socket.
LEMMA OthersSafe ==
  ASSUME HubParts, HubSafe, NEW g \in DOMAIN HubSections, \A c \in Conns : g # Of("serve", c), NEW l, l # "panic",
         Goto(g, l), Respects(HubSections, g, l), NEW X \in SUBSET {"ws1", "ws2"}, closed' = closed \cup X
  PROVE  HubSafe'
<1>1. GoesOn(HubSections, g, l, {})
  BY HubDomain, GotoGoesOn
<1>2. \A c \in Conns : At(c)' = At(c)
  BY <1>1, HubSectionsAre DEF GoesOn, At
<1>3. \A c \in Conns : Of("closed", c) \notin X
  BY HubNames, TwoConns
<1>4. {"send1", "send2"} \cap X = {}
  OBVIOUS
<1>5. ChannelsOpen'
  BY <1>2, <1>3, <1>4, ChannelsStay DEF HubSafe
<1> QED BY <1>1, <1>5, HubSafeKept

LEMMA OthersQuiet ==
  ASSUME HubParts, HubSafe, NEW g \in DOMAIN HubSections, \A c \in Conns : g # Of("serve", c), NEW l, l # "panic",
         Goto(g, l), Respects(HubSections, g, l), closed' = closed
  PROVE  HubSafe'
<1>1. PICK X : X = {}
  OBVIOUS
<1>2. X \in SUBSET {"ws1", "ws2"} /\ closed' = closed \cup X
  BY <1>1
<1> QED BY <1>2, OthersSafe

\* A receive, a timer and a send leave the mutexes and what is closed alone.
LEMMA TakesQuietly ==
  ASSUME NEW g, NEW x, NEW l, Take(g, Recv(x, l)) \/ Take(g, Timer(l)) \/ (x \notin closed /\ Take(g, Send(x, l)))
  PROVE  Goto(g, l) /\ lock' = lock /\ closed' = closed /\ heap' = heap
BY TakesRecv, TakesTimer, TakesSend

LEMMA PumpStepSafe ==
  ASSUME prog = "hub", HubParts, HubSafe, NEW i \in Conns, Step(Of("pump", i))
  PROVE  HubSafe'
<1>1. PICK g, k, f : g = Of("pump", i) /\ k = Pump(i) /\ f = pumpRedis(i)
  OBVIOUS
<1>2. /\ Perform(g, f[k]) /\ PumpCode(i, f) /\ k \in PumpLabels \ {"idle", "end", "panic"}
  BY <1>1, StepPerforms, PumpInstr DEF Running, Pump
<1>3. /\ g \in DOMAIN HubSections /\ HubSections[g] = PumpIn(i) /\ pc[g] = k
      /\ \A c \in Conns : g # Of("serve", c)
  BY <1>1, HubSectionsAre, HubNames, TwoConns DEF Pump
<1>4. Guard(i) \in Mutexes
  BY TwoConns DEF Mutexes
<1>5. ASSUME NEW l, l \in Fanout => k \in Fanout PROVE Within(HubSections, g, l)
  BY <1>3, <1>5 DEF Within, Enters, PumpIn
<1>6. ASSUME NEW l, l # "panic", l \in Fanout => k \in Fanout, Goto(g, l), lock' = lock, closed' = closed PROVE HubSafe'
  <2>1. Respects(HubSections, g, l)
    BY <1>5, <1>6, StaysWithin
  <2> QED BY <1>3, <1>6, <2>1, OthersQuiet
<1>7. CASE k \in {"start", "quiet"}
  <2>1. PICK S : /\ S \subseteq {Recv(Of("ctx", i), "end"), Timer("message")}
                 /\ f[k] = CommOr(S, None)
    BY <1>2, <1>7, WithoutDefault DEF PumpCode
  <2>2. PICK d \in {Recv(Of("ctx", i), "end"), Timer("message")} : Take(g, d)
    <3>1. \A d \in {Recv(Of("ctx", i), "end"), Timer("message")} : d.dir # "send"
      BY DEF Recv, RangeOver, Timer
    <3> QED BY <1>2, <2>1, <3>1, DoesComm
  <2>3. PICK l \in {"end", "message"} : Goto(g, l) /\ lock' = lock /\ closed' = closed
    BY <2>2, TakesQuietly
  <2> QED BY <1>6, <2>3 DEF Fanout
<1>8. CASE k = "message"
  <2>1. f[k] = For(Of("messages", i), Messages, "lock", "quiet")
    BY <1>2, <1>8 DEF PumpCode
  <2>2. PICK l \in {"lock", "quiet"} : Goto(g, l) /\ lock' = lock /\ closed' = closed
    BY <1>2, <2>1, DoesFor
  <2> QED BY <1>6, <2>2 DEF Fanout
<1>9. CASE k \in {"first", "second"}
  <2>1. PICK x \in {In(i, 1), In(i, 2)}, l \in Fanout, m \in Fanout : f[k] = If(x, {1}, l, m)
    BY <1>2, <1>9 DEF PumpCode, Fanout
  <2>2. (Goto(g, l) \/ Goto(g, m)) /\ lock' = lock /\ closed' = closed
    BY <1>2, <2>1, DoesIf DEF DataStays
  <2>3. k \in Fanout /\ "panic" \notin Fanout
    BY <1>9 DEF Fanout
  <2> QED BY <1>6, <2>2, <2>3
<1>10. CASE k \in {"send1", "send2"}
  <2>1. PICK x \in {"send1", "send2"}, l \in {"second", "unlock"} : f[k] = CommOr({Send(x, l)}, l)
    BY <1>2, <1>10 DEF PumpCode
  <2>2. Cap(Send(x, l).ch) # 0 /\ Send(x, l).ch = x
    BY PumpInstr DEF Send
  <2>3. Take(g, Send(x, l)) \/ (Goto(g, l) /\ DataStays)
    BY <1>2, <2>1, <2>2, DoesComm
  <2>4. x \notin closed
    BY DEF HubSafe, ChannelsOpen
  <2>5. Goto(g, l) /\ lock' = lock /\ closed' = closed
    BY <2>3, <2>4, TakesQuietly DEF DataStays
  <2> QED BY <1>6, <1>10, <2>5 DEF Fanout
<1>11. CASE k = "lock"
  <2>1. f[k] = Lock(Guard(i), "first")
    BY <1>2, <1>11 DEF PumpCode
  <2>2. \A n \in Mutexes \ {Guard(i)} : Enters(HubSections, g, "first", n)
    BY <1>3 DEF Enters, PumpIn
  <2>3. Goto(g, "first") /\ Respects(HubSections, g, "first") /\ closed' = closed
    BY <1>2, <1>4, <2>1, <2>2, HubDomain, LockRespects
  <2> QED BY <1>3, <2>3, OthersQuiet
<1>12. CASE k = "unlock"
  <2>1. f[k] = Unlock(Guard(i), "start")
    BY <1>2, <1>12 DEF PumpCode
  <2>2. \A n \in Mutexes \ {Guard(i)} : Enters(HubSections, g, "start", n)
    BY <1>3 DEF Enters, PumpIn
  <2>3. pc[g] \in HubSections[g][Guard(i)] /\ "start" \notin HubSections[g][Guard(i)]
    BY <1>3, <1>4, <1>12 DEF PumpIn, Fanout
  <2>4. Goto(g, "start") /\ Respects(HubSections, g, "start") /\ closed' = closed
    BY <1>2, <1>3, <1>4, <2>1, <2>2, <2>3, HubDomain, HubProper, UnlockRespects DEF HubSafe
  <2> QED BY <1>3, <2>4, OthersQuiet
<1> QED BY <1>2, <1>7, <1>8, <1>9, <1>10, <1>11, <1>12 DEF PumpLabels

LEMMA WriteStepSafe ==
  ASSUME prog = "hub", HubParts, HubSafe, NEW c \in Conns, Step(Of("write", c))
  PROVE  HubSafe'
<1>1. PICK g, k, f : g = Of("write", c) /\ k = pc[g] /\ f = writeLoop(c)
  OBVIOUS
<1>2. /\ Perform(g, f[k]) /\ WriteCode(c, f) /\ k \in WriteLabels \ {"idle", "end", "panic"}
  BY <1>1, StepPerforms, WriteInstr DEF Running
<1>3. /\ g \in DOMAIN HubSections /\ HubSections[g] = Nowhere
      /\ \A d \in Conns : g # Of("serve", d)
  BY <1>1, HubSectionsAre, HubNames, TwoConns
<1>4. \A l : lock' = lock => Respects(HubSections, g, l)
  BY <1>3, StaysWithin DEF Within, Enters, Nowhere
<1>5. CASE k = "start"
  <2>1. PICK S : S = {Recv(Of("closed", c), "end"), Timer("write"), Recv(Of("send", c), "write")}
    OBVIOUS
  <2>2. f[k] = CommOr(S, None)
    BY <1>2, <1>5, <2>1, WithoutDefault DEF WriteCode
  <2>3. PICK d \in S : Take(g, d)
    <3>1. \A d \in S : d.dir # "send"
      BY <2>1 DEF Recv, RangeOver, Timer
    <3> QED BY <1>2, <2>2, <3>1, DoesComm
  <2>4. PICK l \in {"end", "write"} : Goto(g, l) /\ lock' = lock /\ closed' = closed
    BY <2>1, <2>3, TakesQuietly
  <2> QED BY <1>3, <1>4, <2>4, OthersQuiet
<1>6. CASE k = "write"
  <2>1. f[k] = Either({"start", "drop"})
    BY <1>2, <1>6 DEF WriteCode
  <2>2. PICK l \in {"start", "drop"} : Goto(g, l) /\ lock' = lock /\ closed' = closed
    BY <1>2, <2>1, DoesEither DEF DataStays
  <2> QED BY <1>3, <1>4, <2>2, OthersQuiet
<1>7. CASE k = "drop"
  <2>1. f[k] = Cancel({Of("ws", c)}, "end")
    BY <1>2, <1>7 DEF WriteCode
  <2>2. Goto(g, "end") /\ closed' = closed \cup {Of("ws", c)} /\ lock' = lock
    BY <1>2, <2>1, DoesCancel
  <2>3. {Of("ws", c)} \in SUBSET {"ws1", "ws2"}
    BY HubNames, TwoConns
  <2> QED BY <1>3, <1>4, <2>2, <2>3, OthersSafe
<1> QED BY <1>2, <1>5, <1>6, <1>7 DEF WriteLabels

LEMMA MainSafe ==
  ASSUME prog = "hub", HubParts, HubSafe, Step("main")
  PROVE  HubSafe'
<1>1. Perform("main", Instr("main")) /\ pc["main"] = "start"
  BY StepPerforms DEF Running, HubParts, LabelsShape
<1>2. Instr("main") = Go({"serve1", "serve2"}, "end")
  BY <1>1, HubRuns, HubGoroutinesRun DEF Instr
<1>3. /\ pc' = [h \in Goroutines |-> IF h = "main" THEN "end" ELSE IF h \in {"serve1", "serve2"} THEN "start" ELSE pc[h]]
      /\ lock' = lock /\ closed' = closed
  BY <1>1, <1>2, DoesGo DEF DataStays
<1>4. Goroutines = DOMAIN HubSections
  BY HubRuns, HubGoroutinesRun, HubSectionsAre DEF Goroutines
<1>5. "main" \in DOMAIN HubSections /\ HubSections["main"] = Nowhere
  BY HubSectionsAre
<1>6. GoesOn(HubSections, "main", "end", {"serve1", "serve2"})
  BY <1>3, <1>4, <1>5 DEF GoesOn
<1>7. Respects(HubSections, "main", "end")
  BY <1>3, <1>5, StaysWithin DEF Within, Enters, Nowhere
<1>8. \A c \in Conns : Of("closed", c) \notin closed
  <2>1. \A c \in Conns : At(c) = "idle"
    BY <1>1 DEF HubParts, LabelsShape
  <2> QED BY <2>1 DEF HubSafe, ChannelsOpen, Left
<1>9. ChannelsOpen'
  BY <1>3, <1>8 DEF HubSafe, ChannelsOpen
<1> QED BY <1>5, <1>6, <1>7, <1>9, HubSafeKept

LEMMA HubStepSafe ==
  ASSUME prog = "hub", HubParts, HubSafe, [Next]_vars
  PROVE  HubSafe'
<1>1. CASE UNCHANGED vars
  <2>1. pc' = pc /\ lock' = lock /\ closed' = closed
    BY <1>1 DEF vars, chanVars, syncVars
  <2> QED BY <2>1 DEF HubSafe, Guards, ChannelsOpen, NobodyPanicked, At
<1>2. ASSUME NEW g \in Goroutines, Step(g) PROVE HubSafe'
  <2>1. g \in {"main", "serve1", "serve2", "write1", "write2", "pump1", "pump2"}
    BY HubRuns, HubGoroutinesRun DEF Goroutines
  <2> QED BY <1>2, <2>1, HubNames, TwoConns, ServeStepSafe, PumpStepSafe, WriteStepSafe, MainSafe
<1>3. ~Expire
  BY HubRuns DEF Expire
<1> QED BY <1>1, <1>2, <1>3 DEF Next

LEMMA HubSafeBegins ==
  ASSUME Init, prog = "hub"
  PROVE  HubSafe
<1>1. Goroutines = DOMAIN HubSections
  BY HubRuns, HubGoroutinesRun, HubSectionsAre DEF Goroutines
<1>2. pc = [g \in Goroutines |-> IF g = "main" THEN "start" ELSE "idle"] /\ closed = {}
  BY DEF Init
<1>3. \A m \in Mutexes : "start" \notin Nowhere[m] /\ "idle" \notin ServeIn[m] /\ "idle" \notin Nowhere[m]
  BY DEF Mutexes, ServeIn, Nowhere, InMu
<1>4. \A i \in Conns : \A m \in Mutexes : "idle" \notin PumpIn(i)[m]
  BY DEF PumpIn, Fanout
<1>5. /\ \A g \in DOMAIN HubSections : HubSections[g] \in {ServeIn, Nowhere, PumpIn(1), PumpIn(2)}
      /\ HubSections["main"] = Nowhere
  BY DEF HubSections
<1>6. Guards(HubSections)
  BY <1>1, <1>2, <1>3, <1>4, <1>5, TwoConns DEF Guards
<1>7. ChannelsOpen /\ NobodyPanicked
  BY <1>1, <1>2 DEF ChannelsOpen, NobodyPanicked
<1> QED BY <1>6, <1>7 DEF HubSafe

\* Neither race nor rendezvous: instructions that use no variable.
LEMMA UsesNothing ==
  ASSUME NEW x, NEW y
  PROVE  /\ Lock(x, y).op \notin Uses /\ Unlock(x, y).op \notin Uses /\ Go(x, y).op \notin Uses
         /\ Close(x, y).op \notin Uses /\ Cancel(x, y).op \notin Uses /\ Either(x).op \notin Uses
         /\ Comm(x).op \notin Uses /\ CommOr(x, y).op \notin Uses
BY DEF Lock, Unlock, Go, Close, Cancel, Either, Comm, CommOr, Uses, Stores

\* The mutex of each of the hub's variables.
KeptBy == [sub |-> "mu", conn11 |-> "a", conn12 |-> "a", conn21 |-> "b", conn22 |-> "b"]
UnderItsMutex(g, i) == i.var \in DOMAIN KeptBy /\ lock[KeptBy[i.var]] = Held(g, 0)

LEMMA ServeUnderMutex ==
  ASSUME HubSafe, NEW c \in Conns, NEW g, g = Of("serve", c), NEW k, k = At(c), NEW f, ServeCode(c, f),
         k \in ServeLabels \ {"idle", "end", "panic"}, f[k].op \in Uses
  PROVE  UnderItsMutex(g, f[k])
<1>1. \A m \in Mutexes : k \in ServeIn[m] => lock[m] = Held(g, 0)
  BY HubSectionsAre DEF HubSafe, Guards, At
<1>2. CASE k \in {"find", "which", "look", "mine", "create", "forget"}
  <2>1. f[k] \in {If("sub", {0}, "create", "which"), If("sub", {1}, "join1", "join2"), If("sub", {0}, "unlock", "mine"),
                  If("sub", {1}, "gone1", "gone2"), Set("sub", c, "pump"), Set("sub", 0, "unlock")}
    BY <1>2 DEF ServeCode
  <2>2. f[k].var = "sub"
    BY <2>1 DEF If, Set
  <2>3. lock["mu"] = Held(g, 0)
    BY <1>1, <1>2, ServeSectionsAre DEF InMu
  <2> QED BY <2>2, <2>3 DEF UnderItsMutex, KeptBy
<1>3. CASE k \in {"add1", "delete1", "empty1"}
  <2>1. f[k] \in {Set(In(1, c), 1, "added1"), Set(In(1, c), 0, "empty1"), If(In(1, Other(c)), {1}, "stay1", "last1")}
    BY <1>3 DEF ServeCode
  <2>2. f[k].var \in {"conn11", "conn12"}
    BY <2>1, HubCells, TwoConns DEF If, Set
  <2>3. lock["a"] = Held(g, 0)
    BY <1>1, <1>3, ServeSectionsAre
  <2> QED BY <2>2, <2>3 DEF UnderItsMutex, KeptBy
<1>4. CASE k \in {"add2", "delete2", "empty2"}
  <2>1. f[k] \in {Set(In(2, c), 1, "added2"), Set(In(2, c), 0, "empty2"), If(In(2, Other(c)), {1}, "stay2", "last2")}
    BY <1>4 DEF ServeCode
  <2>2. f[k].var \in {"conn21", "conn22"}
    BY <2>1, HubCells, TwoConns DEF If, Set
  <2>3. lock["b"] = Held(g, 0)
    BY <1>1, <1>4, ServeSectionsAre
  <2> QED BY <2>2, <2>3 DEF UnderItsMutex, KeptBy
<1>5. CASE k \in {"start", "join1", "join2", "lock", "gone1", "gone2",
                  "added1", "added2", "joined", "stay1", "stay2", "last1", "last2", "unlock"}
  <2>1. \E m, l : f[k] = Lock(m, l) \/ f[k] = Unlock(m, l)
    BY <1>5 DEF ServeCode
  <2> QED BY <2>1, UsesNothing
<1>6. CASE k \in {"leave", "ws", "cancel1", "cancel2", "pump", "serve", "frames", "read"}
  <2>1. \E x, l : f[k] = Close(x, l) \/ f[k] = Cancel(x, l) \/ f[k] = Go(x, l) \/ f[k] = Either(x) \/ f[k] = Comm(x)
    BY <1>6 DEF ServeCode
  <2> QED BY <2>1, UsesNothing
<1> QED BY <1>2, <1>3, <1>4, <1>5, <1>6 DEF ServeLabels, InMu, Early, Attached

LEMMA PumpUnderMutex ==
  ASSUME HubSafe, NEW i \in Conns, NEW g, g = Of("pump", i), NEW k, k = Pump(i), NEW f, PumpCode(i, f),
         k \in PumpLabels \ {"idle", "end", "panic"}, f[k].op \in Uses
  PROVE  UnderItsMutex(g, f[k])
<1>1. k \in Fanout => lock[Guard(i)] = Held(g, 0)
  <2>1. Guard(i) \in Mutexes /\ Guard(i) \in {"a", "b"}
    BY TwoConns DEF Mutexes
  <2>2. PumpIn(i)[Guard(i)] = Fanout
    BY <2>1 DEF PumpIn
  <2> QED BY <2>1, <2>2, HubSectionsAre DEF HubSafe, Guards, Pump
<1>2. CASE k \in {"first", "second"}
  <2>1. \E c \in Conns : \E l, m : f[k] = If(In(i, c), {1}, l, m)
    BY <1>2, TwoConns DEF PumpCode
  <2>2. \E c \in Conns : f[k].var = In(i, c)
    BY <2>1 DEF If
  <2>3. k \in Fanout
    BY <1>2 DEF Fanout
  <2> QED BY <1>1, <2>2, <2>3, TwoConns, HubCells DEF UnderItsMutex, KeptBy
<1>3. CASE k = "message"
  <2>1. f[k] = For(Of("messages", i), Messages, "lock", "quiet")
    BY <1>3 DEF PumpCode
  <2> QED BY <2>1 DEF For, Uses, Stores
<1>4. CASE k \in {"start", "quiet", "lock", "send1", "send2", "unlock"}
  <2>1. \E x, l : f[k] = Lock(x, l) \/ f[k] = Unlock(x, l) \/ f[k] = Comm(x) \/ f[k] = CommOr(x, l)
    BY <1>4 DEF PumpCode
  <2> QED BY <2>1, UsesNothing
<1> QED BY <1>2, <1>3, <1>4 DEF PumpLabels

LEMMA HubUnderMutex ==
  ASSUME prog = "hub", HubParts, HubSafe, NEW g \in Goroutines, NEW i \in AtHand(g), i.op \in Uses
  PROVE  UnderItsMutex(g, i)
<1>1. Running(g) /\ i = Instr(g)
  BY DEF AtHand
<1>2. g \in {"main", "serve1", "serve2", "write1", "write2", "pump1", "pump2"}
  BY HubRuns, HubGoroutinesRun DEF Goroutines
<1>3. ASSUME NEW c \in Conns, g = Of("serve", c) PROVE UnderItsMutex(g, i)
  <2>1. PICK k, f : k = At(c) /\ f = ServeWS(c)
    OBVIOUS
  <2>2. i = f[k] /\ ServeCode(c, f) /\ k \in ServeLabels \ {"idle", "end", "panic"}
    BY <1>1, <1>3, <2>1, ServeInstr DEF Running, At
  <2> QED BY <1>3, <2>1, <2>2, ServeUnderMutex
<1>4. ASSUME NEW c \in Conns, g = Of("pump", c) PROVE UnderItsMutex(g, i)
  <2>1. PICK k, f : k = Pump(c) /\ f = pumpRedis(c)
    OBVIOUS
  <2>2. i = f[k] /\ PumpCode(c, f) /\ k \in PumpLabels \ {"idle", "end", "panic"}
    BY <1>1, <1>4, <2>1, PumpInstr DEF Running, Pump
  <2> QED BY <1>4, <2>1, <2>2, PumpUnderMutex
<1>5. ASSUME NEW c \in Conns, g = Of("write", c) PROVE FALSE
  <2>1. PICK k, f : k = pc[g] /\ f = writeLoop(c)
    OBVIOUS
  <2>2. i = f[k] /\ WriteCode(c, f) /\ k \in WriteLabels \ {"idle", "end", "panic"}
    BY <1>1, <1>5, <2>1, WriteInstr DEF Running
  <2>3. \E x, l : f[k] = Comm(x) \/ f[k] = Either(x) \/ f[k] = Cancel(x, l)
    BY <2>2 DEF WriteCode, WriteLabels
  <2> QED BY <2>2, <2>3, UsesNothing
<1>6. ASSUME g = "main" PROVE FALSE
  <2>1. pc["main"] = "start"
    BY <1>1, <1>6 DEF Running, HubParts, LabelsShape
  <2>2. i = Go({"serve1", "serve2"}, "end")
    BY <1>1, <1>6, <2>1, HubRuns, HubGoroutinesRun DEF Instr
  <2> QED BY <2>2, UsesNothing
<1> QED BY <1>2, <1>3, <1>4, <1>5, <1>6, HubNames, TwoConns

LEMMA HubInterferesNot ==
  ASSUME prog = "hub", HubParts, HubSafe
  PROVE  NobodyInterferes
<1> SUFFICES ASSUME NEW g \in Goroutines, NEW h \in Goroutines \ {g}, NEW i \in AtHand(g), NEW j \in AtHand(h),
                    i.op \in Uses, j.op \in Uses, i.var = j.var
             PROVE  FALSE
  BY DEF NobodyInterferes, Uses
<1>1. UnderItsMutex(g, i) /\ UnderItsMutex(h, j)
  BY HubUnderMutex
<1> QED BY <1>1, HeldOnce DEF UnderItsMutex

\* Instructions by which wait groups race: none of these.
AtGroup(i) == i.op = "wgwait" \/ (i.op = "wgadd" /\ i.by > 0)

LEMMA NoGroups ==
  ASSUME NEW x, NEW y, NEW z, NEW u
  PROVE  /\ ~AtGroup(Lock(x, y)) /\ ~AtGroup(Unlock(x, y)) /\ ~AtGroup(Go(x, y)) /\ ~AtGroup(Close(x, y))
         /\ ~AtGroup(Cancel(x, y)) /\ ~AtGroup(Either(x)) /\ ~AtGroup(Comm(x)) /\ ~AtGroup(CommOr(x, y))
         /\ ~AtGroup(If(x, y, z, u)) /\ ~AtGroup(Set(x, y, z)) /\ ~AtGroup(Plus(x, y, z)) /\ ~AtGroup(Panic(x))
         /\ ~AtGroup(For(x, y, z, u)) /\ ~AtGroup(Read(x, y)) /\ ~AtGroup(Write(x, y, z)) /\ ~AtGroup(Add(x, -1, y))
BY DEF AtGroup, Lock, Unlock, Go, Close, Cancel, Either, Comm, CommOr, If, Set, Plus, Panic, For, Read, Write, Add

LEMMA HubHasNoGroup ==
  ASSUME prog = "hub", HubParts, NEW g \in Goroutines, NEW i \in AtHand(g)
  PROVE  ~AtGroup(i)
<1>1. Running(g) /\ i = Instr(g)
  BY DEF AtHand
<1>2. g \in {"main", "serve1", "serve2", "write1", "write2", "pump1", "pump2"}
  BY HubRuns, HubGoroutinesRun DEF Goroutines
<1>3. ASSUME NEW c \in Conns, g = Of("serve", c) PROVE ~AtGroup(i)
  <2>1. PICK k, f : k = At(c) /\ f = ServeWS(c)
    OBVIOUS
  <2>2. i = f[k] /\ ServeCode(c, f) /\ k \in ServeLabels \ {"idle", "end", "panic"}
    BY <1>1, <1>3, <2>1, ServeInstr DEF Running, At
  <2> QED BY <2>2 DEF ServeCode, ServeLabels, InMu, Early, Attached,
                           AtGroup, Lock, Unlock, Go, Close, Cancel, Either, Comm, CommOr, If, Set
<1>4. ASSUME NEW c \in Conns, g = Of("pump", c) PROVE ~AtGroup(i)
  <2>1. PICK k, f : k = Pump(c) /\ f = pumpRedis(c)
    OBVIOUS
  <2>2. i = f[k] /\ PumpCode(c, f) /\ k \in PumpLabels \ {"idle", "end", "panic"}
    BY <1>1, <1>4, <2>1, PumpInstr DEF Running, Pump
  <2> QED BY <2>2 DEF PumpCode, PumpLabels, AtGroup, Lock, Unlock, Comm, CommOr, If, For
<1>5. ASSUME NEW c \in Conns, g = Of("write", c) PROVE ~AtGroup(i)
  <2>1. PICK k, f : k = pc[g] /\ f = writeLoop(c)
    OBVIOUS
  <2>2. i = f[k] /\ WriteCode(c, f) /\ k \in WriteLabels \ {"idle", "end", "panic"}
    BY <1>1, <1>5, <2>1, WriteInstr DEF Running
  <2> QED BY <2>2, NoGroups DEF WriteCode, WriteLabels
<1>6. ASSUME g = "main" PROVE ~AtGroup(i)
  <2>1. pc["main"] = "start"
    BY <1>1, <1>6 DEF Running, HubParts, LabelsShape
  <2>2. i = Go({"serve1", "serve2"}, "end")
    BY <1>1, <1>6, <2>1, HubRuns, HubGoroutinesRun DEF Instr
  <2> QED BY <2>2, NoGroups
<1> QED BY <1>2, <1>3, <1>4, <1>5, <1>6, HubNames, TwoConns

\* Only the caller of the resolvers waits for the group, or adds to it.
LEMMA LoaderGroup ==
  ASSUME NEW keyOf, Asking(keyOf), LoaderParts(keyOf), NEW g \in Goroutines, g # "main", NEW i \in AtHand(g)
  PROVE  ~AtGroup(i)
<1>1. Running(g) /\ i = Instr(g)
  BY DEF AtHand
<1>2. g \in {"flush1", "flush2", "flush3", "run1", "run2", "run3"} \cup Callers
  BY LoaderRuns
<1>3. LoaderLabels
  BY SoundTimes
<1>4. CASE g \in Callers
  <2>1. PICK f, k : k = keyOf[g] /\ f = Load(k)
    OBVIOUS
  <2>2. i = f[pc[g]] /\ CallerCode(k, f)
    BY <1>1, <1>4, <2>1, LoaderRuns, LoadCodeIs DEF Instr
  <2>3. Stage(g) \in Numbers \cup Plain /\ (Stage(g) \in Plain => pc[g] = Stage(g))
    BY <1>3, <1>4, StageTable DEF LoaderLabels, Stage
  <2>4. CASE Stage(g) \in Plain
    <3>1. pc[g] \in Plain \ {"idle", "end"}
      BY <1>1, <2>3, <2>4 DEF Running
    <3> QED BY <2>2, <3>1 DEF CallerCode, Plain, AtGroup, Lock, If, Set, Go, Add
  <2>5. CASE Stage(g) \in Numbers
    <3>1. PICK x \in Numbers, b \in Keys : pc[g] = Of(x, b)
      BY <1>3, <1>4, <2>5, NumberedStage
    <3>2. i = f[Of(x, b)]
      BY <2>2, <3>1
    <3>3. i \in {Set(Of("batch", k), b, Of("key", b)), Plus(Of("keys", b), Bit[k], Of("full", b)),
                 If(Of("keys", b), Full, Of("send", b), Of("leave", b)), Set(Of("sent", b), 1, Of("clear", b)),
                 Set("pending", 0, Of("go", b)), Go({Of("run", b)}, Of("leave", b)), Unlock("mu", Of("wait", b)),
                 Comm({Recv(Of("done", b), Of("read", b)), Recv("ctx", "done")}), Read(Of("results", b), "done")}
      BY <2>2, <3>1, <3>2 DEF CallerCode, Numbers
    <3> QED BY <3>3, NoGroups
  <2> QED BY <2>3, <2>4, <2>5
<1>5. ASSUME NEW b \in Keys, NEW f, FetchCode(b, f), NEW k \in Fetching, i = f[k] PROVE ~AtGroup(i)
  BY <1>5, NoGroups DEF FetchCode, Fetching
<1>6. CASE g \in {"flush1", "flush2", "flush3"}
  <2>1. PICK b \in Keys : g = Of("flush", b)
    BY <1>6, ThreeKeys, CellNames
  <2>2. PICK f, k : f = flush(b) /\ k = Flush(b)
    OBVIOUS
  <2>3. i = f[k] /\ FlushCode(b, f) /\ k \in FlushLabels \ {"idle", "end"}
    BY <1>1, <1>3, <2>1, <2>2, LoaderRuns, FlushCodeIs DEF Instr, Flush, Running, LoaderLabels, FlushLabels
  <2>4. CASE k \in Fetching
    BY <1>5, <2>3, <2>4 DEF FlushCode
  <2>5. CASE k \in {"start", "run"} \cup FlushMu
    BY <2>3, <2>5, NoGroups DEF FlushCode, FlushMu
  <2> QED BY <2>3, <2>4, <2>5 DEF FlushLabels
<1>7. CASE g \in {"run1", "run2", "run3"}
  <2>1. PICK b \in Keys : g = Of("run", b)
    BY <1>7, ThreeKeys, CellNames
  <2>2. PICK f, k : f = run(b, "start") /\ k = Runner(b)
    OBVIOUS
  <2>3. i = f[k] /\ RunCode(b, f) /\ k \in RunnerLabels \ {"idle", "end"}
    BY <1>1, <1>3, <2>1, <2>2, LoaderRuns, RunCodeIs DEF Instr, Runner, Running, LoaderLabels, RunnerLabels, RunCode
  <2>4. CASE k \in Fetching
    BY <1>5, <2>3, <2>4 DEF RunCode
  <2>5. CASE k = "start"
    BY <2>3, <2>5, NoGroups DEF RunCode
  <2> QED BY <2>3, <2>4, <2>5 DEF RunnerLabels
<1> QED BY <1>2, <1>4, <1>6, <1>7

LEMMA LoaderInterferesNot ==
  ASSUME NEW keyOf, Asking(keyOf), LoaderParts(keyOf)
  PROVE  NobodyInterferes
<1> SUFFICES ASSUME NEW g \in Goroutines, NEW h \in Goroutines \ {g}, NEW i \in AtHand(g), NEW j \in AtHand(h),
                    i.op \in Stores, j.op \in Uses, i.var = j.var
             PROVE  FALSE
  BY DEF NobodyInterferes
<1>1. RunsFit
  BY SoundTimes DEF Sound
<1>2. Entitled(g, i) /\ Entitled(h, j)
  BY EveryoneEntitled DEF Uses
<1> QED BY <1>1, <1>2, EntitledOnce

\* Neither a variable nor, beside Wait, a group that is at zero.
LEMMA NoConflict ==
  ASSUME NobodyInterferes, NEW o, \A g \in Goroutines \ {o} : \A i \in AtHand(g) : ~AtGroup(i)
  PROVE  RaceFree
<1> SUFFICES ASSUME NEW g \in Goroutines, NEW h \in Goroutines \ {g}, NEW i \in AtHand(g), NEW j \in AtHand(h), Conflict(i, j)
             PROVE  FALSE
  BY DEF RaceFree
<1>1. ~(i.op \in Writing /\ j.op \in Touching /\ i.var = j.var)
  BY DEF NobodyInterferes, Stores, Uses, Writing, Touching
<1>2. AtGroup(i) /\ AtGroup(j)
  BY <1>1 DEF Conflict, AtGroup
<1> QED BY <1>2

-----------------------------------------------------------------------------
(* The server's requests: two of a kind.                                   *)

\* Two goroutines, and the one that starts them.
Pair   == {"w1", "w2"}
Begin  == Go(Pair, "end")
Two(a, b) == [w1 |-> a, w2 |-> b] ++ Serve(Pair)

LEMMA TwoRun ==
  ASSUME NEW a, NEW b
  PROVE  /\ DOMAIN Two(a, b) = {"main", "w1", "w2"}
         /\ Two(a, b)["w1"] = a /\ Two(a, b)["w2"] = b
         /\ Two(a, b)["main"] = [start |-> Begin]
BY DEF Two, Serve, Begin, Pair, ++

\* The table has the server's three kinds of request.
LEMMA RequestsRun ==
  /\ prog = "verifiers"    => Program.code = Two(VerifyToken, VerifyToken) /\ Program.deadlines = {}
  /\ prog = "availability" => Program.code = Two(getAvailability, sendInitialFrames) /\ Program.deadlines = {}
  /\ prog = "charges"      => Program.code = Two(Charge, Charge) /\ Program.deadlines = {}
<1>1. /\ {"verifiers", "availability", "charges"} \subseteq DOMAIN Servers
      /\ Servers["verifiers"].code = Verifiers /\ Servers["verifiers"].deadlines = {}
      /\ Servers["availability"].code = Availability /\ Servers["availability"].deadlines = {}
      /\ Servers["charges"].code = Charges /\ Servers["charges"].deadlines = {}
  BY DEF Servers, Requests
<1>2. Verifiers = Two(VerifyToken, VerifyToken) /\ Charges = Two(Charge, Charge)
      /\ Availability = Two(getAvailability, sendInitialFrames)
  BY DEF Verifiers, Charges, Availability, Two, Pair
<1> QED BY <1>1, <1>2, ServersRun DEF Program

\* The key set: k is a label of VerifyToken.
FetchesKeys == {"cached", "age", "fetch", "fetched", "reply", "keep", "failed", "unlock"}
KeyLabels   == FetchesKeys \cup {"idle", "start", "claims", "serve", "end"}
VerifyCode(f) ==
  /\ f["start"] = Lock("mu", "cached")
  /\ f["cached"] = If("set", {1}, "age", "fetch")
  /\ f["age"] = Either({"unlock", "fetch"})
  /\ f["fetch"] = Plus("fetching", 1, "fetched")
  /\ f["fetched"] = Plus("fetching", -1, "reply")
  /\ f["reply"] = Either({"keep", "failed"})
  /\ f["failed"] = Unlock("mu", "end")
  /\ f["keep"] = Set("set", 1, "unlock")
  /\ f["unlock"] = Unlock("mu", "claims")
  /\ f["claims"] = Either({"serve", "end"})
  /\ f["serve"] = CommOr({Timer("end")}, None)

LEMMA VerifyCodeIs == VerifyCode(VerifyToken)
<1>1. PICK f : f = [claims |-> Either({"serve", "end"}), serve |-> Comm({Timer("end")})]
  OBVIOUS
<1>2. VerifyToken = keySet ++ f
  BY <1>1 DEF VerifyToken
<1>3. DOMAIN f = {"claims", "serve"}
  BY <1>1
<1>4. DOMAIN keySet = {"start", "cached", "age", "fetch", "fetched", "reply", "failed", "keep", "unlock"}
  BY DEF keySet
<1>5. /\ \A x \in DOMAIN keySet : VerifyToken[x] = keySet[x]
      /\ \A x \in DOMAIN f : VerifyToken[x] = f[x]
  BY <1>2, <1>3, <1>4 DEF ++
<1> QED BY <1>1, <1>3, <1>4, <1>5, WithoutDefault DEF VerifyCode, keySet

KeyIn       == [m \in Mutexes |-> IF m = "mu" THEN FetchesKeys ELSE {}]
KeySections == [main |-> Nowhere, w1 |-> KeyIn, w2 |-> KeyIn]

\* Who fetches the key set holds the lock, and nobody panics.
KeysSafe ==
  /\ DOMAIN pc = {"main", "w1", "w2"} /\ DOMAIN lock = Mutexes
  /\ pc["main"] \in {"start", "end"} /\ \A w \in Pair : pc[w] \in KeyLabels
  /\ Guards(KeySections)

LEMMA KeySectionsAre ==
  /\ DOMAIN KeySections = {"main", "w1", "w2"} /\ KeySections["main"] = Nowhere
  /\ \A w \in Pair : KeySections[w] = KeyIn
  /\ Proper(KeySections)
<1>1. DOMAIN KeySections = {"main", "w1", "w2"} /\ KeySections["main"] = Nowhere /\ \A w \in Pair : KeySections[w] = KeyIn
  BY DEF KeySections, Pair
<1>2. \A m \in Mutexes : "start" \notin KeyIn[m] /\ "start" \notin Nowhere[m]
  BY DEF KeyIn, Nowhere, FetchesKeys
<1>3. \A g \in DOMAIN KeySections : KeySections[g] \in {KeyIn, Nowhere}
  BY DEF KeySections
<1> QED BY <1>1, <1>2, <1>3 DEF Proper, None

\* One goes on.
LEMMA KeysGoto ==
  ASSUME KeysSafe, NEW w \in Pair, NEW l \in KeyLabels, Goto(w, l), Respects(KeySections, w, l), DOMAIN lock' = Mutexes
  PROVE  KeysSafe'
<1>1. w \in DOMAIN KeySections /\ DOMAIN KeySections \subseteq DOMAIN pc
  BY KeySectionsAre DEF KeysSafe, Pair
<1>2. GoesOn(KeySections, w, l, {})
  BY <1>1, GotoGoesOn
<1>3. Guards(KeySections)'
  BY <1>1, <1>2, KeySectionsAre, GuardsKept DEF KeysSafe
<1> QED BY <1>3 DEF KeysSafe, Goto, Pair

LEMMA VerifierKeeps ==
  ASSUME KeysSafe, NEW w \in Pair, NEW k, k = pc[w], NEW f, VerifyCode(f), Perform(w, f[k]), k \notin {"idle", "end"}
  PROVE  KeysSafe'
<1>1. w \in DOMAIN KeySections /\ KeySections[w] = KeyIn /\ "mu" \in Mutexes /\ DOMAIN lock = Mutexes /\ k \in KeyLabels
  BY KeySectionsAre DEF KeysSafe, Pair, Mutexes
<1>2. ASSUME NEW l \in KeyLabels, l \in FetchesKeys => k \in FetchesKeys, Goto(w, l), lock' = lock PROVE KeysSafe'
  <2>1. Within(KeySections, w, l)
    BY <1>1, <1>2 DEF Within, Enters, KeyIn
  <2>2. Respects(KeySections, w, l)
    BY <1>2, <2>1, StaysWithin
  <2> QED BY <1>1, <1>2, <2>2, KeysGoto
<1>3. CASE k = "start"
  <2>1. f[k] = Lock("mu", "cached")
    BY <1>3 DEF VerifyCode
  <2>2. \A n \in Mutexes \ {"mu"} : Enters(KeySections, w, "cached", n)
    BY <1>1 DEF Enters, KeyIn
  <2>3. Goto(w, "cached") /\ Respects(KeySections, w, "cached") /\ DOMAIN lock' = Mutexes
    BY <1>1, <2>1, <2>2, LockRespects
  <2> QED BY <2>3, KeysGoto DEF KeyLabels, FetchesKeys
<1>4. CASE k \in {"failed", "unlock"}
  <2>1. PICK l \in {"end", "claims"} : f[k] = Unlock("mu", l)
    BY <1>4 DEF VerifyCode
  <2>2. /\ \A n \in Mutexes \ {"mu"} : Enters(KeySections, w, l, n)
        /\ pc[w] \in KeySections[w]["mu"] /\ l \notin KeySections[w]["mu"]
    BY <1>1, <1>4 DEF Enters, KeyIn, FetchesKeys
  <2>3. Goto(w, l) /\ Respects(KeySections, w, l) /\ DOMAIN lock' = Mutexes
    BY <1>1, <2>1, <2>2, KeySectionsAre, UnlockRespects DEF KeysSafe
  <2> QED BY <2>3, KeysGoto DEF KeyLabels
<1>5. CASE k = "cached"
  <2>1. f[k] = If("set", {1}, "age", "fetch")
    BY <1>5 DEF VerifyCode
  <2>2. (Goto(w, "age") \/ Goto(w, "fetch")) /\ lock' = lock
    BY <2>1, DoesIf DEF DataStays
  <2> QED BY <1>2, <1>5, <2>2 DEF KeyLabels, FetchesKeys
<1>6. CASE k \in {"age", "reply", "claims"}
  <2>1. PICK S : f[k] = Either(S) /\ \A l \in S : l \in KeyLabels /\ (l \in FetchesKeys => k \in FetchesKeys)
    BY <1>6 DEF VerifyCode, KeyLabels, FetchesKeys
  <2>2. PICK l \in S : Goto(w, l) /\ lock' = lock
    BY <2>1, DoesEither DEF DataStays
  <2> QED BY <1>2, <2>1, <2>2
<1>7. CASE k \in {"fetch", "fetched"}
  <2>1. PICK n \in {1, -1}, l \in {"fetched", "reply"} : f[k] = Plus("fetching", n, l)
    BY <1>7 DEF VerifyCode
  <2>2. Goto(w, l) /\ lock' = lock
    BY <2>1, DoesPlus
  <2> QED BY <1>2, <1>7, <2>2 DEF KeyLabels, FetchesKeys
<1>8. CASE k = "keep"
  <2>1. f[k] = Set("set", 1, "unlock")
    BY <1>8 DEF VerifyCode
  <2>2. Goto(w, "unlock") /\ lock' = lock
    BY <2>1, DoesSet
  <2> QED BY <1>2, <1>8, <2>2 DEF KeyLabels, FetchesKeys
<1>9. CASE k = "serve"
  <2>1. f[k] = CommOr({Timer("end")}, None)
    BY <1>9 DEF VerifyCode
  <2>2. \A d \in {Timer("end")} : d.dir # "send"
    BY DEF Timer
  <2>3. Take(w, Timer("end"))
    BY <2>1, <2>2, DoesComm
  <2>4. Goto(w, "end") /\ lock' = lock
    BY <2>3, TakesTimer
  <2> QED BY <1>2, <2>4 DEF KeyLabels, FetchesKeys
<1> QED BY <1>1, <1>3, <1>4, <1>5, <1>6, <1>7, <1>8, <1>9 DEF KeyLabels, FetchesKeys

LEMMA VerifierRuns ==
  ASSUME prog = "verifiers", KeysSafe
  PROVE  /\ Goroutines = {"main", "w1", "w2"} /\ Instr("main") = [start |-> Begin][pc["main"]]
         /\ \A w \in Pair : Instr(w) = VerifyToken[pc[w]]
BY RequestsRun, TwoRun DEF Goroutines, Instr, Pair

LEMMA KeysStepSafe ==
  ASSUME prog = "verifiers", KeysSafe, [Next]_vars
  PROVE  KeysSafe'
<1>1. CASE UNCHANGED vars
  BY <1>1 DEF vars, syncVars, KeysSafe, Guards
<1>2. ASSUME NEW w \in Pair, Step(w) PROVE KeysSafe'
  <2>1. PICK k, f : k = pc[w] /\ f = VerifyToken
    OBVIOUS
  <2>2. Perform(w, f[k]) /\ k \notin {"idle", "end"} /\ VerifyCode(f)
    BY <1>2, <2>1, StepPerforms, VerifierRuns, VerifyCodeIs DEF Running
  <2> QED BY <2>1, <2>2, VerifierKeeps
<1>3. ASSUME Step("main") PROVE KeysSafe'
  <2>1. pc["main"] = "start" /\ Perform("main", Instr("main"))
    BY <1>3, StepPerforms DEF Running, KeysSafe
  <2>2. Perform("main", Go(Pair, "end"))
    BY <2>1, VerifierRuns DEF Begin
  <2>3. /\ pc' = [h \in Goroutines |-> IF h = "main" THEN "end" ELSE IF h \in Pair THEN "start" ELSE pc[h]]
        /\ lock' = lock
    BY <2>2, DoesGo DEF DataStays
  <2>4. Goroutines = DOMAIN KeySections
    BY VerifierRuns, KeySectionsAre
  <2>5. GoesOn(KeySections, "main", "end", Pair)
    BY <2>3, <2>4, KeySectionsAre DEF GoesOn
  <2>6. Respects(KeySections, "main", "end")
    BY <2>3, KeySectionsAre, StaysWithin DEF Within, Enters, Nowhere
  <2>7. Guards(KeySections)'
    BY <2>5, <2>6, KeySectionsAre, GuardsKept DEF KeysSafe
  <2> QED BY <2>3, <2>4, <2>7, KeySectionsAre DEF KeysSafe, Pair, KeyLabels
<1>4. ~Expire
  BY RequestsRun DEF Expire
<1> QED BY <1>1, <1>2, <1>3, <1>4, VerifierRuns DEF Next, Pair

LEMMA KeysSafeBegins ==
  ASSUME Init, prog = "verifiers"
  PROVE  KeysSafe
<1>1. Goroutines = {"main", "w1", "w2"}
  BY RequestsRun, TwoRun DEF Goroutines
<1>2. pc = [g \in Goroutines |-> IF g = "main" THEN "start" ELSE "idle"] /\ lock = [m \in Mutexes |-> Held(None, 0)]
  BY DEF Init
<1>3. \A m \in Mutexes : "start" \notin Nowhere[m] /\ "idle" \notin KeyIn[m]
  BY DEF KeyIn, Nowhere, FetchesKeys
<1>4. Guards(KeySections)
  BY <1>1, <1>2, <1>3, KeySectionsAre DEF Guards, Pair
<1> QED BY <1>1, <1>2, <1>4 DEF KeysSafe, Pair, KeyLabels

\* The key set and the count of fetches are used with the lock held.
LEMMA KeysUnderMutex ==
  ASSUME prog = "verifiers", KeysSafe, NEW g \in Goroutines, NEW i \in AtHand(g)
  PROVE  (i.op \in Uses => lock["mu"] = Held(g, 0)) /\ ~AtGroup(i)
<1>1. Running(g) /\ i = Instr(g)
  BY DEF AtHand
<1>2. CASE g = "main"
  <2>1. i = Go(Pair, "end")
    BY <1>1, <1>2, VerifierRuns DEF Running, KeysSafe, Begin
  <2> QED BY <2>1, UsesNothing, NoGroups
<1>3. CASE g \in Pair
  <2>1. PICK k, f : k = pc[g] /\ f = VerifyToken
    OBVIOUS
  <2>2. i = f[k] /\ VerifyCode(f) /\ k \in KeyLabels \ {"idle", "end"}
    BY <1>1, <1>3, <2>1, VerifierRuns, VerifyCodeIs DEF Running, KeysSafe
  <2>3. k \in FetchesKeys => lock["mu"] = Held(g, 0)
    <3>1. "mu" \in Mutexes /\ g \in DOMAIN KeySections /\ KeySections[g] = KeyIn
      BY <1>3, KeySectionsAre DEF Mutexes, Pair
    <3> QED BY <2>1, <3>1 DEF KeysSafe, Guards, KeyIn
  <2>4. ~AtGroup(i)
    BY <2>2 DEF VerifyCode, KeyLabels, FetchesKeys, AtGroup, Lock, Unlock, If, Either, Plus, Set, CommOr
  <2>5. k \in {"start", "claims", "serve"} => i.op \notin Uses
    BY <2>2, UsesNothing DEF VerifyCode
  <2> QED BY <2>2, <2>3, <2>4, <2>5 DEF KeyLabels
<1> QED BY <1>2, <1>3, VerifierRuns DEF Pair

LEMMA KeysRaceNot ==
  ASSUME prog = "verifiers", KeysSafe
  PROVE  RaceFree /\ NobodyInterferes
<1>1. NobodyInterferes
  BY KeysUnderMutex, HeldOnce DEF NobodyInterferes, Uses
<1>2. \A g \in Goroutines \ {"main"} : \A i \in AtHand(g) : ~AtGroup(i)
  BY KeysUnderMutex
<1> QED BY <1>1, <1>2, NoConflict

\* Code that tests, chooses, reads and writes: it has no way to panic.
Calm(f, i) ==
  \E L \in SUBSET (DOMAIN f \cup {"end"}) :
    \/ i = Either(L) \/ i = Comm({Timer(l) : l \in L})
    \/ \E x, y : \E l, m \in L : i = If(x, y, l, m) \/ i = Set(x, y, l) \/ i = Read(x, l) \/ i = Go(x, l)
CalmCode(f) == "start" \in DOMAIN f /\ "panic" \notin DOMAIN f /\ \A k \in DOMAIN f : Calm(f, f[k])

LEMMA CalmGoes ==
  ASSUME NEW f, NEW g, NEW i, Calm(f, i), Perform(g, i)
  PROVE  \/ \E l \in DOMAIN f \cup {"end"} : Goto(g, l)
         \/ \E S : \E l \in DOMAIN f \cup {"end"} :
              pc' = [h \in Goroutines |-> IF h = g THEN l ELSE IF h \in S THEN "start" ELSE pc[h]]
<1>1. PICK L \in SUBSET (DOMAIN f \cup {"end"}) :
    \/ i = Either(L) \/ i = Comm({Timer(l) : l \in L})
    \/ \E x, y : \E l, m \in L : i = If(x, y, l, m) \/ i = Set(x, y, l) \/ i = Read(x, l) \/ i = Go(x, l)
  BY DEF Calm
<1>2. CASE i = Either(L)
  BY <1>2, DoesEither
<1>3. CASE i = Comm({Timer(l) : l \in L})
  <2>1. PICK S : S = {Timer(l) : l \in L}
    OBVIOUS
  <2>2. i = CommOr(S, None)
    BY <1>3, <2>1, WithoutDefault
  <2>3. \A d \in S : d.dir # "send"
    BY <2>1 DEF Timer
  <2>4. PICK d \in S : Take(g, d)
    BY <2>2, <2>3, DoesComm
  <2>5. PICK l \in L : d = Timer(l)
    BY <2>1
  <2> QED BY <2>4, <2>5, TakesTimer
<1>4. ASSUME NEW l \in L, NEW m \in L, NEW x, NEW y, i = If(x, y, l, m) PROVE \E n \in DOMAIN f \cup {"end"} : Goto(g, n)
  BY <1>4, DoesIf
<1>5. ASSUME NEW l \in L, NEW x, NEW y, i = Set(x, y, l) PROVE \E n \in DOMAIN f \cup {"end"} : Goto(g, n)
  BY <1>5, DoesSet
<1>6. ASSUME NEW l \in L, NEW x, i = Read(x, l) PROVE \E n \in DOMAIN f \cup {"end"} : Goto(g, n)
  BY <1>6, DoesRead
<1>7. ASSUME NEW l \in L, NEW x, i = Go(x, l)
      PROVE  \E S : \E n \in DOMAIN f \cup {"end"} :
               pc' = [h \in Goroutines |-> IF h = g THEN n ELSE IF h \in S THEN "start" ELSE pc[h]]
  BY <1>7, DoesGo
<1> QED BY <1>1, <1>2, <1>3, <1>4, <1>5, <1>6, <1>7

LEMMA CalmForms ==
  ASSUME NEW f, NEW L \in SUBSET (DOMAIN f \cup {"end"})
  PROVE  /\ Calm(f, Either(L)) /\ Calm(f, Comm({Timer(l) : l \in L}))
         /\ \A x, y : \A l, m \in L : Calm(f, If(x, y, l, m)) /\ Calm(f, Set(x, y, l)) /\ Calm(f, Read(x, l)) /\ Calm(f, Go(x, l))
<1>1. Calm(f, Either(L))
  BY DEF Calm
<1>2. Calm(f, Comm({Timer(l) : l \in L}))
  BY DEF Calm
<1>3. ASSUME NEW x, NEW y, NEW l \in L, NEW m \in L
      PROVE  Calm(f, If(x, y, l, m)) /\ Calm(f, Set(x, y, l)) /\ Calm(f, Read(x, l)) /\ Calm(f, Go(x, l))
  BY DEF Calm
<1> QED BY <1>1, <1>2, <1>3

LEMMA ChargeCalm == CalmCode(Charge)
<1>1. PICK f : f = Charge
  OBVIOUS
<1>2. /\ DOMAIN f = {"start", "roll", "capture"} /\ f["start"] = Read("captured", "roll")
      /\ f["roll"] = Either({"capture", "end"}) /\ f["capture"] = Set("captured", 1, "end")
  BY <1>1 DEF Charge
<1>3. PICK L, M : L = {"roll", "capture", "end"} /\ M = {"capture", "end"}
  OBVIOUS
<1>4. L \in SUBSET (DOMAIN f \cup {"end"}) /\ M \in SUBSET (DOMAIN f \cup {"end"}) /\ f["roll"] = Either(M)
  BY <1>2, <1>3
<1>5. Calm(f, Read("captured", "roll")) /\ Calm(f, Set("captured", 1, "end"))
  BY <1>3, <1>4, CalmForms
<1>6. Calm(f, f["roll"])
  BY <1>4, CalmForms
<1> QED BY <1>1, <1>2, <1>5, <1>6 DEF CalmCode

LEMMA BeginCalm == CalmCode([start |-> Begin])
<1>1. PICK f : f = [start |-> Begin]
  OBVIOUS
<1>2. DOMAIN f = {"start"} /\ f["start"] = Go(Pair, "end")
  BY <1>1 DEF Begin
<1>3. PICK L : L = {"end"}
  OBVIOUS
<1>4. L \in SUBSET (DOMAIN f \cup {"end"}) /\ "end" \in L
  BY <1>3
<1>5. Calm(f, Go(Pair, "end"))
  BY <1>4, CalmForms
<1>6. Calm(f, f["start"])
  BY <1>2, <1>5
<1> QED BY <1>1, <1>2, <1>6 DEF CalmCode

\* With what is put before SeatCount.
LEMMA AvailabilityCalm ==
  ASSUME NEW e \in {"scan", "end"}, NEW h, h \in {[start |-> Either({"count", "scan"}), scan |-> Comm({Timer("end")})],
                                                  [start |-> Either({"count", "end"})]},
         "scan" \in DOMAIN h \/ e = "end"
  PROVE  CalmCode(h ++ SeatCount(e))
<1>1. PICK s, f : s = SeatCount(e) /\ f = h ++ s
  OBVIOUS
<1>2. /\ DOMAIN s = {"count", "load", "store"} /\ s["count"] = If("ordinals", {1}, "end", "load")
      /\ s["load"] = Either({"store", e}) /\ s["store"] = Set("ordinals", 1, "end")
  BY <1>1 DEF SeatCount
<1>3. \/ DOMAIN h = {"start", "scan"} /\ h["start"] = Either({"count", "scan"}) /\ h["scan"] = Comm({Timer("end")})
      \/ DOMAIN h = {"start"} /\ h["start"] = Either({"count", "end"})
  OBVIOUS
<1>4. /\ DOMAIN f = DOMAIN h \cup DOMAIN s
      /\ \A x \in DOMAIN h : f[x] = h[x]
      /\ \A x \in DOMAIN s : f[x] = s[x]
  BY <1>1, <1>2, <1>3 DEF ++
<1>5. PICK L, M, N, O, E : /\ L = {"start", "count", "load", "store", "end"} /\ M = {"store", e}
                           /\ N = {"count", "scan"} /\ O = {"count", "end"} /\ E = {"end"}
  OBVIOUS
<1>6. L \in SUBSET (DOMAIN f \cup {"end"}) /\ M \in SUBSET (DOMAIN f \cup {"end"})
      /\ O \in SUBSET (DOMAIN f \cup {"end"}) /\ E \in SUBSET (DOMAIN f \cup {"end"})
  BY <1>2, <1>3, <1>4, <1>5
<1>7. Calm(f, f["count"])
  <2>1. Calm(f, If("ordinals", {1}, "end", "load"))
    BY <1>5, <1>6, CalmForms
  <2> QED BY <1>2, <1>4, <2>1
<1>8. Calm(f, f["load"])
  <2>1. Calm(f, Either(M)) /\ f["load"] = Either(M)
    BY <1>2, <1>4, <1>5, <1>6, CalmForms
  <2> QED BY <2>1
<1>9. Calm(f, f["store"])
  <2>1. Calm(f, Set("ordinals", 1, "end"))
    BY <1>5, <1>6, CalmForms
  <2> QED BY <1>2, <1>4, <2>1
<1>10. \A x \in DOMAIN h : Calm(f, f[x])
  <2>1. CASE DOMAIN h = {"start", "scan"} /\ h["start"] = Either({"count", "scan"}) /\ h["scan"] = Comm({Timer("end")})
    <3>1. N \in SUBSET (DOMAIN f \cup {"end"}) /\ f["start"] = Either(N)
      BY <2>1, <1>2, <1>4, <1>5
    <3>2. Calm(f, f["start"])
      BY <3>1, CalmForms
    <3>3. {Timer(l) : l \in E} = {Timer("end")}
      BY <1>5
    <3>4. Calm(f, Comm({Timer(l) : l \in E}))
      BY <1>6, CalmForms
    <3>5. Calm(f, f["scan"])
      BY <2>1, <1>4, <3>3, <3>4
    <3> QED BY <2>1, <3>2, <3>5
  <2>2. CASE DOMAIN h = {"start"} /\ h["start"] = Either({"count", "end"})
    <3>1. f["start"] = Either(O)
      BY <2>2, <1>4, <1>5
    <3>2. Calm(f, f["start"])
      BY <3>1, <1>6, CalmForms
    <3> QED BY <2>2, <3>2
  <2> QED BY <1>3, <2>1, <2>2
<1> QED BY <1>1, <1>2, <1>3, <1>4, <1>7, <1>8, <1>9, <1>10 DEF CalmCode

\* Everyone runs calm code.
CalmProgram == \A g \in Goroutines : CalmCode(Program.code[g])
CalmSafe ==
  DOMAIN pc = Goroutines /\ \A g \in Goroutines : pc[g] \in DOMAIN Program.code[g] \cup {"idle", "end"}

LEMMA RequestsCalm ==
  ASSUME prog \in {"availability", "charges"}
  PROVE  CalmProgram /\ Program.deadlines = {}
<1>1. CASE prog = "charges"
  BY <1>1, RequestsRun, TwoRun, ChargeCalm, BeginCalm DEF CalmProgram, Goroutines
<1>2. CASE prog = "availability"
  <2>1. CalmCode(getAvailability) /\ CalmCode(sendInitialFrames)
    BY AvailabilityCalm DEF getAvailability, sendInitialFrames
  <2> QED BY <1>2, <2>1, RequestsRun, TwoRun, BeginCalm DEF CalmProgram, Goroutines
<1> QED BY <1>1, <1>2

\* Calm code goes on within itself.
LEMMA CalmStep ==
  ASSUME CalmProgram, CalmSafe, NEW g \in Goroutines, Step(g), Program' = Program
  PROVE  CalmSafe'
<1>1. PICK f : f = Program.code[g]
  OBVIOUS
<1>2. Perform(g, f[pc[g]]) /\ pc[g] \in DOMAIN f
  BY <1>1, StepPerforms DEF Running, Instr, CalmSafe
<1>3. CalmCode(f) /\ Calm(f, f[pc[g]])
  BY <1>1, <1>2 DEF CalmProgram, CalmCode
<1>4. Goroutines' = Goroutines
  BY DEF Goroutines
<1>5. \A h \in Goroutines : "start" \in DOMAIN Program.code[h]
  BY DEF CalmProgram, CalmCode
<1>6. ASSUME NEW l \in DOMAIN f \cup {"end"}, Goto(g, l) PROVE CalmSafe'
  BY <1>1, <1>4, <1>6 DEF CalmSafe, Goto
<1>7. ASSUME NEW l \in DOMAIN f \cup {"end"}, NEW S,
             pc' = [h \in Goroutines |-> IF h = g THEN l ELSE IF h \in S THEN "start" ELSE pc[h]]
      PROVE  CalmSafe'
  BY <1>1, <1>4, <1>5, <1>7 DEF CalmSafe
<1> QED BY <1>2, <1>3, <1>6, <1>7, CalmGoes

LEMMA CalmStays ==
  ASSUME prog \in {"availability", "charges"}, CalmSafe, [Next]_vars
  PROVE  CalmSafe'
<1>1. CalmProgram /\ ~Expire
  BY RequestsCalm DEF Expire
<1>2. Program' = Program
  BY ProgStays DEF Program
<1>3. CASE UNCHANGED vars
  <2>1. pc' = pc
    BY <1>3 DEF vars
  <2> QED BY <1>2, <2>1 DEF CalmSafe, Goroutines
<1>4. ASSUME NEW g \in Goroutines, Step(g) PROVE CalmSafe'
  BY <1>1, <1>2, <1>4, CalmStep
<1> QED BY <1>1, <1>3, <1>4 DEF Next

LEMMA CalmBegins ==
  ASSUME Init, prog \in {"availability", "charges"}
  PROVE  CalmSafe
<1>1. \A g \in Goroutines : "start" \in DOMAIN Program.code[g]
  BY RequestsCalm DEF CalmProgram, CalmCode
<1>2. pc = [g \in Goroutines |-> IF g = "main" THEN "start" ELSE "idle"]
  BY DEF Init
<1> QED BY <1>1, <1>2 DEF CalmSafe

-----------------------------------------------------------------------------
(* The server's own programs: nobody panics and nobody races.              *)

ServersInv ==
  /\ prog = "hub" => HubParts /\ HubSafe
  /\ prog = "verifiers" => KeysSafe
  /\ prog \in {"availability", "charges"} => CalmSafe

LEMMA ServersInvHolds == Spec => []ServersInv
<1>1. Init => ServersInv
  BY HubBegins, HubSafeBegins, KeysSafeBegins, CalmBegins DEF ServersInv
<1>2. ASSUME ServersInv, [Next]_vars PROVE ServersInv'
  <2>1. prog' = prog
    BY <1>2, ProgStays
  <2>2. prog = "hub" => HubParts' /\ HubSafe'
    BY <1>2, HubStepKeeps, HubStepSafe DEF ServersInv
  <2>3. prog = "verifiers" => KeysSafe'
    BY <1>2, KeysStepSafe DEF ServersInv
  <2>4. prog \in {"availability", "charges"} => CalmSafe'
    BY <1>2, CalmStays DEF ServersInv
  <2> QED BY <2>1, <2>2, <2>3, <2>4 DEF ServersInv
<1>3. ServersInv /\ [Next]_vars => ServersInv'
  BY <1>2
<1> QED BY <1>1, <1>3, PTL DEF Spec

LEMMA LoaderAsks ==
  ASSUME LoaderInv, prog \in DOMAIN Loaders
  PROVE  \E keyOf \in {Distinct, Shared} : Asking(keyOf) /\ LoaderParts(keyOf)
BY DEF LoaderInv, Loaders, Asking

LEMMA LoaderPanicsNot ==
  ASSUME NEW keyOf, Asking(keyOf), LoaderParts(keyOf)
  PROVE  ~Panicked
<1>1. LoaderLabels
  BY DEF LoaderParts, Orderly
<1>2. "panic" \notin DOMAIN StageOf
  BY DEF StageOf
<1>3. Goroutines \subseteq {"main"} \cup Callers \cup {Of("flush", b) : b \in Keys} \cup {Of("run", b) : b \in Keys}
  BY LoaderRuns, CellNames, ThreeKeys
<1>4. \A b \in Keys : pc[Of("flush", b)] # "panic" /\ pc[Of("run", b)] # "panic"
  BY <1>1 DEF LoaderLabels, Flush, Runner, FlushMu, Fetching
<1>5. pc["main"] # "panic" /\ \A c \in Callers : pc[c] # "panic"
  BY <1>1, <1>2 DEF LoaderLabels
<1> QED BY <1>3, <1>4, <1>5 DEF Panicked

\* wshub.go, the verifier's key set, projector.go, the provider fake and dataloader.go:
\* whatever order their goroutines run in, none of them closes a channel that is
\* closed, sends on one, unlocks a mutex that is not locked, takes a wait group
\* below zero or otherwise panics.
THEOREM ServersDoNotPanic == Spec => [](prog \in DOMAIN Servers \cup DOMAIN Loaders => ~Panicked)
<1>1. ASSUME ServersInv, LoaderInv, prog \in DOMAIN Servers \cup DOMAIN Loaders PROVE ~Panicked
  <2>1. CASE prog = "hub"
    <3>1. Goroutines = DOMAIN HubSections
      BY <2>1, HubRuns, HubGoroutinesRun, HubSectionsAre DEF Goroutines
    <3> QED BY <1>1, <2>1, <3>1 DEF ServersInv, HubSafe, NobodyPanicked, Panicked
  <2>2. CASE prog = "verifiers"
    <3>1. Goroutines = {"main", "w1", "w2"} /\ KeysSafe
      BY <1>1, <2>2, VerifierRuns DEF ServersInv
    <3> QED BY <3>1 DEF KeysSafe, Pair, KeyLabels, FetchesKeys, Panicked
  <2>3. CASE prog \in {"availability", "charges"}
    BY <1>1, <2>3, RequestsCalm DEF ServersInv, CalmSafe, CalmProgram, CalmCode, Panicked
  <2>4. CASE prog \in DOMAIN Loaders
    BY <1>1, <2>4, LoaderAsks, LoaderPanicsNot
  <2>5. DOMAIN Servers = {"hub", "availability", "verifiers", "charges"}
    BY DEF Servers
  <2> QED BY <1>1, <2>1, <2>2, <2>3, <2>4, <2>5
<1>2. ServersInv /\ LoaderInv => (prog \in DOMAIN Servers \cup DOMAIN Loaders => ~Panicked)
  BY <1>1
<1> QED BY <1>2, ServersInvHolds, LoaderHolds, PTL

\* wshub.go, the verifier's key set and dataloader.go: nobody is about to use a
\* variable that another is about to write, nor to add to a group at zero beside its
\* Wait; and nobody is about to append to what another uses.  h.mu and each subscription's mutex guard the hub's maps, the key set's mutex
\* the keys; what l.mu does not guard, the keys that run reads and the results that
\* Load reads, is guarded by the batch having been sent and by its channel having
\* been closed.
THEOREM ServersDoNotRace ==
  Spec => [](prog \in {"hub", "verifiers"} \cup DOMAIN Loaders => RaceFree /\ NobodyInterferes)
<1>1. ASSUME ServersInv, LoaderInv, prog \in {"hub", "verifiers"} \cup DOMAIN Loaders PROVE RaceFree /\ NobodyInterferes
  <2>1. CASE prog = "hub"
    BY <1>1, <2>1, HubInterferesNot, HubHasNoGroup, NoConflict DEF ServersInv
  <2>2. CASE prog = "verifiers"
    BY <1>1, <2>2, KeysRaceNot DEF ServersInv
  <2>3. CASE prog \in DOMAIN Loaders
    <3>1. PICK keyOf \in {Distinct, Shared} : Asking(keyOf) /\ LoaderParts(keyOf)
      BY <1>1, <2>3, LoaderAsks
    <3>2. NobodyInterferes /\ \A g \in Goroutines \ {"main"} : \A i \in AtHand(g) : ~AtGroup(i)
      BY <3>1, LoaderInterferesNot, LoaderGroup
    <3> QED BY <3>2, NoConflict
  <2> QED BY <1>1, <2>1, <2>2, <2>3
<1>2. ServersInv /\ LoaderInv => (prog \in {"hub", "verifiers"} \cup DOMAIN Loaders => RaceFree /\ NobodyInterferes)
  BY <1>1
<1> QED BY <1>2, ServersInvHolds, LoaderHolds, PTL
=============================================================================
