----------------------------- MODULE GoRuntime ------------------------------
(***************************************************************************)
(* Goroutines and what they wait for: channels, select, mutexes, wait      *)
(* groups, condition variables, contexts and timers.                       *)
(*                                                                         *)
(* A program gives each goroutine its code, a graph of instructions: a     *)
(* record whose fields are labels, beginning at "start"; every instruction *)
(* names the label that comes next, and "end" returns.  A context is a     *)
(* channel that cancelling closes; a deadline is a context that time may   *)
(* cancel; a timer is a case that is always ready, because nothing is      *)
(* known of how long anything takes.                                       *)
(***************************************************************************)
EXTENDS Integers, Sequences, TLC

CONSTANT Programs   \* Programs[p]: code, caps, vars, deadlines

VARIABLES
  prog,     \* the program that runs
  pc,       \* pc[g]: label of goroutine g, "idle" before it is started
  val,      \* val[g]: the value g has in hand
  buf,      \* buf[c]: values in the channel's buffer
  closed,   \* closed channels and cancelled contexts
  lock,     \* lock[m]: writer and readers of a mutex
  wg,       \* wg[w]: the counter of a wait group
  asleep,   \* goroutines in Cond.Wait
  heap,     \* heap[x]: shared variables
  got       \* values a consumer kept, in order

chanVars == <<buf, closed>>
syncVars == <<lock, wg, asleep>>
dataVars == <<heap, got>>
vars == <<prog, pc, val, chanVars, syncVars, dataVars>>

Program    == Programs[prog]
Goroutines == DOMAIN Program.code
Mutexes    == {"mu", "a", "b"}
Groups     == {"wg", "inFlight", "traffic"}
None       == "none"
Held(g, n) == [writer |-> g, readers |-> n]   \* a mutex: its writer, its readers

Of(x, i) == x \o ToString(i)    \* a name with a number

\* Parts of a program put together, and a part of one label.
f ++ g   == [x \in DOMAIN f \cup DOMAIN g |-> IF x \in DOMAIN f THEN f[x] ELSE g[x]]
On(l, i) == [x \in {l} |-> i]

\* Instructions, and the cases of a select.
Comm(cases)            == [op |-> "comm", cases |-> cases, otherwise |-> None]
CommOr(cases, l)       == [op |-> "comm", cases |-> cases, otherwise |-> l]
Send(c, l)             == [dir |-> "send", ch |-> c, next |-> l, ended |-> None]
RangeOver(c, l, m)     == [dir |-> "recv", ch |-> c, next |-> l, ended |-> m]
Recv(c, l)             == RangeOver(c, l, l)
Timer(l)               == [dir |-> "timer", ch |-> None, next |-> l, ended |-> None]
Close(c, l)            == [op |-> "close", ch |-> c, next |-> l]
Cancel(cs, l)          == [op |-> "cancel", ctx |-> cs, next |-> l]
Lock(m, l)             == [op |-> "lock", on |-> m, next |-> l, busy |-> None]
TryLock(m, l, k)       == [op |-> "lock", on |-> m, next |-> l, busy |-> k]
RLock(m, l)            == [op |-> "rlock", on |-> m, next |-> l]
Unlock(m, l)           == [op |-> "unlock", on |-> m, next |-> l]
Add(w, n, l)           == [op |-> "wgadd", group |-> w, by |-> n, next |-> l]
Wait(w, l)             == [op |-> "wgwait", group |-> w, next |-> l]
CondWait(m, l)         == [op |-> "sleep", on |-> m, next |-> l]
Signal(l)              == [op |-> "signal", next |-> l]
Go(gs, l)              == [op |-> "go", start |-> gs, next |-> l]
Panic(l)               == [op |-> "panic", recovered |-> l]
Either(ls)             == [op |-> "either", among |-> ls]
For(x, n, l, m)        == [op |-> "for", var |-> x, upto |-> n, next |-> l, ended |-> m]
Set(x, v, l)           == [op |-> "set", var |-> x, to |-> v, next |-> l]
Plus(x, n, l)          == [op |-> "plus", var |-> x, by |-> n, next |-> l]
Read(x, l)             == [op |-> "read", var |-> x, next |-> l]
Write(x, n, l)         == [op |-> "write", var |-> x, by |-> n, next |-> l]
If(x, S, l, m)         == [op |-> "if", var |-> x, in |-> S, next |-> l, ended |-> m]
Hold(v, l)             == [op |-> "hold", value |-> v, next |-> l]
IfHeld(S, l, m)        == [op |-> "ifheld", in |-> S, next |-> l, ended |-> m]
Keep(l)                == [op |-> "keep", next |-> l]

Init ==
  /\ prog \in DOMAIN Programs
  /\ pc = [g \in Goroutines |-> IF g = "main" THEN "start" ELSE "idle"]
  /\ val = [g \in Goroutines |-> 0]
  /\ buf = [c \in DOMAIN Program.caps |-> <<>>] /\ closed = {}
  /\ lock = [m \in Mutexes |-> Held(None, 0)]
  /\ wg = [w \in Groups |-> 0] /\ asleep = {} /\ heap = Program.vars /\ got = <<>>

-----------------------------------------------------------------------------
Running(g)  == pc[g] \notin {"idle", "end", "panic"}
Instr(g)    == Program.code[g][pc[g]]
AtHand(g)   == IF Running(g) /\ g \notin asleep THEN {Instr(g)} ELSE {}
Goto(g, l)  == pc' = [pc EXCEPT ![g] = l]
Cap(c)      == Program.caps[c]

\* Cases of g's select, and those that can be taken at once.
Cases(g) == UNION {i.cases : i \in {j \in AtHand(g) : j.op = "comm"}}
Peer(g, c) ==
  \E h \in Goroutines \ {g} : \E d \in Cases(h) :
    d.ch = c.ch /\ {c.dir, d.dir} = {"send", "recv"}
Ready(g, c) ==
  CASE c.dir = "timer" -> TRUE
    [] c.dir = "recv"  -> c.ch \in closed \/ buf[c.ch] # <<>> \/ (Cap(c.ch) = 0 /\ Peer(g, c))
    [] OTHER           -> c.ch \in closed \/ Len(buf[c.ch]) < Cap(c.ch) \/ (Cap(c.ch) = 0 /\ Peer(g, c))

\* A case whose channel is a buffer, is closed, or is a timer.
Take(g, c) ==
  /\ \/ c.dir = "timer" /\ Goto(g, c.next) /\ UNCHANGED <<val, buf>>
     \/ /\ c.dir = "recv" /\ buf[c.ch] # <<>>
        /\ val' = [val EXCEPT ![g] = Head(buf[c.ch])]
        /\ buf' = [buf EXCEPT ![c.ch] = Tail(@)] /\ Goto(g, c.next)
     \/ /\ c.dir = "recv" /\ buf[c.ch] = <<>> /\ c.ch \in closed
        /\ val' = [val EXCEPT ![g] = 0] /\ Goto(g, c.ended) /\ UNCHANGED buf
     \/ /\ c.dir = "send" /\ c.ch \notin closed /\ Len(buf[c.ch]) < Cap(c.ch)
        /\ buf' = [buf EXCEPT ![c.ch] = Append(@, val[g])] /\ Goto(g, c.next) /\ UNCHANGED val
     \/ c.dir = "send" /\ c.ch \in closed /\ Goto(g, "panic") /\ UNCHANGED <<val, buf>>
  /\ UNCHANGED <<prog, closed, syncVars, dataVars>>

\* An unbuffered channel: sender and receiver meet.
Meet(g, h, c, d) ==
  /\ c.dir = "send" /\ d.dir = "recv" /\ c.ch = d.ch /\ Cap(c.ch) = 0 /\ c.ch \notin closed
  /\ pc' = [pc EXCEPT ![g] = c.next, ![h] = d.next]
  /\ val' = [val EXCEPT ![h] = val[g]]
  /\ UNCHANGED <<prog, chanVars, syncVars, dataVars>>

Communicate(g, i) ==
  /\ i.op = "comm"
  /\ \E c \in i.cases :
       \/ Take(g, c)
       \/ \E h \in Goroutines \ {g} : \E d \in Cases(h) : Meet(g, h, c, d)

\* The default case.
Otherwise(g, i) ==
  /\ i.op = "comm" /\ i.otherwise # None /\ \A c \in i.cases : ~Ready(g, c)
  /\ Goto(g, i.otherwise)
  /\ UNCHANGED <<prog, val, chanVars, syncVars, dataVars>>

CloseChannel(g, i) ==
  /\ i.op = "close"
  /\ closed' = closed \cup {i.ch}
  /\ Goto(g, IF i.ch \in closed THEN "panic" ELSE i.next)
  /\ UNCHANGED <<prog, val, buf, syncVars, dataVars>>

\* Cancelling a context cancels those derived from it; again, it does nothing.
CancelContext(g, i) ==
  /\ i.op = "cancel"
  /\ closed' = closed \cup i.ctx /\ Goto(g, i.next)
  /\ UNCHANGED <<prog, val, buf, syncVars, dataVars>>

Expire ==
  /\ Program.deadlines # {} /\ ~(Program.deadlines \subseteq closed)
  /\ closed' = closed \cup Program.deadlines
  /\ UNCHANGED <<prog, pc, val, buf, syncVars, dataVars>>

-----------------------------------------------------------------------------
Unlocked(m) == lock[m].writer = None /\ lock[m].readers = 0

TakeLock(g, i) ==
  /\ i.op = "lock"
  /\ \/ Unlocked(i.on) /\ Goto(g, i.next) /\ lock' = [lock EXCEPT ![i.on] = Held(g, 0)]
     \/ ~Unlocked(i.on) /\ i.busy # None /\ Goto(g, i.busy) /\ UNCHANGED lock
  /\ UNCHANGED <<prog, val, chanVars, wg, asleep, dataVars>>

TakeReadLock(g, i) ==
  /\ i.op = "rlock" /\ lock[i.on].writer = None
  /\ lock' = [lock EXCEPT ![i.on] = Held(None, @.readers + 1)] /\ Goto(g, i.next)
  /\ UNCHANGED <<prog, val, chanVars, wg, asleep, dataVars>>

Released(m) == Held(None, IF lock[m].readers > 0 THEN lock[m].readers - 1 ELSE 0)

ReleaseLock(g, i) ==
  /\ i.op = "unlock"
  /\ lock' = [lock EXCEPT ![i.on] = Released(i.on)]
  /\ Goto(g, IF Unlocked(i.on) THEN "panic" ELSE i.next)
  /\ UNCHANGED <<prog, val, chanVars, wg, asleep, dataVars>>

\* Cond.Wait gives the mutex back; what follows takes it again.
Sleep(g, i) ==
  /\ i.op = "sleep"
  /\ lock' = [lock EXCEPT ![i.on] = Released(i.on)]
  /\ asleep' = asleep \cup {g} /\ Goto(g, i.next)
  /\ UNCHANGED <<prog, val, chanVars, wg, dataVars>>

Wake(g, i) ==
  /\ i.op = "signal"
  /\ \/ asleep = {} /\ UNCHANGED asleep
     \/ \E h \in asleep : asleep' = asleep \ {h}
  /\ Goto(g, i.next)
  /\ UNCHANGED <<prog, val, chanVars, lock, wg, dataVars>>

\* A negative counter panics.
AddToGroup(g, i) ==
  /\ i.op = "wgadd"
  /\ wg' = [wg EXCEPT ![i.group] = @ + i.by]
  /\ Goto(g, IF wg'[i.group] < 0 THEN "panic" ELSE i.next)
  /\ UNCHANGED <<prog, val, chanVars, lock, asleep, dataVars>>

WaitForGroup(g, i) ==
  /\ i.op = "wgwait" /\ wg[i.group] = 0 /\ Goto(g, i.next)
  /\ UNCHANGED <<prog, val, chanVars, syncVars, dataVars>>

-----------------------------------------------------------------------------
StartGoroutines(g, i) ==
  /\ i.op = "go"
  /\ pc' = [h \in Goroutines |-> IF h = g THEN i.next ELSE IF h \in i.start THEN "start" ELSE pc[h]]
  /\ UNCHANGED <<prog, val, chanVars, syncVars, dataVars>>

\* Deferred calls run; without a recover among them the process dies.
PanicHere(g, i) ==
  /\ i.op = "panic"
  /\ Goto(g, IF i.recovered = None THEN "panic" ELSE i.recovered)
  /\ UNCHANGED <<prog, val, chanVars, syncVars, dataVars>>

\* What the model does not decide: how a call ends, or how much time has passed.
Branch(g, i) ==
  /\ i.op = "either" /\ \E l \in i.among : Goto(g, l)
  /\ UNCHANGED <<prog, val, chanVars, syncVars, dataVars>>

\* A loop that counts a shared or a loop variable up to its bound.
Count(g, i) ==
  /\ i.op = "for"
  /\ IF heap[i.var] < i.upto
     THEN /\ heap' = [heap EXCEPT ![i.var] = @ + 1]
          /\ val' = [val EXCEPT ![g] = heap'[i.var]] /\ Goto(g, i.next)
     ELSE Goto(g, i.ended) /\ UNCHANGED <<heap, val>>
  /\ UNCHANGED <<prog, chanVars, syncVars, got>>

\* One access to a shared variable; Plus is atomic, Read and Write are not.
Access(g, i) ==
  /\ \/ i.op = "set"   /\ heap' = [heap EXCEPT ![i.var] = i.to] /\ UNCHANGED val
     \/ i.op = "plus"  /\ heap' = [heap EXCEPT ![i.var] = @ + i.by] /\ UNCHANGED val
     \/ i.op = "write" /\ heap' = [heap EXCEPT ![i.var] = val[g] + i.by] /\ UNCHANGED val
     \/ i.op = "read"  /\ val' = [val EXCEPT ![g] = heap[i.var]] /\ UNCHANGED heap
     \/ i.op = "hold"  /\ val' = [val EXCEPT ![g] = i.value] /\ UNCHANGED heap
  /\ Goto(g, i.next)
  /\ UNCHANGED <<prog, chanVars, syncVars, got>>

Test(g, i) ==
  /\ \/ i.op = "if"     /\ Goto(g, IF heap[i.var] \in i.in THEN i.next ELSE i.ended)
     \/ i.op = "ifheld" /\ Goto(g, IF val[g] \in i.in THEN i.next ELSE i.ended)
  /\ UNCHANGED <<prog, val, chanVars, syncVars, dataVars>>

KeepValue(g, i) ==
  /\ i.op = "keep" /\ got' = Append(got, val[g]) /\ Goto(g, i.next)
  /\ UNCHANGED <<prog, val, chanVars, syncVars, heap>>

-----------------------------------------------------------------------------
Step(g) ==
  \E i \in AtHand(g) :
    \/ Communicate(g, i) \/ Otherwise(g, i)
    \/ CloseChannel(g, i) \/ CancelContext(g, i)
    \/ TakeLock(g, i) \/ TakeReadLock(g, i) \/ ReleaseLock(g, i) \/ Sleep(g, i) \/ Wake(g, i)
    \/ AddToGroup(g, i) \/ WaitForGroup(g, i)
    \/ StartGoroutines(g, i) \/ PanicHere(g, i) \/ Branch(g, i)
    \/ Count(g, i) \/ Access(g, i) \/ Test(g, i) \/ KeepValue(g, i)

Panicked == \E g \in Goroutines : pc[g] = "panic"

Next == ~Panicked /\ (Expire \/ \E g \in Goroutines : Step(g))

Spec == Init /\ [][Next]_vars

\* What the race detector reports: two goroutines about to use one variable, one
\* of them to write it, or Add from zero beside Wait.
Writing  == {"set", "write"}
Touching == Writing \cup {"plus", "read", "if"}
Conflict(i, j) ==
  \/ i.op \in Writing /\ j.op \in Touching /\ i.var = j.var
  \/ i.op = "wgadd" /\ j.op = "wgwait" /\ i.group = j.group /\ i.by > 0 /\ wg[i.group] = 0
RaceFree ==
  \A g \in Goroutines : \A h \in Goroutines \ {g} :
    \A i \in AtHand(g), j \in AtHand(h) : ~Conflict(i, j)
=============================================================================
