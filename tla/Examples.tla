----------------------------- MODULE Examples -------------------------------
(***************************************************************************)
(* The goroutines of the example programs 11 to 21, one program for each   *)
(* function that starts some.  What they compute is left out where nothing *)
(* depends on it; loops of the sources run over two goroutines and N       *)
(* items, and how long a call or a sleep takes is not known.               *)
(***************************************************************************)
EXTENDS GoRuntime, FiniteSets

CONSTANT N           \* bound: items, jobs, attempts or calls of a program

Main(code) == [main |-> code]
Prog(code, caps, init, deadlines) == [code |-> code, caps |-> caps, vars |-> init, deadlines |-> deadlines]
NoChan == [unused |-> 0]
NoVar  == [unused |-> 0]

\* Add before go, then Wait: main of most examples.
Await(gs, l) ==
  [start |-> Add("wg", Cardinality(gs), "go"), go |-> Go(gs, "wait"), wait |-> Wait("wg", l)]
Group(workers) == workers @@ Main(Await(DOMAIN workers, "end"))
Both(code) == [w1 |-> code, w2 |-> code]

\* watchdog: f runs in a goroutine, main waits for it or for the timer.
watchdog(f) ==
  [main |-> [start |-> Go({"f"}, "wait"), wait |-> Comm({Recv("done", "end"), Timer("end")})],
   f    |-> f @@ [closedone |-> Close("done", "end")]]

-----------------------------------------------------------------------------
(* 11: goroutines.                                                         *)

\* Nobody waits for the goroutine; the sleep is only a hope.
demoStart == [w1 |-> [start |-> Plus("printed", 1, "end")], main |-> [start |-> Go({"w1"}, "sleep"), sleep |-> Comm({Timer("end")})]]

\* The argument is evaluated by the go statement: x has another value soon.
demoArgumentEvaluation ==
  [w1   |-> [start |-> Hold(1, "keep"), keep |-> Keep("end")],
   main |-> [start |-> Set("x", 1, "go"), go |-> Go({"w1"}, "change"), change |-> Set("x", 99, "sleep"),
             sleep |-> Comm({Timer("print")}), print |-> Read("x", "end")]]

demoWaitGroup ==
  Group(Both([start |-> Comm({Timer("finish")}), finish |-> Plus("finished", 1, "done"),
              done |-> Add("wg", -1, "end")]))

demoLoopVariable ==
  Group([w1 |-> [start |-> Set("r1", 1, "done"), done |-> Add("wg", -1, "end")],
         w2 |-> [start |-> Set("r2", 2, "done"), done |-> Add("wg", -1, "end")]])

demoRuntime ==
  Both([start |-> Comm({Recv("done", "done")}), done |-> Add("wg", -1, "end")])
  @@ Main([start |-> Add("wg", 2, "go"), go |-> Go({"w1", "w2"}, "sleep"), sleep |-> Comm({Timer("close")}),
           close |-> Close("done", "wait"), wait |-> Wait("wg", "end")])

demoPanicIsolation == Group([w1 |-> [start |-> Panic("done"), done |-> Add("wg", -1, "end")]])

-----------------------------------------------------------------------------
(* 12: channels and select.                                                *)

demoUnbufferedVsBuffered ==
  [w1   |-> [start |-> Hold(3, "send"), send |-> Comm({Send("unbuffered", "end")})],
   main |-> [start |-> Go({"w1"}, "take"), take |-> Comm({Recv("unbuffered", "keep")}),
             keep |-> Keep("fill"), fill |-> For("sent", 2, "put", "drain"),
             put |-> Comm({Send("buffered", "fill")}),
             drain |-> For("taken", 2, "get", "end"), get |-> Comm({Recv("buffered", "got")}),
             got |-> Keep("drain")]]

\* for i := 1; i <= n: send, then the deferred close.
produce(ch) ==
  [start |-> For("sent", N, "send", "close"), send |-> Comm({Send(ch, "start")}), close |-> Close(ch, "end")]
\* for v := range ch
Collect(ch, l) == [range |-> Comm({RangeOver(ch, "keep", l)}), keep |-> Keep("range")]

demoDirections ==
  [w1 |-> produce("ch"), main |-> [start |-> Go({"w1"}, "range")] @@ Collect("ch", "end")]

Replica(ch, v) == [start |-> Comm({Timer("answer")}), answer |-> Hold(v, "send"), send |-> Comm({Send(ch, "end")})]

demoSelect ==
  [fast |-> Replica("fast", 1), slow |-> Replica("slow", 2),
   main |-> [start |-> Go({"fast", "slow"}, "first"),
             first |-> Comm({Recv("fast", "keep"), Recv("slow", "keep")}),
             keep |-> Keep("drain"), drain |-> Comm({Recv("slow", "end")})]]

demoNonBlocking ==
  Main([start |-> For("sent", 2, "put", "poll"),
        put |-> CommOr({Send("queue", "start")}, "drop"), drop |-> Plus("dropped", 1, "start"),
        poll |-> CommOr({Recv("queue", "keep")}, "end"), keep |-> Keep("end")])

demoTimeout ==
  [w1   |-> Replica("result", 1),
   main |-> [start |-> Go({"w1"}, "wait"), wait |-> Comm({Recv("result", "end"), Timer("end")})]]

\* A stream that has ended is set to nil: its case is never taken again.
demoNilChannel ==
  [w1   |-> [start |-> Hold(1, "one"), one |-> Comm({Send("a", "hold")}), hold |-> Hold(2, "two"),
             two |-> Comm({Send("a", "close")}), close |-> Close("a", "end")],
   w2   |-> [start |-> Hold(3, "send"), send |-> Comm({Send("b", "close")}), close |-> Close("b", "end")],
   main |-> [start |-> Go({"w1", "w2"}, "both"),
             both  |-> Comm({RangeOver("a", "keep", "onlyb"), RangeOver("b", "keep", "onlya")}), keep |-> Keep("both"),
             onlya |-> Comm({RangeOver("a", "keepa", "end")}), keepa |-> Keep("onlya"),
             onlyb |-> Comm({RangeOver("b", "keepb", "end")}), keepb |-> Keep("onlyb")]]

demoCloseBroadcast ==
  Both([start |-> Comm({Recv("start", "send")}), send |-> Comm({Send("done", "end")})])
  @@ Main([start |-> Go({"w1", "w2"}, "close"), close |-> Close("start", "each"),
           each |-> For("taken", 2, "take", "end"), take |-> Comm({Recv("done", "each")})])

-----------------------------------------------------------------------------
(* 13: locks, Once, Cond.                                                  *)

\* counter++ without protection: a load and a store.
brokenCounter == Group(Both([start |-> Read("counter", "store"), store |-> Write("counter", 1, "done"), done |-> Add("wg", -1, "end")]))

mutexCounter ==
  Group(Both([start |-> Lock("mu", "load"), load |-> Read("counter", "store"), store |-> Write("counter", 1, "unlock"),
              unlock |-> Unlock("mu", "done"), done |-> Add("wg", -1, "end")]))

\* SafeCounter.Inc from two goroutines, then Get.
demoMutex ==
  Both([start |-> Lock("mu", "load"), load |-> Read("hits", "store"), store |-> Write("hits", 1, "unlock"),
        unlock |-> Unlock("mu", "done"), done |-> Add("wg", -1, "end")])
  @@ Main(Await({"w1", "w2"}, "lock")
          @@ [lock |-> Lock("mu", "get"), get |-> Read("hits", "unlock"), unlock |-> Unlock("mu", "keep"), keep |-> Keep("end")])

Reader == [start |-> RLock("mu", "get"), get |-> Read("region", "unlock"), unlock |-> Unlock("mu", "count"),
           count |-> Plus("reads", 1, "done"), done |-> Add("wg", -1, "end")]
Writer == [start |-> Lock("mu", "set"), set |-> Set("region", 2, "unlock"), unlock |-> Unlock("mu", "done"),
           done |-> Add("wg", -1, "end")]
demoRWMutex == Group(Both(Reader) @@ [w3 |-> Writer])

\* initOnce.Do: callers wait until the first call has returned.
getConnection ==
  [start |-> Lock("mu", "check"), check |-> If("done", {1}, "unlock", "run"),
   run |-> Plus("runs", 1, "dial"), dial |-> Comm({Timer("set")}), set |-> Set("conn", 1, "mark"),
   mark |-> Set("done", 1, "unlock"), unlock |-> Unlock("mu", "use"),
   use |-> Read("conn", "keep"), keep |-> Keep("finish"), finish |-> Add("wg", -1, "end")]
demoOnce == Group(Both(getConnection))

demoAtomic ==
  Group([w1 |-> [start |-> Plus("counter", 1, "done"), done |-> Add("wg", -1, "end")],
         w2 |-> [start |-> Plus("counter", 1, "store"), store |-> Plus("degraded", 1, "done"),
                 done |-> Add("wg", -1, "end")]])

\* Stores of one key and LoadOrStore of it, each of them atomic.
StoreKey(n) == [start |-> Lock("mu", "put"), put |-> Set("key", n, "unlock"), unlock |-> Unlock("mu", "done"), done |-> Add("wg", -1, "end")]
demoSyncMap ==
  [w1 |-> StoreKey(1), w2 |-> StoreKey(2)]
  @@ Main(Await({"w1", "w2"}, "lock")
          @@ [lock |-> Lock("mu", "loaded"), loaded |-> If("key", {0}, "put", "load"), put |-> Set("key", 3, "load"),
              load |-> Read("key", "unlock"), unlock |-> Unlock("mu", "keep"), keep |-> Keep("end")])

\* A recycled builder, or a new one; the pool may drop any it is given.
PoolUser ==
  [start |-> Either({"get", "new"}), get |-> CommOr({Recv("pool", "write")}, "new"), new |-> For("made", 2, "write", "done"),
   write |-> Comm({Timer("put")}), put |-> Either({"give", "done"}), give |-> Comm({Send("pool", "done")}),
   done |-> Add("wg", -1, "end")]
demoBuilders == Group(Both(PoolUser))

\* A queue under a lock; the condition is tested again after every Wait.
demoCond ==
  [w1   |-> [start |-> For("taken", N, "lock", "end"), lock |-> Lock("mu", "check"),
             check |-> If("queued", {0}, "sleep", "take"), sleep |-> CondWait("mu", "lock"),
             take |-> Plus("queued", -1, "unlock"), unlock |-> Unlock("mu", "send"),
             send |-> Comm({Send("consumed", "start")})],
   main |-> [start |-> Go({"w1"}, "add"), add |-> For("added", N, "lock", "receive"),
             lock |-> Lock("mu", "push"), push |-> Plus("queued", 1, "unlock"), unlock |-> Unlock("mu", "signal"),
             signal |-> Signal("add"), receive |-> For("received", N, "take", "end"),
             take |-> Comm({Recv("consumed", "keep")}), keep |-> Keep("receive")]]

-----------------------------------------------------------------------------
(* 14: race conditions.                                                    *)

atomicCounter == Group(Both([start |-> Plus("counter", 1, "done"), done |-> Add("wg", -1, "end")]))

shardedCounter ==
  Group([w1 |-> [start |-> Read("r1", "store"), store |-> Write("r1", 1, "done"), done |-> Add("wg", -1, "end")],
         w2 |-> [start |-> Read("r2", "store"), store |-> Write("r2", 1, "done"), done |-> Add("wg", -1, "end")]])

\* Balance, then Withdraw: two critical sections.
checkThenActBroken ==
  Group(Both([start |-> Lock("mu", "balance"), balance |-> Read("balance", "unlock"), unlock |-> Unlock("mu", "check"),
              check |-> IfHeld({1}, "lock", "done"), lock |-> Lock("mu", "withdraw"),
              withdraw |-> Plus("balance", -1, "grant"), grant |-> Plus("granted", 1, "unlocked"),
              unlocked |-> Unlock("mu", "done"), done |-> Add("wg", -1, "end")]))

WithdrawIfAvailable ==
  Group(Both([start |-> Lock("mu", "check"), check |-> If("balance", {1}, "withdraw", "unlock"),
              withdraw |-> Plus("balance", -1, "grant"), grant |-> Plus("granted", 1, "unlock"),
              unlock |-> Unlock("mu", "done"), done |-> Add("wg", -1, "end")]))

-----------------------------------------------------------------------------
(* 15: goroutine leaks.                                                    *)

\* Three senders, one receive.
FirstResponse ==
  [r \in {"w1", "w2", "w3"} |-> Replica("ch", 1)]
  @@ Main([start |-> Go({"w1", "w2", "w3"}, "first"), first |-> Comm({Recv("ch", "end")})])

Poller == [start |-> Comm({Recv("ctx", "end"), Timer("start")})]
fixedPoller ==
  [w1 |-> Poller,
   main |-> [start |-> Go({"w1"}, "sleep"), sleep |-> Comm({Timer("cancel")}), cancel |-> Cancel({"ctx"}, "end")]]

\* Parked until the deadline, an hour later.
leakyContext == [w1 |-> [start |-> Comm({Recv("ctx", "end")})], main |-> [start |-> Go({"w1"}, "end")]]

fixedContext ==
  [w1   |-> [start |-> Comm({Recv("ctx", "close"), Timer("close")}), close |-> Close("done", "end")],
   main |-> [start |-> Go({"w1"}, "wait"), wait |-> Comm({Recv("done", "cancel")}), cancel |-> Cancel({"ctx"}, "end")]]

leakyRange ==
  [w1   |-> Collect("ch", "end") @@ [start |-> Comm({RangeOver("ch", "keep", "end")})],
   w2   |-> [start |-> For("sent", N, "send", "end"), send |-> Comm({Send("ch", "start")})],
   main |-> [start |-> Go({"w1", "w2"}, "sleep"), sleep |-> Comm({Timer("end")})]]

fixedRange ==
  [w1   |-> Collect("ch", "close") @@ [start |-> Comm({RangeOver("ch", "keep", "close")}), close |-> Close("done", "end")],
   w2   |-> produce("ch"),
   main |-> [start |-> Go({"w1", "w2"}, "wait"), wait |-> Comm({Recv("done", "end")})]]

-----------------------------------------------------------------------------
(* 16: deadlocks, each under its watchdog.                                 *)

\* main of the watched function: two goroutines and a Wait.
Watched(t1, t2) == watchdog(Await({"t1", "t2"}, "closedone")) @@ [t1 |-> t1, t2 |-> t2]

\* Lock the first account, then the second, move the money, deferred unlocks.
Transfer(first, second, from, to) ==
  [start |-> Lock(first, "second"), second |-> Lock(second, "debit"),
   debit |-> Plus(from, -1, "credit"), credit |-> Plus(to, 1, "unlock"),
   unlock |-> Unlock(second, "release"), release |-> Unlock(first, "done"), done |-> Add("wg", -1, "end")]

brokenTransfer == Watched(Transfer("a", "b", "A", "B"), Transfer("b", "a", "B", "A"))

\* The lower id first, whatever the direction.
orderedTransfer == Watched(Transfer("a", "b", "A", "B"), Transfer("a", "b", "B", "A"))

TryTransfer(first, second, from, to, attempt) ==
  [start |-> For(attempt, N, "first", "done"), first |-> Lock(first, "try"), try |-> TryLock(second, "debit", "release"),
   release |-> Unlock(first, "sleep"), sleep |-> Comm({Timer("start")}),
   debit |-> Plus(from, -1, "credit"), credit |-> Plus(to, 1, "unlock"),
   unlock |-> Unlock(second, "unlock1"), unlock1 |-> Unlock(first, "done"), done |-> Add("wg", -1, "end")]
tryLockTransfer == Watched(TryTransfer("a", "b", "A", "B", "attempt1"), TryTransfer("b", "a", "B", "A", "attempt2"))

AddBroken == watchdog([start |-> Lock("mu", "items"), items |-> Plus("items", 1, "count"), count |-> Lock("mu", "len"),
                       len |-> Unlock("mu", "unlock"), unlock |-> Unlock("mu", "closedone")])
Add_ == watchdog([start |-> Lock("mu", "items"), items |-> Plus("items", 1, "unlock"), unlock |-> Unlock("mu", "closedone")])

missingDone == Watched([start |-> Add("wg", -1, "end")], [start |-> Hold(0, "end")])
deferredDone == Watched([start |-> Add("wg", -1, "end")], [start |-> Add("wg", -1, "end")])

sendAlone   == watchdog([start |-> Hold(1, "send"), send |-> Comm({Send("ch", "closedone")})])
sendWithRoom == watchdog([start |-> Hold(1, "send"), send |-> Comm({Send("ch", "take")}), take |-> Comm({Recv("ch", "closedone")})])
neverClosed == watchdog([start |-> Go({"w1"}, "take"), take |-> Comm({Recv("ch", "closedone")})]) @@ [w1 |-> [start |-> Hold(0, "end")]]

-----------------------------------------------------------------------------
(* 17: worker pool.  Job N is the poisoned one; 0 is a cancelled result.   *)

Poison == {N}

\* Every send has a case for the context; the producer closes its channel.
generate(out, ctx) ==
  [start |-> For("sent", N, "send", "close"), send |-> Comm({Send(out, "start"), Recv(ctx, "close")}),
   close |-> Close(out, "end")]

\* range jobs, process, report.
PoolWorker ==
  [start |-> Comm({RangeOver("jobs", "process", "done")}), process |-> Comm({Timer("report"), Recv("ctx", "cancelled")}),
   cancelled |-> Hold(0, "report"), report |-> Comm({Send("results", "start"), Recv("ctx", "done")}),
   done |-> Add("wg", -1, "end")]

Closer(out) == [start |-> Wait("wg", "close"), close |-> Close(out, "end")]

workerPool(consumer) ==
  Both(PoolWorker) @@ [producer |-> generate("jobs", "ctx"), closer |-> Closer("results"),
  main |-> [start |-> Go({"producer"}, "add"), add |-> Add("wg", 2, "go"), go |-> Go({"w1", "w2", "closer"}, "range")] @@ consumer]

\* Also demoCancellation, when the deadline is near.
demoPool == workerPool(Collect("results", "cancel") @@ [cancel |-> Cancel({"ctx"}, "end")])

demoOrdered == workerPool(Collect("results", "end"))

demoFailFast ==
  workerPool([range |-> Comm({RangeOver("results", "result", "cancel")}), result |-> IfHeld(Poison, "abort", "keep"),
              abort |-> Cancel({"ctx"}, "range"), keep |-> Keep("range"), cancel |-> Cancel({"ctx"}, "end")])

-----------------------------------------------------------------------------
(* 18: pipelines.                                                          *)

square(in, out) ==
  [start |-> Comm({RangeOver(in, "compute", "close")}), compute |-> Comm({Timer("send")}),
   send |-> Comm({Send(out, "start"), Recv("ctx", "close")}), close |-> Close(out, "end")]

filterEven(in, out) ==
  [start |-> Comm({RangeOver(in, "test", "close")}), test |-> IfHeld({1, 3}, "start", "send"),
   send |-> Comm({Send(out, "start"), Recv("ctx", "close")}), close |-> Close(out, "end")]

\* merge: one goroutine for each input, and a closer.
forward(in, out) ==
  [start |-> Comm({RangeOver(in, "send", "done")}), send |-> Comm({Send(out, "start"), Recv("ctx", "done")}),
   done |-> Add("wg", -1, "end")]

demoSequential ==
  [gen |-> generate("nums", "ctx"), square |-> square("nums", "squares"), filter |-> filterEven("squares", "out"),
   main |-> [start |-> Go({"gen", "square", "filter"}, "range"), cancel |-> Cancel({"ctx"}, "end")] @@ Collect("out", "cancel")]

demoFanOutFanIn ==
  [gen |-> generate("nums", "ctx"), w1 |-> square("nums", "s1"), w2 |-> square("nums", "s2"),
   f1 |-> forward("s1", "merged"), f2 |-> forward("s2", "merged"), closer |-> Closer("merged"),
   main |-> [start |-> Add("wg", 2, "go"), go |-> Go({"gen", "w1", "w2", "f1", "f2", "closer"}, "range"),
             cancel |-> Cancel({"ctx"}, "end")] @@ Collect("merged", "cancel")]

\* The consumer leaves after one item and cancels.
demoEarlyExit ==
  [gen |-> generate("nums", "ctx"), square |-> square("nums", "out"),
   main |-> [start |-> Go({"gen", "square"}, "take"), take |-> Comm({RangeOver("out", "keep", "cancel")}),
             keep |-> Keep("cancel"), cancel |-> Cancel({"ctx"}, "end")]]

demoBackpressure ==
  [gen  |-> [start |-> For("i", N, "send", "close"), send |-> Comm({Send("produced", "count"), Recv("ctx", "close")}),
             count |-> Plus("sent", 1, "start"), close |-> Close("produced", "end")],
   main |-> [start |-> Go({"gen"}, "range"), range |-> Comm({RangeOver("produced", "slow", "cancel")}),
             slow |-> Comm({Timer("keep")}), keep |-> Keep("range"), cancel |-> Cancel({"ctx"}, "end")]]

-----------------------------------------------------------------------------
(* 19: contexts.                                                           *)

Task(ctx) == [start |-> Comm({Recv(ctx, "tell")}), tell |-> Comm({Send("stopped", "done")}), done |-> Add("wg", -1, "end")]
demoPropagation ==
  [w1 |-> Task("svc1"), w2 |-> Task("svc2"),
   main |-> [start |-> Add("wg", 2, "go"), go |-> Go({"w1", "w2"}, "sleep"), sleep |-> Comm({Timer("cancel")}),
             cancel |-> Cancel({"root", "svc1", "svc2"}, "wait"), wait |-> Wait("wg", "close"),
             close |-> Close("stopped", "range")] @@ Collect("stopped", "end")]

\* slowCall twice, against one deadline.
slowCall(wait, l, m) == (wait :> Comm({Timer(l), Recv("ctx", m)}))
demoDeadline ==
  Main(slowCall("start", "slow", "slow") @@ slowCall("slow", "print", "late")
       @@ [late |-> Set("expired", 1, "print"), print |-> Read("expired", "cancel"), cancel |-> Cancel({"ctx"}, "end")])

\* The audit context has a deadline of its own and survives the request's end.
demoWithoutCancel ==
  Main([start |-> Cancel({"request"}, "audit"), audit |-> CommOr({Recv("audit", "cancel")}, "live"),
        live |-> Plus("live", 1, "cancel"), cancel |-> Cancel({"audit"}, "end")])

\* A child context expires with its parent.
demoDeadlineInheritance ==
  Main([start |-> Comm({Recv("child", "cancel")}), cancel |-> Cancel({"child"}, "parent"), parent |-> Cancel({"parent", "child"}, "end")])

\* The runtime runs the function registered with AfterFunc on cancellation.
demoAfterFunc ==
  [w1   |-> [start |-> Comm({Recv("ctx", "clean")}), clean |-> Hold(1, "send"), send |-> Comm({Send("cleaned", "end")})],
   main |-> [start |-> Go({"w1"}, "cancel"), cancel |-> Cancel({"ctx"}, "take"),
             take |-> Comm({Recv("cleaned", "keep")}), keep |-> Keep("end")]]

-----------------------------------------------------------------------------
(* 20: resilience.                                                         *)

\* Mutation: the permit is given back before the work is done.
SemaphoreTaskEarly ==
  [start |-> Comm({Send("sem", "enter"), Recv("ctx", "done")}), enter |-> Plus("inFlight", 1, "release"),
   release |-> Comm({Recv("sem", "work")}), work |-> Comm({Timer("leave")}),
   leave |-> Plus("inFlight", -1, "done"), done |-> Add("wg", -1, "end")]

\* Acquire, work, Release: a permit is a place in the buffer.
SemaphoreTask ==
  [start |-> Comm({Send("sem", "enter"), Recv("ctx", "done")}), enter |-> Plus("inFlight", 1, "work"),
   work |-> Comm({Timer("leave")}), leave |-> Plus("inFlight", -1, "release"),
   release |-> Comm({Recv("sem", "done")}), done |-> Add("wg", -1, "end")]
demoSemaphore == Group(Both(SemaphoreTask) @@ [w3 |-> SemaphoreTask])

\* Refill one token, or drop it when the bucket is full; Wait takes one.
Refiller == [start |-> Comm({Timer("refill"), Recv("stop", "end")}), refill |-> CommOr({Send("tokens", "start")}, "start")]
demoRateLimiter ==
  [w1   |-> Refiller,
   main |-> [start |-> For("burst", 2, "fill", "go"), fill |-> Comm({Send("tokens", "start")}), go |-> Go({"w1"}, "call"),
             call |-> For("calls", N, "wait", "stop"), wait |-> Comm({Recv("tokens", "call"), Recv("ctx", "stop")}),
             stop |-> Close("stop", "end")]]

\* Transient failures are tried again after the backoff, permanent ones are not.
retry ==
  Main([start |-> For("attempt", N, "op", "exhausted"), op |-> Either({"ok", "transient", "permanent"}),
        ok |-> Set("result", 1, "end"), permanent |-> Set("result", 2, "end"),
        transient |-> If("attempt", {N}, "exhausted", "backoff"),
        backoff |-> Comm({Timer("start"), Recv("ctx", "aborted")}),
        aborted |-> Set("result", 3, "end"), exhausted |-> Set("result", 4, "end")])

Closed == 0
Open == 1
HalfOpen == 2
MaxFailures == 2

\* CircuitBreaker.Call: admission, the call outside the lock, the outcome.
Admission ==
  [admit |-> Lock("mu", "state"), state |-> If("state", {Open}, "cooled", "go"), cooled |-> Either({"refuse", "probe"}),
   refuse |-> Unlock("mu", "start"), probe |-> Set("state", HalfOpen, "reset"), reset |-> Set("successes", 0, "go"),
   go |-> Unlock("mu", "call"), call |-> Either({"failed", "succeeded"})]
Failure ==
  [failed |-> Lock("mu", "more"), more |-> Plus("failures", 1, "probing"),
   probing |-> If("state", {HalfOpen}, "trip", "count"), count |-> If("failures", {0, 1}, "leave", "trip"),
   trip |-> Set("state", Open, "leave"), leave |-> Unlock("mu", "start")]
\* Mutation: the breaker closes and keeps its failures.
SuccessRemembered ==
  [succeeded |-> Lock("mu", "probed"), probed |-> If("state", {HalfOpen}, "better", "closed"),
   better |-> Plus("successes", 1, "enough"), enough |-> If("successes", {0, 1}, "leave", "trust"),
   trust |-> Set("state", Closed, "leave"), closed |-> If("state", {Closed}, "forget", "leave"),
   forget |-> Set("failures", 0, "leave")]
Success ==
  [succeeded |-> Lock("mu", "probed"), probed |-> If("state", {HalfOpen}, "better", "closed"),
   better |-> Plus("successes", 1, "enough"), enough |-> If("successes", {0, 1}, "leave", "trust"),
   trust |-> Set("state", Closed, "forget"), closed |-> If("state", {Closed}, "forget", "leave"),
   forget |-> Set("failures", 0, "leave")]

CircuitBreaker(calls) ==
  [start |-> For(calls, 2, "admit", "done"), done |-> Add("wg", -1, "end")] @@ Admission @@ Failure @@ Success
demoCircuitBreaker == Group([w1 |-> CircuitBreaker("calls1"), w2 |-> CircuitBreaker("calls2")])

\* Group.Do: the leader registers its call before it unlocks; callers i = 1, 2, 3.
Do(i) ==
  [start |-> Lock("mu", "find"), find |-> If("call", {0}, "register", "join1"),
   join1 |-> If("call", {1}, "leave1", "join2"), join2 |-> If("call", {2}, "leave2", "leave3"),
   leave1 |-> Unlock("mu", "wait1"), leave2 |-> Unlock("mu", "wait2"), leave3 |-> Unlock("mu", "wait3"),
   wait1 |-> Comm({Recv("done1", "share1")}), wait2 |-> Comm({Recv("done2", "share2")}), wait3 |-> Comm({Recv("done3", "share3")}),
   share1 |-> Read("val1", "keep"), share2 |-> Read("val2", "keep"), share3 |-> Read("val3", "keep"),
   register |-> Set("call", i, "unlock"), unlock |-> Unlock("mu", "enter"),
   enter |-> Plus("inFlight", 1, "fetch"), fetch |-> Comm({Timer("leave")}), leave |-> Plus("inFlight", -1, "result"),
   result |-> Set(<<"val1", "val2", "val3">>[i], 1, "release"), release |-> Close(<<"done1", "done2", "done3">>[i], "lock"),
   lock |-> Lock("mu", "forget"), forget |-> Set("call", 0, "unlocked"), unlocked |-> Unlock("mu", "return"),
   return |-> Hold(1, "keep"), keep |-> Keep("done"), done |-> Add("wg", -1, "end")]
demoSingleflight == Group([w1 |-> Do(1), w2 |-> Do(2), w3 |-> Do(3)])

\* The second replica is asked when the first is slow; the loser can still send.
HedgedReplica(v) ==
  [start |-> Comm({Timer("answer"), Recv("ctx", "send")}), answer |-> Hold(v, "send"), send |-> Comm({Send("results", "end")})]
hedgedCall ==
  [w1   |-> HedgedReplica(1), w2 |-> HedgedReplica(2),
   main |-> [start |-> Go({"w1"}, "first"), first |-> Comm({Recv("results", "keep"), Timer("hedge")}),
             hedge |-> Go({"w2"}, "await"), await |-> Comm({Recv("results", "keep")}),
             keep |-> Keep("cancel"), cancel |-> Cancel({"ctx"}, "end")]]

-----------------------------------------------------------------------------
(* 21: graceful shutdown.                                                  *)

\* Mutation: the gate is checked, and the request registered afterwards.
HandleSplit ==
  [start |-> Lock("mu", "gate"), gate |-> If("accepting", {1}, "unlock", "refuse"),
   refuse |-> Unlock("mu", "finish"), unlock |-> Unlock("mu", "add"), add |-> Add("inFlight", 1, "serve"),
   serve |-> Comm({Timer("handled")}), handled |-> Plus("handled", 1, "done"), done |-> Add("inFlight", -1, "finish")]

\* The gate and the Add are one critical section.
Handle ==
  [start |-> Lock("mu", "gate"), gate |-> If("accepting", {1}, "add", "refuse"),
   refuse |-> Unlock("mu", "finish"), add |-> Add("inFlight", 1, "unlock"), unlock |-> Unlock("mu", "serve"),
   serve |-> Comm({Timer("handled")}), handled |-> Plus("handled", 1, "done"), done |-> Add("inFlight", -1, "finish")]

Drainer == [start |-> Wait("inFlight", "close"), close |-> Close("drained", "end")]
Shutdown ==
  [lock |-> Lock("mu", "refuse"), refuse |-> Set("accepting", 0, "unlock"), unlock |-> Unlock("mu", "drain"),
   drain |-> Go({"drainer"}, "select"), select |-> Comm({Recv("drained", "drained"), Recv("shutdown", "stop")}),
   drained |-> Set("idle", 1, "stop")]
TickWorker == [start |-> Comm({Recv("workers", "done"), Timer("start")}), done |-> Add("wg", -1, "end")]

\* Traffic, a late request during the drain, and a background worker.
demoFullSequence ==
  [h1 |-> Handle @@ [finish |-> Add("traffic", -1, "end")], late |-> Handle @@ [finish |-> Comm({Send("lateResult", "end")})],
   drainer |-> Drainer, w1 |-> TickWorker,
   main |-> [start |-> Add("wg", 1, "traffic"), traffic |-> Add("traffic", 1, "go"), go |-> Go({"w1", "h1"}, "late"),
             late |-> Go({"late"}, "lock"), stop |-> Comm({Recv("lateResult", "cancel")}),
             cancel |-> Cancel({"workers"}, "wait"), wait |-> Wait("wg", "served"), served |-> Wait("traffic", "end")]
            @@ Shutdown]

\* A stuck request: the deadline may come before the drain ends.
demoDrainTimeout ==
  [h1 |-> Handle @@ [finish |-> Hold(0, "end")], drainer |-> Drainer,
   main |-> [start |-> Go({"h1"}, "lock"), stop |-> Cancel({"shutdown"}, "end")] @@ Shutdown]

demoSignalHandling ==
  [w1   |-> [start |-> Comm({Timer("signal")}), signal |-> Cancel({"ctx"}, "end")],
   main |-> [start |-> Go({"w1"}, "wait"), wait |-> Comm({Recv("ctx", "stop")}), stop |-> Cancel({"ctx"}, "end")]]

Component ==
  [start |-> Comm({Timer("stopped"), Recv("ctx", "failed")}), stopped |-> Either({"failed", "done"}),
   failed |-> Plus("failures", 1, "report"), report |-> Comm({Send("errCh", "done")}), done |-> Add("wg", -1, "end")]
demoComponents ==
  Both(Component) @@ Main([close |-> Close("errCh", "range"), cancel |-> Cancel({"ctx"}, "end")]
                          @@ Await({"w1", "w2"}, "close") @@ Collect("errCh", "cancel"))

-----------------------------------------------------------------------------
(* The programs with their channels, variables and deadlines.              *)

NoDeadline == {}
Unbuffered(cs) == [c \in cs |-> 0]
Zero(xs) == [x \in xs |-> 0]
Balances == [A |-> 1, B |-> 1]
PoolChans == Unbuffered({"jobs", "results", "ctx"})
DrainChans == Unbuffered({"drained", "shutdown", "workers"})
ServerVars == [accepting |-> 1, handled |-> 0, idle |-> 0]
DoneChans == {"done1", "done2", "done3"}

Examples == [
  demoStart          |-> Prog(demoStart, NoChan, Zero({"printed"}), NoDeadline),
  demoArgumentEvaluation |-> Prog(demoArgumentEvaluation, NoChan, Zero({"x"}), NoDeadline),
  demoWaitGroup      |-> Prog(demoWaitGroup, NoChan, Zero({"finished"}), NoDeadline),
  demoLoopVariable   |-> Prog(demoLoopVariable, NoChan, Zero({"r1", "r2"}), NoDeadline),
  demoRuntime        |-> Prog(demoRuntime, Unbuffered({"done"}), NoVar, NoDeadline),
  demoPanicIsolation |-> Prog(demoPanicIsolation, NoChan, NoVar, NoDeadline),
  demoUnbufferedVsBuffered |-> Prog(demoUnbufferedVsBuffered, [unbuffered |-> 0, buffered |-> 3], Zero({"sent", "taken"}), NoDeadline),
  demoDirections     |-> Prog(demoDirections, Unbuffered({"ch"}), Zero({"sent"}), NoDeadline),
  demoSelect         |-> Prog(demoSelect, Unbuffered({"fast", "slow"}), NoVar, NoDeadline),
  demoNonBlocking    |-> Prog(demoNonBlocking, [queue |-> 1], Zero({"sent", "dropped"}), NoDeadline),
  demoTimeout        |-> Prog(demoTimeout, [result |-> 1], NoVar, NoDeadline),
  demoNilChannel     |-> Prog(demoNilChannel, Unbuffered({"a", "b"}), NoVar, NoDeadline),
  demoCloseBroadcast |-> Prog(demoCloseBroadcast, [start |-> 0, done |-> 3], Zero({"taken"}), NoDeadline),
  brokenCounter      |-> Prog(brokenCounter, NoChan, Zero({"counter"}), NoDeadline),
  mutexCounter       |-> Prog(mutexCounter, NoChan, Zero({"counter"}), NoDeadline),
  demoMutex          |-> Prog(demoMutex, NoChan, Zero({"hits"}), NoDeadline),
  demoRWMutex        |-> Prog(demoRWMutex, NoChan, [region |-> 1, reads |-> 0], NoDeadline),
  demoOnce           |-> Prog(demoOnce, NoChan, Zero({"done", "runs", "conn"}), NoDeadline),
  demoAtomic         |-> Prog(demoAtomic, NoChan, Zero({"counter", "degraded"}), NoDeadline),
  demoCond           |-> Prog(demoCond, [consumed |-> 3], Zero({"taken", "added", "received", "queued"}), NoDeadline),
  demoSyncMap        |-> Prog(demoSyncMap, NoChan, Zero({"key"}), NoDeadline),
  demoBuilders       |-> Prog(demoBuilders, [pool |-> 2], Zero({"made"}), NoDeadline),
  atomicCounter      |-> Prog(atomicCounter, NoChan, Zero({"counter"}), NoDeadline),
  shardedCounter     |-> Prog(shardedCounter, NoChan, Zero({"r1", "r2"}), NoDeadline),
  checkThenActBroken |-> Prog(checkThenActBroken, NoChan, [balance |-> 1, granted |-> 0], NoDeadline),
  WithdrawIfAvailable |-> Prog(WithdrawIfAvailable, NoChan, [balance |-> 1, granted |-> 0], NoDeadline),
  leakyFirstResponse |-> Prog(FirstResponse, [ch |-> 0], NoVar, NoDeadline),
  fixedFirstResponse |-> Prog(FirstResponse, [ch |-> 3], NoVar, NoDeadline),
  fixedPoller        |-> Prog(fixedPoller, Unbuffered({"ctx"}), NoVar, NoDeadline),
  fixedContext       |-> Prog(fixedContext, Unbuffered({"ctx", "done"}), NoVar, {"ctx"}),
  leakyContext       |-> Prog(leakyContext, Unbuffered({"ctx"}), NoVar, {"ctx"}),
  leakyRange         |-> Prog(leakyRange, Unbuffered({"ch"}), Zero({"sent"}), NoDeadline),
  fixedRange         |-> Prog(fixedRange, Unbuffered({"ch", "done"}), Zero({"sent"}), NoDeadline),
  brokenTransfer     |-> Prog(brokenTransfer, Unbuffered({"done"}), Balances, NoDeadline),
  orderedTransfer    |-> Prog(orderedTransfer, Unbuffered({"done"}), Balances, NoDeadline),
  tryLockTransfer    |-> Prog(tryLockTransfer, Unbuffered({"done"}), Balances @@ Zero({"attempt1", "attempt2"}), NoDeadline),
  AddBroken          |-> Prog(AddBroken, Unbuffered({"done"}), Zero({"items"}), NoDeadline),
  Add                |-> Prog(Add_, Unbuffered({"done"}), Zero({"items"}), NoDeadline),
  missingDone        |-> Prog(missingDone, Unbuffered({"done"}), NoVar, NoDeadline),
  deferredDone       |-> Prog(deferredDone, Unbuffered({"done"}), NoVar, NoDeadline),
  sendAlone          |-> Prog(sendAlone, Unbuffered({"done", "ch"}), NoVar, NoDeadline),
  sendWithRoom       |-> Prog(sendWithRoom, [done |-> 0, ch |-> 1], NoVar, NoDeadline),
  neverClosed        |-> Prog(neverClosed, Unbuffered({"done", "ch"}), NoVar, NoDeadline),
  demoPool           |-> Prog(demoPool, PoolChans, Zero({"sent"}), NoDeadline),
  demoCancellation   |-> Prog(demoPool, PoolChans, Zero({"sent"}), {"ctx"}),
  demoOrdered        |-> Prog(demoOrdered, PoolChans, Zero({"sent"}), NoDeadline),
  demoFailFast       |-> Prog(demoFailFast, PoolChans, Zero({"sent"}), NoDeadline),
  demoSequential     |-> Prog(demoSequential, Unbuffered({"nums", "squares", "out", "ctx"}), Zero({"sent"}), NoDeadline),
  demoFanOutFanIn    |-> Prog(demoFanOutFanIn, Unbuffered({"nums", "s1", "s2", "merged", "ctx"}), Zero({"sent"}), NoDeadline),
  demoEarlyExit      |-> Prog(demoEarlyExit, Unbuffered({"nums", "out", "ctx"}), Zero({"sent"}), NoDeadline),
  demoBackpressure   |-> Prog(demoBackpressure, Unbuffered({"produced", "ctx"}), Zero({"i", "sent"}), NoDeadline),
  demoPropagation    |-> Prog(demoPropagation, Unbuffered({"root", "svc1", "svc2"}) @@ [stopped |-> 2], NoVar, NoDeadline),
  demoDeadline       |-> Prog(demoDeadline, Unbuffered({"ctx"}), Zero({"expired"}), {"ctx"}),
  demoWithoutCancel  |-> Prog(demoWithoutCancel, Unbuffered({"request", "audit"}), Zero({"live"}), {"audit"}),
  demoDeadlineInheritance |-> Prog(demoDeadlineInheritance, Unbuffered({"parent", "child"}), NoVar, {"parent", "child"}),
  demoAfterFunc      |-> Prog(demoAfterFunc, [ctx |-> 0, cleaned |-> 1], NoVar, NoDeadline),
  demoSemaphore      |-> Prog(demoSemaphore, [ctx |-> 0, sem |-> 2], Zero({"inFlight"}), NoDeadline),
  demoRateLimiter    |-> Prog(demoRateLimiter, [ctx |-> 0, stop |-> 0, tokens |-> 2], Zero({"burst", "calls"}), NoDeadline),
  retry              |-> Prog(retry, Unbuffered({"ctx"}), Zero({"attempt", "result"}), {"ctx"}),
  demoCircuitBreaker |-> Prog(demoCircuitBreaker, NoChan, Zero({"calls1", "calls2", "state", "failures", "successes"}), NoDeadline),
  demoSingleflight   |-> Prog(demoSingleflight, Unbuffered(DoneChans), Zero({"call", "inFlight", "val1", "val2", "val3"}), NoDeadline),
  hedgedCall         |-> Prog(hedgedCall, [ctx |-> 0, results |-> 2], NoVar, NoDeadline),
  demoFullSequence   |-> Prog(demoFullSequence, [lateResult |-> 1] @@ DrainChans, ServerVars, {"shutdown"}),
  demoDrainTimeout   |-> Prog(demoDrainTimeout, DrainChans, ServerVars, {"shutdown"}),
  demoSignalHandling |-> Prog(demoSignalHandling, Unbuffered({"ctx"}), NoVar, NoDeadline),
  demoComponents     |-> Prog(demoComponents, [ctx |-> 0, errCh |-> 2], Zero({"failures"}), {"ctx"}) ]

-----------------------------------------------------------------------------
(* Properties.                                                             *)

Ended(gs) == \A g \in gs : pc[g] = "end"
Returned  == {g \in Goroutines : pc[g] \in {"end", "idle"}}

\* The goroutines the sources say are left behind for good.
Left ==
  CASE prog = "leakyFirstResponse" -> {{"w1", "w2"}, {"w1", "w3"}, {"w2", "w3"}}
    [] prog = "leakyRange"     -> {{"w1"}}
    [] prog = "brokenTransfer" -> {{"f", "t1", "t2"}, {}}
    [] prog \in {"AddBroken", "missingDone", "sendAlone", "neverClosed"} -> {{"f"}}
    [] prog = "demoSelect"     -> {{"main", "fast"}, {}}
    [] OTHER -> {{}}

\* Comments of the examples: when nothing can run any more, every program that
\* is called fixed has returned from all its goroutines, and the broken ones
\* have left behind just those that are named.
LeftBehind == ~ENABLED Next => Goroutines \ Returned \in Left

\* No example panics: nobody sends on or closes a closed channel, a wait group
\* never goes below zero, and a panic stays inside the goroutine that recovers.
NoPanic == ~Panicked

\* The race that demo 14 shows, and two maps of the server that no lock guards:
\* Projector.ordinals and FakeProvider.captured.
Unguarded == {"brokenCounter", "availability", "charges"}

\* Every other example guards what its goroutines share.
NoRace == prog \notin Unguarded => RaceFree

Sum(s) == LET add[i \in 0 .. Len(s)] == IF i = 0 THEN 0 ELSE add[i - 1] + s[i] IN add[Len(s)]
Once(s) == \A i, j \in DOMAIN s : s[i] = s[j] /\ s[i] # 0 => i = j
All == 1 .. N
Elements(s) == {s[i] : i \in DOMAIN s}

\* What main prints when it is through.
Outcome ==
  /\ prog = "demoWaitGroup" => heap["finished"] = 2
  /\ prog \in {"mutexCounter", "atomicCounter", "demoAtomic"} => heap["counter"] = 2
  /\ prog = "demoMutex" => got = <<2>>
  /\ prog = "demoSyncMap" => got \in {<<1>>, <<2>>}
  /\ prog = "shardedCounter" => heap["r1"] + heap["r2"] = 2
  /\ prog = "demoUnbufferedVsBuffered" => got = <<3, 1, 2>>
  /\ prog \in {"demoDirections", "demoCond"} => got = [i \in All |-> i]
  /\ prog = "demoNonBlocking" => got = <<1>> /\ heap["dropped"] = 1
  /\ prog = "demoNilChannel" => Len(got) = 3 /\ Sum(got) = 6
  /\ prog = "demoOnce" => heap["runs"] = 1 /\ got = <<1, 1>>
  /\ prog = "WithdrawIfAvailable" => heap["balance"] = 0 /\ heap["granted"] = 1
  /\ prog \in {"demoPool", "demoOrdered"} => Once(got) /\ Elements(got) = All
  /\ prog = "demoFanOutFanIn" => Once(got) /\ Elements(got) = All
  /\ prog = "demoSequential" => got = SelectSeq([i \in All |-> i], LAMBDA i : i % 2 = 0)
  /\ prog = "demoPropagation" => Len(got) = 2
  /\ prog = "demoSingleflight" => got = <<1, 1, 1>>
  /\ prog = "hedgedCall" => got # <<0>>
  /\ prog = "demoComponents" => Len(got) = heap["failures"]
  /\ prog = "retry" => heap["result"] # 0
OutcomeAsPrinted == Ended({"main"}) => Outcome

\* While they run: permits, one flight per key, one fetch of the key set at a time,
\* one user of a builder, one initialisation, each result once, money kept, a producer at most one item ahead of its consumer.
AtMostPermitted ==
  /\ prog = "demoSemaphore" => heap["inFlight"] <= 2
  /\ prog = "demoSingleflight" => heap["inFlight"] <= 1
  /\ prog = "demoBuilders" /\ pc["w1"] = "write" /\ pc["w2"] = "write" => val["w1"] # val["w2"]
  /\ prog = "verifiers" => heap["fetching"] <= 1
  /\ prog \in {"demoCancellation", "demoFailFast", "demoEarlyExit"} => Once(got)
  /\ prog = "demoBackpressure" => heap["i"] <= Len(got) + 2
  /\ prog \in {"orderedTransfer", "tryLockTransfer"} /\ Ended({"t1", "t2"}) => heap["A"] + heap["B"] = 2

\* CircuitBreaker: a breaker that is CLOSED outside its lock has had fewer
\* than maxFailures failures in a row.
ClosedIsHealthy ==
  prog = "demoCircuitBreaker" /\ Unlocked("mu") /\ heap["state"] = Closed => heap["failures"] < MaxFailures

\* Shutdown returned without error: no request is being served, now or later.
DrainedIsIdle ==
  prog \in {"demoFullSequence", "demoDrainTimeout"} /\ heap["idle"] = 1 =>
    \A h \in Goroutines \cap {"h1", "late"} : pc[h] \notin {"add", "serve", "handled", "done"}

\* What the examples promise while they run.
PromisesKept == AtMostPermitted /\ ClosedIsHealthy /\ DrainedIsIdle
=============================================================================
