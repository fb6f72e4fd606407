----------------------------- MODULE DataLoader -----------------------------
(***************************************************************************)
(* The GraphQL server's batching cache.  Field resolvers of one request    *)
(* call Load with their key; keys wait in a pending batch that is fetched  *)
(* by a timer's goroutine or, when the batch is full, by one of its own.   *)
(* The mutex guards which batch is pending, but the batch's results are    *)
(* handed over by closing its channel.  A batch is numbered by the key     *)
(* that opened it: a key is cached for good and opens one batch at most.   *)
(***************************************************************************)
EXTENDS GoRuntime, FiniteSets

Keys == 1 .. 3
Bit  == <<1, 2, 4>>                       \* a set of keys is the sum of its bits
Full == {3, 5, 6, 7}                      \* two keys: MaxBatch of the instance
Failed == 0                               \* b.err is set

\* The batch function: the rows of all the keys, an error, or a panic.
fetch(b) ==
  [fetch |-> Either({"rows", "error", "crash"}),
   rows |-> Write(Of("results", b), 0, "close"), error |-> Set(Of("results", b), Failed, "close"), crash |-> Panic("error")]

\* run: the keys are read without the lock; deferred calls recover and close.
run(b, first) == On(first, Read(Of("keys", b), "fetch")) ++ fetch(b) ++ [close |-> Close(Of("done", b), "end")]

\* Mutation: the timer does not look whether the batch has gone.
flushAgain(b) ==
  [start |-> Lock("mu", "sent"), sent |-> Set(Of("sent", b), 1, "pending"),
   pending |-> Set("pending", 0, "unlock"), unlock |-> Unlock("mu", "run")] ++ run(b, "run")

flush(b) ==
  [start |-> Lock("mu", "check"), check |-> If(Of("sent", b), {1}, "leave", "sent"),
   leave |-> Unlock("mu", "end"), sent |-> Set(Of("sent", b), 1, "pending"),
   pending |-> Set("pending", 0, "unlock"), unlock |-> Unlock("mu", "run")] ++ run(b, "run")

\* Mutation: a batch that is sent stays the pending one.
joinSent(k, b) ==
  On(Of("add", b), Set(Of("batch", k), b, Of("key", b))) ++ On(Of("key", b), Plus(Of("keys", b), Bit[k], Of("full", b)))
  ++ On(Of("full", b), If(Of("keys", b), Full, Of("send", b), Of("leave", b))) ++ On(Of("send", b), If(Of("sent", b), {1}, Of("leave", b), Of("mark", b)))
  ++ On(Of("mark", b), Set(Of("sent", b), 1, Of("go", b))) ++ On(Of("go", b), Go({Of("run", b)}, Of("leave", b)))

\* enqueue, once the batch is known: key k joins batch b, which may be full now.
join(k, b) ==
  On(Of("add", b), Set(Of("batch", k), b, Of("key", b))) ++ On(Of("key", b), Plus(Of("keys", b), Bit[k], Of("full", b)))
  ++ On(Of("full", b), If(Of("keys", b), Full, Of("send", b), Of("leave", b))) ++ On(Of("send", b), Set(Of("sent", b), 1, Of("clear", b)))
  ++ On(Of("clear", b), Set("pending", 0, Of("go", b))) ++ On(Of("go", b), Go({Of("run", b)}, Of("leave", b)))

\* The select of Load: the batch is done, or the request is over.
await(b) ==
  On(Of("leave", b), Unlock("mu", Of("wait", b))) ++ On(Of("wait", b), Comm({Recv(Of("done", b), Of("read", b)), Recv("ctx", "done")}))
  ++ On(Of("read", b), Read(Of("results", b), "done"))

Load(k) ==
  [start |-> Lock("mu", "cached"), cached |-> If(Of("batch", k), {0}, "enqueue", "cached1"),
   cached1 |-> If(Of("batch", k), {1}, "leave1", "cached2"), cached2 |-> If(Of("batch", k), {2}, "leave2", "leave3"),
   enqueue |-> If("pending", {0}, "open", "pending1"), open |-> Set("pending", k, "after"),
   after |-> Go({Of("flush", k)}, Of("add", k)),
   pending1 |-> If("pending", {1}, "add1", "pending2"), pending2 |-> If("pending", {2}, "add2", "add3"),
   done |-> Add("wg", -1, "end")]
  ++ join(k, 1) ++ join(k, 2) ++ join(k, 3) ++ await(1) ++ await(2) ++ await(3)

\* Three resolvers of one request; keyOf says who asks for what.
resolvers(keyOf) ==
  [c \in DOMAIN keyOf |-> Load(keyOf[c])]
  ++ [flush1 |-> flush(1), flush2 |-> flush(2), flush3 |-> flush(3)]
  ++ [run1 |-> run(1, "start"), run2 |-> run(2, "start"), run3 |-> run(3, "start")]
  ++ [main |-> [start |-> Add("wg", Cardinality(DOMAIN keyOf), "go"), go |-> Go(DOMAIN keyOf, "wait"),
                wait |-> Wait("wg", "cancel"), cancel |-> Cancel({"ctx"}, "end")]]

Distinct == [c1 |-> 1, c2 |-> 2, c3 |-> 3]
Shared   == [c1 |-> 1, c2 |-> 2, c3 |-> 1]

LoaderVars == {"pending"} \cup {Of(x, b) : x \in {"batch", "keys", "sent", "results"}, b \in Keys}
Request(keyOf, deadlines) ==
  [code |-> resolvers(keyOf), caps |-> [c \in {"ctx", "done1", "done2", "done3"} |-> 0],
   vars |-> [x \in LoaderVars |-> 0], deadlines |-> deadlines]
Loaders == [distinctKeys |-> Request(Distinct, {}), sharedKey |-> Request(Shared, {"ctx"})]

\* The table of programs holds these.
ASSUME LoadersRun == \A p \in DOMAIN Loaders : p \in DOMAIN Programs /\ Programs[p] = Loaders[p]

\* The numbered names of its callers and of their batches, spelt out.
ASSUME CallerNames ==
  /\ Of("add", 1) = "add1"     /\ Of("add", 2) = "add2"     /\ Of("add", 3) = "add3"
  /\ Of("key", 1) = "key1"     /\ Of("key", 2) = "key2"     /\ Of("key", 3) = "key3"
  /\ Of("full", 1) = "full1"   /\ Of("full", 2) = "full2"   /\ Of("full", 3) = "full3"
  /\ Of("send", 1) = "send1"   /\ Of("send", 2) = "send2"   /\ Of("send", 3) = "send3"
  /\ Of("clear", 1) = "clear1" /\ Of("clear", 2) = "clear2" /\ Of("clear", 3) = "clear3"
  /\ Of("go", 1) = "go1"       /\ Of("go", 2) = "go2"       /\ Of("go", 3) = "go3"
  /\ Of("leave", 1) = "leave1" /\ Of("leave", 2) = "leave2" /\ Of("leave", 3) = "leave3"
  /\ Of("wait", 1) = "wait1"   /\ Of("wait", 2) = "wait2"   /\ Of("wait", 3) = "wait3"
  /\ Of("read", 1) = "read1"   /\ Of("read", 2) = "read2"   /\ Of("read", 3) = "read3"
ASSUME CellNames ==
  /\ Of("batch", 1) = "batch1" /\ Of("batch", 2) = "batch2" /\ Of("batch", 3) = "batch3"
  /\ Of("keys", 1) = "keys1"   /\ Of("keys", 2) = "keys2"   /\ Of("keys", 3) = "keys3"
  /\ Of("sent", 1) = "sent1"   /\ Of("sent", 2) = "sent2"   /\ Of("sent", 3) = "sent3"
  /\ Of("results", 1) = "results1" /\ Of("results", 2) = "results2" /\ Of("results", 3) = "results3"
  /\ Of("done", 1) = "done1"   /\ Of("done", 2) = "done2"   /\ Of("done", 3) = "done3"
  /\ Of("flush", 1) = "flush1" /\ Of("flush", 2) = "flush2" /\ Of("flush", 3) = "flush3"
  /\ Of("run", 1) = "run1"     /\ Of("run", 2) = "run2"     /\ Of("run", 3) = "run3"

-----------------------------------------------------------------------------
\* Load, enqueue and flush together: a batch never outgrows MaxBatch, what is
\* fetched holds every key that joined, and a caller that is answered gets an
\* answer in which its own key was asked for.
BatchHoldsKey ==
  \A keyOf \in {k \in {Distinct, Shared} : prog = (IF k = Distinct THEN "distinctKeys" ELSE "sharedKey")} :
    /\ \A b \in Keys : heap[Of("keys", b)] # 7
    /\ \A c \in DOMAIN keyOf : pc[c] = "done" /\ val[c] # Failed => (val[c] \div Bit[keyOf[c]]) % 2 = 1
=============================================================================
