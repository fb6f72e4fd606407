--------------------------- MODULE ServerProcess ---------------------------
(***************************************************************************)
(* What the goroutines of one ticket-booking server share in memory: the   *)
(* websocket hub's subscriptions and send buffers, the projector's map of  *)
(* seat ordinals, the key set tokens are verified with, and the charges of *)
(* the fake payment provider.  Two connections, and two requests, each.    *)
(***************************************************************************)
EXTENDS GoRuntime

Conns     == 1 .. 2
Messages  == 1                        \* bound: messages a subscription receives
Guard(i)  == <<"a", "b">>[i]          \* sub.mu of the subscription connection i creates
In(i, c)  == Of(Of("conn", i), c)     \* is connection c in sub.conns of subscription i
Other(c)  == 3 - c
Serve(gs) == [main |-> [start |-> Go(gs, "end")]]

-----------------------------------------------------------------------------
(* The hub.  The subscription is numbered by the connection that makes it. *)

\* Mutation: h.mu is given back before the connection has joined.
subscribeEarly(c) ==
  [start |-> Lock("mu", "find"), find |-> If("sub", {0}, "create", "which"),
   create |-> Set("sub", c, "pump"), pump |-> Go({Of("pump", c)}, Of("free", c)),
   which |-> If("sub", {1}, "free1", "free2"), free1 |-> Unlock("mu", "join1"), free2 |-> Unlock("mu", "join2"),
   join1 |-> Lock(Guard(1), "add1"), add1 |-> Set(In(1, c), 1, "added1"), added1 |-> Unlock(Guard(1), "frames"),
   join2 |-> Lock(Guard(2), "add2"), add2 |-> Set(In(2, c), 1, "added2"), added2 |-> Unlock(Guard(2), "frames")]

\* Under h.mu: find the event's subscription or start one, and join it.
subscribe(c) ==
  [start |-> Lock("mu", "find"), find |-> If("sub", {0}, "create", "which"),
   create |-> Set("sub", c, "pump"), pump |-> Go({Of("pump", c)}, Of("join", c)),
   which |-> If("sub", {1}, "join1", "join2"),
   join1 |-> Lock(Guard(1), "add1"), add1 |-> Set(In(1, c), 1, "added1"), added1 |-> Unlock(Guard(1), "joined"),
   join2 |-> Lock(Guard(2), "add2"), add2 |-> Set(In(2, c), 1, "added2"), added2 |-> Unlock(Guard(2), "joined"),
   joined |-> Unlock("mu", "frames")]

\* Leave subscription i; the last one out cancels it.
depart(i, c) ==
  On(Of("gone", i), Lock(Guard(i), Of("delete", i))) ++ On(Of("delete", i), Set(In(i, c), 0, Of("empty", i)))
  ++ On(Of("empty", i), If(In(i, Other(c)), {1}, Of("stay", i), Of("last", i)))
  ++ On(Of("stay", i), Unlock(Guard(i), "unlock")) ++ On(Of("last", i), Unlock(Guard(i), Of("cancel", i)))
  ++ On(Of("cancel", i), Cancel({Of("ctx", i)}, "forget"))

unsubscribe(c) ==
  [leave |-> Close(Of("closed", c), "ws"), ws |-> Cancel({Of("ws", c)}, "lock"), lock |-> Lock("mu", "look"),
   look |-> If("sub", {0}, "unlock", "mine"), mine |-> If("sub", {1}, "gone1", "gone2"),
   forget |-> Set("sub", 0, "unlock"), unlock |-> Unlock("mu", "end")] ++ depart(1, c) ++ depart(2, c)

\* readLoop returns when either side closes the socket, or after the idle time.
ServeWS(c) ==
  subscribe(c) ++ unsubscribe(c)
  ++ [frames |-> Either({"serve", "leave"}), serve |-> Go({Of("write", c)}, "read"),
      read |-> Comm({Recv(Of("ws", c), "leave"), Timer("leave")})]

\* Mutation: the loop closes the buffer it reads, as the first version did.
writeLoopClosing(c) ==
  [start |-> Comm({Recv(Of("closed", c), "close"), Timer("write"), Recv(Of("send", c), "write")}),
   write |-> Either({"start", "drop"}), drop |-> Cancel({Of("ws", c)}, "close"), close |-> Close(Of("send", c), "end")]

\* A ping or a frame is written, or the socket is closed.
writeLoop(c) ==
  [start |-> Comm({Recv(Of("closed", c), "end"), Timer("write"), Recv(Of("send", c), "write")}),
   write |-> Either({"start", "drop"}), drop |-> Cancel({Of("ws", c)}, "end")]

\* Fan-out of a message under sub.mu: a full buffer drops it.
pumpRedis(i) ==
  [start |-> Comm({Recv(Of("ctx", i), "end"), Timer("message")}), message |-> For(Of("messages", i), Messages, "lock", "quiet"),
   quiet |-> Comm({Recv(Of("ctx", i), "end")}),
   lock  |-> Lock(Guard(i), "first"), first |-> If(In(i, 1), {1}, "send1", "second"),
   send1 |-> CommOr({Send("send1", "second")}, "second"), second |-> If(In(i, 2), {1}, "send2", "unlock"),
   send2 |-> CommOr({Send("send2", "unlock")}, "unlock"), unlock |-> Unlock(Guard(i), "start")]

Hub ==
  [serve1 |-> ServeWS(1), serve2 |-> ServeWS(2), write1 |-> writeLoop(1), write2 |-> writeLoop(2),
   pump1 |-> pumpRedis(1), pump2 |-> pumpRedis(2)] ++ Serve({"serve1", "serve2"})

HubChans == [c \in {Of(x, i) : x \in {"closed", "ws", "ctx"}, i \in Conns} |-> 0] ++ [send1 |-> 1, send2 |-> 1]
HubVars  == [x \in {"sub"} \cup {Of("messages", i) : i \in Conns} \cup {In(i, c) : i, c \in Conns} |-> 0]

-----------------------------------------------------------------------------
(* Requests.                                                               *)

\* SeatCount: the projector's map of ordinals is filled on first sight.
SeatCount(failed) ==
  [count |-> If("ordinals", {1}, "end", "load"), load |-> Either({"store", failed}), store |-> Set("ordinals", 1, "end")]

\* The bitset from Redis, or the table when anything fails; a snapshot frame just fails.
getAvailability   == [start |-> Either({"count", "scan"}), scan |-> Comm({Timer("end")})] ++ SeatCount("scan")
sendInitialFrames == [start |-> Either({"count", "end"})] ++ SeatCount("end")

Availability == [w1 |-> getAvailability, w2 |-> sendInitialFrames] ++ Serve({"w1", "w2"})

\* The key set is fetched under the lock unless it is there and not too old.
keySet ==
  [start |-> Lock("mu", "cached"), cached |-> If("set", {1}, "age", "fetch"), age |-> Either({"unlock", "fetch"}),
   fetch |-> Plus("fetching", 1, "fetched"), fetched |-> Plus("fetching", -1, "reply"), reply |-> Either({"keep", "failed"}),
   failed |-> Unlock("mu", "end"), keep |-> Set("set", 1, "unlock"), unlock |-> Unlock("mu", "claims")]

\* With the keys in hand: the token is good and the request goes on, or it is refused.
VerifyToken == keySet ++ [claims |-> Either({"serve", "end"}), serve |-> Comm({Timer("end")})]
Verifiers   == [w1 |-> VerifyToken, w2 |-> VerifyToken] ++ Serve({"w1", "w2"})

\* A lookup in the provider's map, then the outcome; two orders have two keys.
Charge  == [start |-> Read("captured", "roll"), roll |-> Either({"capture", "end"}), capture |-> Set("captured", 1, "end")]
Charges == [w1 |-> Charge, w2 |-> Charge] ++ Serve({"w1", "w2"})

Requests(code, x) == [code |-> code, caps |-> [unused |-> 0], vars |-> [y \in x |-> 0], deadlines |-> {}]
Servers == [
  hub          |-> [code |-> Hub, caps |-> HubChans, vars |-> HubVars, deadlines |-> {}],
  availability |-> Requests(Availability, {"ordinals"}),
  verifiers    |-> Requests(Verifiers, {"set", "fetching"}),
  charges      |-> Requests(Charges, {"captured"}) ]

\* The table of programs holds these.
ASSUME ServersRun == \A p \in DOMAIN Servers : p \in DOMAIN Programs /\ Programs[p] = Servers[p]

\* The hub's numbered names, spelt out.
ASSUME HubNames ==
  /\ Of("serve", 1) = "serve1"    /\ Of("serve", 2) = "serve2"
  /\ Of("write", 1) = "write1"    /\ Of("write", 2) = "write2"
  /\ Of("pump", 1) = "pump1"      /\ Of("pump", 2) = "pump2"
  /\ Of("ws", 1) = "ws1"          /\ Of("ws", 2) = "ws2"
  /\ Of("closed", 1) = "closed1"  /\ Of("closed", 2) = "closed2"
  /\ Of("ctx", 1) = "ctx1"        /\ Of("ctx", 2) = "ctx2"
  /\ Of("send", 1) = "send1"      /\ Of("send", 2) = "send2"
  /\ Of("messages", 1) = "messages1" /\ Of("messages", 2) = "messages2"
  /\ Of("join", 1) = "join1"      /\ Of("join", 2) = "join2"
  /\ Of("gone", 1) = "gone1"      /\ Of("gone", 2) = "gone2"
  /\ Of("delete", 1) = "delete1"  /\ Of("delete", 2) = "delete2"
  /\ Of("empty", 1) = "empty1"    /\ Of("empty", 2) = "empty2"
  /\ Of("stay", 1) = "stay1"      /\ Of("stay", 2) = "stay2"
  /\ Of("last", 1) = "last1"      /\ Of("last", 2) = "last2"
  /\ Of("cancel", 1) = "cancel1"  /\ Of("cancel", 2) = "cancel2"
  /\ Of("conn", 1) = "conn1"     /\ Of("conn", 2) = "conn2"
  /\ Of("conn1", 1) = "conn11"   /\ Of("conn1", 2) = "conn12"
  /\ Of("conn2", 1) = "conn21"   /\ Of("conn2", 2) = "conn22"

-----------------------------------------------------------------------------
\* wshub.go subscribe and unsubscribe together: a connection that is being served
\* is in the event's one subscription, and that subscription is not cancelled,
\* whoever leaves at that moment.
LiveIsServed ==
  prog = "hub" =>
    \A c \in Conns : pc[Of("serve", c)] \in {"frames", "serve", "read"} =>
      \E i \in Conns : heap["sub"] = i /\ heap[In(i, c)] = 1 /\ Of("ctx", i) \notin closed /\ pc[Of("pump", i)] # "end"
=============================================================================
