------------------------------ MODULE EventLoop ------------------------------
(***************************************************************************)
(* The Event Loop demos of src/demos.js on a model of Node's event loop,   *)
(* with the emit of the route that shows them (src/app/api/demos).         *)
(*                                                                         *)
(* A demo is the callbacks it schedules and the promises that join them.   *)
(* How long things take is left open: timers keep the order of their ends, *)
(* and I/O ends in any order, or with an error.                            *)
(***************************************************************************)
EXTENDS Naturals, Sequences, SequencesExt, FiniteSets

CONSTANT LoopDemos  \* the demos to run

VARIABLES
  loopDemo,   \* the demo
  loopAt,     \* the phase of the event loop
  draining,   \* the queue that is drained between callbacks, or "none"
  ticks, micros, immediates, \* queues of callbacks
  timers,     \* pairs of a delay and a callback, in the order they were set
  batch,      \* the immediates of this check phase
  io,         \* operations under way
  trace,      \* the callbacks that emitted or settled something, as the route
              \* wrote them while its stream was open
  closed,     \* closed of the route
  loopResult  \* how the promise of the demo was settled

queues == <<ticks, micros, timers, immediates, io>>
loopVars == <<loopDemo, loopAt, draining, queues, batch, trace, closed, loopResult>>

(* What a callback adds to the queues and to the operations under way.     *)
Adds(newTicks, newMicros, newTimers, newImmediates, newIo) ==
  [ticks |-> newTicks, micros |-> newMicros, timers |-> newTimers,
   immediates |-> newImmediates, io |-> newIo]
None == Adds(<<>>, <<>>, <<>>, <<>>, {})
Then(c) == Adds(<<>>, <<c>>, <<>>, <<>>, {})
Sleep(ms, c) == Adds(<<>>, <<>>, << <<ms, c>> >>, <<>>, {})

(* A promise that waits for a number of the callbacks in a set, and what   *)
(* follows it.                                                             *)
Join(of, count, next) == [of |-> of, count |-> count, next |-> next]

Shown == ToSet(trace)

-----------------------------------------------------------------------------
(* eventLoopOrder.                                                         *)
IoRound == Adds(<<"ioTick">>, <<"ioThen">>, << <<1, "ioTimer">> >>, <<"ioImmediate">>, {})
OuterRound ==
  Adds(<<"tick">>, <<"then", "microtask">>, << <<1, "timer">> >>, <<"immediate">>, {})

EventLoopOrderAwaited(c) == \* mutant: readFile of fs/promises, awaited
  CASE c = "main" -> OuterRound
    [] c = "outer" -> IF {"timer", "immediate"} \subseteq Shown THEN Then("outerResult")
                      ELSE Sleep(1, "sleep")
    [] c = "sleep" -> Then("outer")
    [] c = "outerResult" -> Adds(<<>>, <<>>, <<>>, <<>>, {"readFile"})
    [] c = "readFile" -> Then("read")
    [] c = "read" -> IoRound
    [] OTHER -> None

EventLoopOrder(c) ==
  CASE c = "main" -> OuterRound
    [] c = "outer" -> IF {"timer", "immediate"} \subseteq Shown THEN Then("outerResult")
                      ELSE Sleep(1, "sleep")
    [] c = "sleep" -> Then("outer")
    [] c = "outerResult" -> Adds(<<>>, <<>>, <<>>, <<>>, {"readFile"})
    [] c = "readFile" -> IoRound
    [] OTHER -> None

EventLoopJoins == {
  Join({"tick", "then", "microtask", "timer", "immediate"}, 4, Then("outer")),
  Join({"ioTick", "ioThen", "ioTimer", "ioImmediate"}, 4, Then("result")) }

(* eventDemultiplexer and libuvThreadPool; three of the six jobs.          *)
Sources == {"readFile", "lookup"}
EventDemultiplexer(c) ==
  IF c = "main" THEN Adds(<<>>, <<>>, << <<180, "timer">> >>, <<>>, Sources) ELSE None
DemultiplexerJoins == {Join(Sources \cup {"timer"}, 3, Then("result"))}

Pbkdf2 == {"job1", "job2", "job3"}
LibuvThreadPool(c) == IF c = "main" THEN Adds(<<>>, <<>>, <<>>, <<>>, Pbkdf2) ELSE None
ThreadPoolJoins == {Join(Pbkdf2, 3, Then("result"))}

(* callbackQueue: the fifth callback resolves in an immediate.             *)
Queued == <<"first", "second", "third", "fourth", "fifth">>
CallbackQueue(c) ==
  CASE c = "main" -> Adds(<<>>, <<>>, [n \in 1..5 |-> <<1, Queued[n]>>], <<>>, {})
    [] c = "first" -> Adds(<<"tick">>, <<"then">>, <<>>, <<>>, {})
    [] c = "resolve" -> Then("result")
    [] OTHER -> None
CallbackQueueJoins == {Join(ToSet(Queued), 5, Adds(<<>>, <<>>, <<>>, <<"resolve">>, {}))}

(* promisesImmediateBullMq, up to its round trip.                          *)
PromisesImmediate(c) ==
  CASE c = "main" -> Adds(<<>>, <<"then1", "catch">>, <<>>, <<"immediate">>, {})
    [] c = "then1" -> Then("then2")
    [] c = "then2" -> Sleep(25, "slept")
    [] c = "slept" -> Then("finally")
    [] c = "chain" -> Adds(<<>>, <<>>, << <<45, "slow">>, <<10, "fast">>, <<25, "middle">> >>, <<>>, {})
    [] c = "all" -> Then("allSettled")
    [] c = "allSettled" -> Adds(<<>>, <<>>, << <<30, "racer">> >>, <<"winner">>, {})
    [] c = "race" -> Adds(<<>>, <<>>, <<>>, <<"result">>, {})
    [] OTHER -> None
PromisesJoins == {
  Join({"finally", "catch", "immediate"}, 3, Then("chain")),
  Join({"slow", "fast", "middle"}, 3, Then("all")),
  Join({"racer", "winner"}, 1, Then("race")) }

(* runtimeModelsComparison; four of the 24 waits, one of each length.      *)
RuntimeModels(c) ==
  CASE c = "main" -> Adds(<<>>, <<>>, << <<25, "a">>, <<35, "b">>, <<45, "c">>, <<55, "d">> >>, <<>>, {})
    [] c = "waited" -> Sleep(20, "delayed")
    [] c = "delayed" -> Then("result")
    [] OTHER -> None
RuntimeModelsJoins == {Join({"a", "b", "c", "d"}, 4, Then("waited"))}

Schedules(c) ==
  CASE loopDemo = "order" -> EventLoopOrder(c)
    [] loopDemo = "demultiplexer" -> EventDemultiplexer(c)
    [] loopDemo = "queue" -> CallbackQueue(c)
    [] loopDemo = "pool" -> LibuvThreadPool(c)
    [] loopDemo = "promises" -> PromisesImmediate(c)
    [] loopDemo = "models" -> RuntimeModels(c)
Joins ==
  CASE loopDemo = "order" -> EventLoopJoins
    [] loopDemo = "demultiplexer" -> DemultiplexerJoins
    [] loopDemo = "queue" -> CallbackQueueJoins
    [] loopDemo = "pool" -> ThreadPoolJoins
    [] loopDemo = "promises" -> PromisesJoins
    [] loopDemo = "models" -> RuntimeModelsJoins

(* Callbacks that neither emit nor settle a promise of a join.             *)
Silent == {"outer", "sleep", "read", "resolve", "then2"}

-----------------------------------------------------------------------------
(* The callbacks of all demos, by name.                                    *)
Callbacks == {
  "main", "tick", "then", "microtask", "timer", "immediate", "outer", "sleep", "outerResult",
  "readFile", "read", "ioTick", "ioThen", "ioTimer", "ioImmediate", "lookup", "job1", "job2",
  "job3", "first", "second", "third", "fourth", "fifth", "resolve", "then1", "catch", "then2",
  "slept", "finally", "chain", "slow", "fast", "middle", "all", "allSettled", "racer", "winner",
  "race", "a", "b", "c", "d", "waited", "delayed", "result" }

LoopTypeOK ==
  /\ loopDemo \in LoopDemos
  /\ loopAt \in {"timers", "poll", "check"}
  /\ draining \in {"ticks", "micros", "none"}
  /\ \A q \in {ticks, micros, immediates, batch} : q \in Seq(Callbacks)
  /\ \A i \in 1..Len(timers) : timers[i] \in Nat \X Callbacks
  /\ io \subseteq Callbacks
  /\ trace \in Seq(Callbacks \cup {"done", "failed"})
  /\ closed \in BOOLEAN
  /\ loopResult \in {"none", "done", "failed"}

(* The demo is called from a callback, or from a promise reaction.         *)
LoopInit ==
  /\ loopDemo \in LoopDemos
  /\ loopAt \in {"timers", "poll", "check"}
  /\ draining \in {"ticks", "micros"}
  /\ LET new == Schedules("main") IN
       /\ ticks = new.ticks /\ micros = new.micros /\ timers = new.timers
       /\ immediates = new.immediates /\ io = new.io
  /\ batch = <<>>
  /\ trace = <<>>
  /\ closed = FALSE
  /\ loopResult = "none"

(* emit of the route.                                                      *)
EmitOpen(c) == \* mutant: no look at closed
  trace' = Append(trace, c)

Emit(c) == trace' = IF closed \/ c \in Silent THEN trace ELSE Append(trace, c)

(* What follows the join that a callback completes; it is in one at most.  *)
Completed(c) ==
  {j \in Joins : c \in j.of /\ Cardinality(j.of \cap (Shown \cup {c})) = j.count}
Following(c) == IF Completed(c) = {} THEN None ELSE (CHOOSE j \in Completed(c) : TRUE).next

(* A callback c that was taken from the queues q; what follows its join    *)
(* comes after what it adds itself.                                        *)
Call(c, q) ==
  LET own == Schedules(c)
      next == Following(c) IN
    /\ Emit(c)
    /\ ticks' = q.ticks \o own.ticks \o next.ticks
    /\ micros' = q.micros \o own.micros \o next.micros
    /\ timers' = q.timers \o own.timers \o next.timers
    /\ immediates' = q.immediates \o own.immediates \o next.immediates
    /\ io' = q.io \cup own.io \cup next.io
    /\ loopResult' = IF c = "result" /\ loopResult = "none" THEN "done" ELSE loopResult
    /\ UNCHANGED <<loopDemo, closed>>

Now == [ticks |-> ticks, micros |-> micros, timers |-> timers,
        immediates |-> immediates, io |-> io]

-----------------------------------------------------------------------------
(* Node: after each callback all nextTicks, then all promise reactions,    *)
(* and again until both queues are empty.                                  *)
RunTick ==
  /\ draining = "ticks" /\ ticks # <<>>
  /\ Call(Head(ticks), [Now EXCEPT !.ticks = Tail(ticks)])
  /\ UNCHANGED <<loopAt, draining, batch>>

RunMicrotask ==
  /\ draining = "micros" /\ micros # <<>>
  /\ Call(Head(micros), [Now EXCEPT !.micros = Tail(micros)])
  /\ UNCHANGED <<loopAt, draining, batch>>

QueueDrained ==
  /\ \/ draining = "ticks" /\ ticks = <<>> /\ draining' = "micros"
     \/ draining = "micros" /\ micros = <<>> /\ (loopResult # "none" => closed)
        /\ draining' = IF ticks = <<>> THEN "none" ELSE "ticks"
  /\ UNCHANGED <<loopDemo, loopAt, queues, batch, trace, closed, loopResult>>

RunTimer ==
  /\ draining = "none" /\ loopAt = "timers"
  /\ \E i \in 1..Len(timers) :
       /\ \A k \in 1..(i - 1) : timers[k][1] > timers[i][1]
       /\ Call(timers[i][2], [Now EXCEPT !.timers = RemoveAt(timers, i)])
  /\ draining' = "ticks"
  /\ UNCHANGED <<loopAt, batch>>

RunIo ==
  /\ draining = "none" /\ loopAt = "poll"
  /\ \E c \in io : Call(c, [Now EXCEPT !.io = io \ {c}])
  /\ draining' = "ticks"
  /\ UNCHANGED <<loopAt, batch>>

(* readFile, lookup or pbkdf2 reports an error: the promise of the demo is *)
(* rejected, while its other operations go on.                             *)
IoFails ==
  /\ draining = "none" /\ loopAt = "poll"
  /\ \E c \in io : io' = io \ {c}
  /\ loopResult' = IF loopResult = "none" THEN "failed" ELSE loopResult
  /\ draining' = "ticks"
  /\ UNCHANGED <<loopDemo, loopAt, ticks, micros, timers, immediates, batch, trace, closed>>

RunImmediate ==
  /\ draining = "none" /\ loopAt = "check" /\ batch # <<>>
  /\ Call(Head(batch), Now)
  /\ batch' = Tail(batch)
  /\ draining' = "ticks"
  /\ UNCHANGED loopAt

NextPhase ==
  /\ draining = "none" /\ batch = <<>>
  /\ \/ loopAt = "timers" /\ loopAt' = "poll" /\ UNCHANGED <<immediates, batch>>
     \/ loopAt = "poll" /\ loopAt' = "check" /\ batch' = immediates /\ immediates' = <<>>
     \/ loopAt = "check" /\ loopAt' = "timers" /\ UNCHANGED <<immediates, batch>>
  /\ UNCHANGED <<loopDemo, draining, ticks, micros, timers, io, trace, closed, loopResult>>

(* The route, in a promise reaction: the last event, and nothing after it. *)
Answer ==
  /\ draining = "micros"
  /\ loopResult # "none" /\ ~closed
  /\ trace' = Append(trace, loopResult)
  /\ closed' = TRUE
  /\ UNCHANGED <<loopDemo, loopAt, draining, queues, batch, loopResult>>

LoopNext ==
  \/ RunTick \/ RunMicrotask \/ QueueDrained \/ RunTimer \/ RunIo \/ IoFails
  \/ RunImmediate \/ NextPhase \/ Answer

(* The loop turns, a timer that is set again and again does not keep it in *)
(* one phase, and timers and I/O end.                                      *)
LoopFairness ==
  /\ WF_loopVars(LoopNext) /\ SF_loopVars(NextPhase)
  /\ SF_loopVars(RunTimer) /\ SF_loopVars(RunIo)

-----------------------------------------------------------------------------
(* A result is reported when everything it speaks of has happened          *)
(* (src/demos.js:190, :277, :337, :460, :655): the first count of four of  *)
(* five callbacks is not enough.                                           *)
Before(c, d) == d \in Shown => c \in Shown
ResultsComplete ==
  /\ \A c \in {"tick", "then", "microtask", "timer", "immediate"} :
       loopDemo = "order" => Before(c, "outerResult")
  /\ \A c \in ToSet(Queued) \cup {"tick", "then"} : loopDemo = "queue" => Before(c, "result")
  /\ \A c \in Pbkdf2 : loopDemo = "pool" => Before(c, "result")
  /\ \A c \in Sources : loopDemo = "demultiplexer" => Before(c, "result")
  /\ loopResult = "done" => "result" \in Shown

(* The orders the demos teach: nextTick, promise, immediate and timer      *)
(* inside I/O; nextTick and promise of a timer before the next timer.  A   *)
(* callback of the order is shown after those before it, and once.         *)
InOrder(order) ==
  \A i \in 1..Len(trace), n \in 1..Len(order) :
    trace[i] = order[n] =>
      {trace[k] : k \in 1..(i - 1)} \cap ToSet(order) = {order[k] : k \in 1..(n - 1)}
OrderAsTaught ==
  /\ loopDemo = "order" => InOrder(<<"ioTick", "ioThen", "ioImmediate", "ioTimer">>)
  /\ loopDemo = "queue" =>
       InOrder(<<"first", "tick", "then", "second", "third", "fourth", "fifth", "result">>)

(* The stream ends with one "done" or "error": callbacks of a demo that    *)
(* has failed already are not shown.                                       *)
EndsOnce == \A i \in 1..Len(trace) : trace[i] \in {"done", "failed"} => i = Len(trace)
=============================================================================
