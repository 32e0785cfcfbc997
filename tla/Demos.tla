--------------------------------- MODULE Demos ---------------------------------
(***************************************************************************)
(* The demos of the catalogue (src/demos.js) with code of their own, as    *)
(* the run route sees them: each is started under a permit, which comes    *)
(* back when the promise of the demo is settled, and by nothing else: the  *)
(* abort of a request does not reach a demo that runs in the server (see   *)
(* DemoRuns).                                                              *)
(*                                                                         *)
(* Demos share no state: one of them runs, whichever it is; WorkerPool is  *)
(* the one that this module extends.                                       *)
(***************************************************************************)
EXTENDS WorkerPool

CONSTANTS
  Catalogue,                         \* the kinds of demos to run
  Burst,                             \* see CacheAside
  Candidates, TraceLines, MaxPipe,   \* see PythonLab
  DbScenarios,                       \* see DatabaseLab
  LoopDemos                          \* see EventLoop

ASSUME DemosAssumption ==
  /\ Burst \in Nat \ {0}
  /\ Candidates \in Nat \ {0} /\ TraceLines \in Nat \ {0} /\ MaxPipe \in Nat \ {0}
  /\ DbScenarios \subseteq {"sql", "acid", "indexes", "locks", "joins"}
  /\ LoopDemos \subseteq {"order", "demultiplexer", "queue", "pool", "promises", "models"}

VARIABLES
  demo,    \* the kind of the demo that runs
  permit,  \* its permit: "held" or "released"
  \* CacheAside
  step, caller, loader, inFlight, cached, current, reads,
  \* Reservations
  sent, answered, wire, replies, reservations, boundary,
  \* PythonLab
  attempt, interpreter, written, pipe, reading, settled, killed, emitted, scenario,
  \* DatabaseLab
  scenarioName, stage, position, checkedOut, rolledBack, row, tx, lockedBy, secondLock, seen,
  \* BullRoundtrip
  bullAt, made, shut, job, keys, forgiven,
  \* EventLoop
  loopDemo, loopAt, draining, ticks, micros, immediates, timers, batch, io, trace, closed,
  loopResult

Cache == INSTANCE CacheAside
Messages == INSTANCE Reservations
Python == INSTANCE PythonLab
Database == INSTANCE DatabaseLab
Bull == INSTANCE BullRoundtrip
Loop == INSTANCE EventLoop

cacheVars == <<step, caller, loader, inFlight, cached, current, reads>>
messageVars == <<sent, answered, wire, replies, reservations, boundary>>
pythonVars == <<attempt, interpreter, written, pipe, reading, settled, killed, emitted, scenario>>
databaseVars == <<scenarioName, stage, position, checkedOut, rolledBack, row, tx, lockedBy,
                  secondLock, seen>>
bullVars == <<bullAt, made, shut, job, keys, forgiven>>
loopVars == <<loopDemo, loopAt, draining, ticks, micros, immediates, timers, batch, io, trace,
              closed, loopResult>>

demoVars == <<demo, permit, poolVars, cacheVars, messageVars, pythonVars, databaseVars,
              bullVars, loopVars>>

TypeOK ==
  /\ demo \in Catalogue
  /\ permit \in {"held", "released"}
  /\ PoolTypeOK /\ Cache!CacheTypeOK /\ Messages!MessagesTypeOK
  /\ Python!PythonTypeOK /\ Database!DatabaseTypeOK /\ Bull!BullTypeOK /\ Loop!LoopTypeOK

(* What does not run has one initial state.                                *)
Init ==
  /\ demo \in Catalogue
  /\ permit = "held"
  /\ PoolInit /\ Cache!CacheInit /\ Messages!MessagesInit
  /\ Python!PythonInit /\ Database!DatabaseInit /\ Bull!BullInit /\ Loop!LoopInit
  /\ demo # "database" => scenarioName = CHOOSE s \in DbScenarios : TRUE
  /\ demo # "event-loop" =>
       loopDemo = (CHOOSE d \in LoopDemos : TRUE) /\ loopAt = "poll" /\ draining = "ticks"

LoadComparison ==
  /\ demo = "load" /\ PoolNext
  /\ UNCHANGED <<demo, permit, cacheVars, messageVars, pythonVars, databaseVars, bullVars, loopVars>>
Caching ==
  /\ demo = "cache" /\ Cache!CacheNext
  /\ UNCHANGED <<demo, permit, poolVars, messageVars, pythonVars, databaseVars, bullVars, loopVars>>
Microservices ==
  /\ demo = "messages" /\ Messages!MessagesNext
  /\ UNCHANGED <<demo, permit, poolVars, cacheVars, pythonVars, databaseVars, bullVars, loopVars>>
PythonDemo ==
  /\ demo = "python" /\ Python!PythonNext
  /\ UNCHANGED <<demo, permit, poolVars, cacheVars, messageVars, databaseVars, bullVars, loopVars>>
DatabaseDemo ==
  /\ demo = "database" /\ Database!DatabaseNext
  /\ UNCHANGED <<demo, permit, poolVars, cacheVars, messageVars, pythonVars, bullVars, loopVars>>
BullMq ==
  /\ demo = "bullmq" /\ Bull!BullNext
  /\ UNCHANGED <<demo, permit, poolVars, cacheVars, messageVars, pythonVars, databaseVars, loopVars>>
EventLoopDemo ==
  /\ demo = "event-loop" /\ Loop!LoopNext
  /\ UNCHANGED <<demo, permit, poolVars, cacheVars, messageVars, pythonVars, databaseVars, bullVars>>

(* The promise of the demo is settled.                                     *)
Settled ==
  CASE demo = "load" -> profile \in {"over", "refused"}
    [] demo = "cache" -> Cache!Doing = "over"
    [] demo = "messages" -> boundary = "closed"
    [] demo = "python" -> scenario \in {"done", "skipped", "rejected"}
    [] demo = "database" -> stage = "over"
    [] demo = "bullmq" -> bullAt = "over"
    [] demo = "event-loop" -> loopResult # "none"

(* The finally of the route.                                               *)
Release ==
  /\ permit = "held" /\ Settled
  /\ permit' = "released"
  /\ UNCHANGED <<demo, poolVars, cacheVars, messageVars, pythonVars, databaseVars, bullVars, loopVars>>

Next ==
  \/ LoadComparison \/ Caching \/ Microservices \/ PythonDemo \/ DatabaseDemo \/ BullMq
  \/ EventLoopDemo \/ Release

(* The event loop of the server turns for the demo that runs; see each     *)
(* component.                                                              *)
Fairness ==
  /\ WF_demoVars(Release)
  /\ \/ demo = "load" /\ PoolFairness
     \/ demo = "cache" /\ Cache!CacheFairness
     \/ demo = "messages" /\ Messages!MessagesFairness
     \/ demo = "python" /\ Python!PythonFairness
     \/ demo = "database" /\ Database!DatabaseFairness
     \/ demo = "bullmq" /\ Bull!BullFairness
     \/ demo = "event-loop" /\ Loop!LoopFairness

Spec == Init /\ [][Next]_demoVars
FairSpec == Spec /\ Fairness

-----------------------------------------------------------------------------
(* Liveness: the permit of every demo comes back, though nothing but the   *)
(* demo itself returns it (src/disposable-demo-executor.js:348): hanging   *)
(* interpreters, failing workers, a busy lock and lost answers all end in  *)
(* a timeout.  The one exception is a second database connection that      *)
(* fails (see CleanupReleasesClients).                                     *)
SecondConnectFailed == stage = "end" /\ position = 1 /\ checkedOut = {"first"}
PermitComesBack == <>(permit = "released" \/ SecondConnectFailed)

(* A demo that gave its permit back has left nothing behind: no worker     *)
(* thread (if its server could listen), no interpreter that is not being   *)
(* killed, no client of PostgreSQL or BullMQ, and no key of its queue      *)
(* unless Redis refused; and no lock of one database session keeps the     *)
(* schema of another from being dropped.                                   *)
CleanupComplete ==
  /\ Database!DropNotBlocked
  /\ permit = "released" =>
       /\ NothingLeft
       /\ \A a \in 1..Candidates : interpreter[a] = "running" => killed[a]
       /\ demo = "database" => checkedOut = {}
       /\ demo = "bullmq" => Bull!NothingOfQueueLeft

(* What the demos report of themselves is so: a burst of cache misses      *)
(* loads once and no stale product is answered, a reservation that is sent *)
(* twice is made once, and the rows of the database were seen as isolation *)
(* levels, locks and versions let them.                                    *)
ReportsTrue ==
  /\ Cache!BurstLoadsOnce /\ Cache!NoStaleAnswer
  /\ Messages!ReservedOnce
  /\ Database!IsolationAsReported

(* The trace of a Python demo: what is shown as done is complete and in    *)
(* order, and no line of an interpreter that was given up follows a line   *)
(* of the next one.                                                        *)
PythonTrace == Python!DoneShowsTrace /\ Python!TracesNotMixed

(* The demos of the event loop report results when all they speak of has   *)
(* happened, in the order they teach.                                      *)
LoopReports == Loop!ResultsComplete /\ Loop!OrderAsTaught

(* A run answers its client with one last event: none follows it.          *)
EndsOnce == Loop!EndsOnce

(* The finally blocks of src/database-lab.js promise that a scenario gives *)
(* its clients back whatever fails: README.md:516.                         *)
CleanupReleasesClients == Database!CleanupReleasesClients
=============================================================================
