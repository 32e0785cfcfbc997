------------------------------ MODULE DemoRuns ------------------------------
(***************************************************************************)
(* Running a demo over HTTP: the route handler                             *)
(* (app/api/demos/[id]/run/route.js), the concurrency guard it enters      *)
(* (createDemoConcurrencyGuard of src/request-guard.js), the measurement   *)
(* it opens (beginDemoMeasurement of src/runtime-state.js) and the         *)
(* disposable executor it hands CPU-blocking demos to (DemoExecutor).  The *)
(* profile is the public one.  A request is also the executor's job, if    *)
(* its demo is isolated; the others run in the server itself, as far as    *)
(* this module sees as one asynchronous call that ends or not.             *)
(***************************************************************************)
EXTENDS Integers, Sequences, FiniteSets

CONSTANTS
  Jobs,                    \* the requests to run a demo
  Isolated,                \* those whose demo is CPU-blocking
  Keys, Key,               \* requestKey of each request
  MaxConcurrentDemos,      \* profile.api.maxConcurrentDemos
  MaxConcurrentDemosPerIp, \* profile.api.maxConcurrentDemosPerIp
  MaxConcurrent, MaxQueue, MaxEvents, \* profile.api.demoIsolation
  SpawnMayFail, DrainBeforeExit, MaxChan

ASSUME RunsAssumption ==
  /\ IsFiniteSet(Jobs)
  /\ Isolated \subseteq Jobs
  /\ Key \in [Jobs -> Keys]
  /\ MaxConcurrentDemos \in Nat
  /\ MaxConcurrentDemosPerIp \in Nat
  /\ MaxConcurrent \in Nat \ {0}
  /\ MaxQueue \in Nat /\ MaxEvents \in Nat /\ MaxChan \in Nat
  /\ SpawnMayFail \in BOOLEAN /\ DrainBeforeExit \in BOOLEAN

VARIABLES
  active, queue, draining, phase, outcome, aborted, timer, events,
  receivedDone, activeChildren, child, killed, chan,
  route,          \* the handler of the request
  cancelled,      \* cancel() of the response stream ran
  listening,      \* abortExecution listens to request.signal
  work,           \* the demo itself, when it runs in the server
  permit,         \* the permit of the request
  guardActive,    \* active of the concurrency guard
  activeByIp,     \* activeByIp of the concurrency guard
  demoRunsActive, \* metrics.demoRunsActive
  demoRunErrors,  \* metrics.demoRunErrorsTotal
  measured        \* finished of the measurement of the request

executor == <<active, queue, draining, phase, outcome, aborted, timer, events,
              receivedDone, activeChildren, child, killed, chan>>
guard == <<permit, guardActive, activeByIp>>
metrics == <<demoRunsActive, demoRunErrors, measured>>
vars == <<executor, route, cancelled, listening, work, guard, metrics>>

Executor == INSTANCE DemoExecutor

TypeOK ==
  /\ Executor!TypeOK
  /\ route \in [Jobs -> {"new", "refused", "running", "finished"}]
  /\ cancelled \in [Jobs -> BOOLEAN]
  /\ listening \in [Jobs -> BOOLEAN]
  /\ work \in [Jobs -> {"none", "working", "ended"}]
  /\ permit \in [Jobs -> {"none", "held", "released"}]
  /\ guardActive \in Nat
  /\ activeByIp \in [Keys -> Nat]
  /\ demoRunsActive \in Nat
  /\ demoRunErrors \in Nat
  /\ measured \in [Jobs -> {"none", "open", "finished"}]

Init ==
  /\ Executor!Init
  /\ route = [j \in Jobs |-> "new"]
  /\ cancelled = [j \in Jobs |-> FALSE]
  /\ listening = [j \in Jobs |-> FALSE]
  /\ work = [j \in Jobs |-> "none"]
  /\ permit = [j \in Jobs |-> "none"]
  /\ guardActive = 0
  /\ activeByIp = [k \in Keys |-> 0]
  /\ demoRunsActive = 0
  /\ demoRunErrors = 0
  /\ measured = [j \in Jobs |-> "none"]

-----------------------------------------------------------------------------
(* The concurrency guard and the measurement.                              *)

GuardFull(j) ==
  \/ guardActive >= MaxConcurrentDemos
  \/ activeByIp[Key[j]] >= MaxConcurrentDemosPerIp

Enter(j) ==
  /\ ~GuardFull(j)
  /\ permit' = [permit EXCEPT ![j] = "held"]
  /\ guardActive' = guardActive + 1
  /\ activeByIp' = [activeByIp EXCEPT ![Key[j]] = @ + 1]

Decrement(n) == IF n > 0 THEN n - 1 ELSE 0

(* permit.release(), idempotent.                                           *)
ReleaseAgain(j) == \* mutant: no look at released
  /\ permit' = [permit EXCEPT ![j] = "released"]
  /\ guardActive' = Decrement(guardActive)
  /\ activeByIp' = [activeByIp EXCEPT ![Key[j]] = Decrement(@)]

ReleaseBelowZero(j) == \* mutant: nor Math.max
  /\ permit' = [permit EXCEPT ![j] = "released"]
  /\ guardActive' = guardActive - 1
  /\ activeByIp' = [activeByIp EXCEPT ![Key[j]] = Decrement(@)]

ReleasePermit(j) ==
  IF permit[j] = "released" THEN UNCHANGED guard
  ELSE /\ permit' = [permit EXCEPT ![j] = "released"]
       /\ guardActive' = Decrement(guardActive)
       /\ activeByIp' = [activeByIp EXCEPT ![Key[j]] = Decrement(@)]

BeginMeasurement(j) ==
  /\ measured' = [measured EXCEPT ![j] = "open"]
  /\ demoRunsActive' = demoRunsActive + 1
  /\ UNCHANGED demoRunErrors

(* measurement.finish({ error }), idempotent.                              *)
FinishMeasurement(j, error) ==
  IF measured[j] = "finished" THEN UNCHANGED metrics
  ELSE /\ measured' = [measured EXCEPT ![j] = "finished"]
       /\ demoRunsActive' = Decrement(demoRunsActive)
       /\ demoRunErrors' = demoRunErrors + (IF error THEN 1 ELSE 0)

-----------------------------------------------------------------------------
(* The route handler.                                                      *)

(* The rest of start() awaits only the executor's promise: it is to run    *)
(* before any other callback once that promise is settled.                 *)
Continuing(j) == route[j] = "running" /\ j \in Isolated /\ phase[j] = "over"
Idle == ~Executor!Busy /\ \A j \in Jobs : ~Continuing(j)

PostRefused(j) ==
  /\ Idle
  /\ route[j] = "new"
  /\ GuardFull(j)
  /\ route' = [route EXCEPT ![j] = "refused"]
  /\ UNCHANGED <<executor, cancelled, listening, work, guard, metrics>>

(* The admitted request up to the await in start(): runDemoWithIsolation   *)
(* hands the demo to the executor or calls it.                             *)
PostAdmitted(j) ==
  /\ Idle
  /\ route[j] = "new"
  /\ Enter(j)
  /\ BeginMeasurement(j)
  /\ route' = [route EXCEPT ![j] = "running"]
  /\ listening' = [listening EXCEPT ![j] = TRUE]
  /\ IF j \in Isolated
     THEN Executor!Run(j) /\ UNCHANGED work
     ELSE work' = [work EXCEPT ![j] = "working"] /\ UNCHANGED executor
  /\ UNCHANGED cancelled

(* The catch and finally of start().                                       *)
EndRun(j, error) ==
  /\ route' = [route EXCEPT ![j] = "finished"]
  /\ FinishMeasurement(j, error)
  /\ ReleasePermit(j)
  /\ listening' = [listening EXCEPT ![j] = FALSE]
  /\ UNCHANGED cancelled

IsolatedRunEnds(j) ==
  /\ Continuing(j)
  /\ ~draining
  /\ EndRun(j, outcome[j] # "ok")
  /\ UNCHANGED <<executor, work>>

ServerRunEnds(j) ==
  /\ Idle
  /\ work[j] = "working"
  /\ work' = [work EXCEPT ![j] = "ended"]
  /\ \E error \in BOOLEAN : EndRun(j, error)
  /\ UNCHANGED executor

(* executionController.abort(): only the executor looks at its signal.     *)
AbortUnheard(j) == UNCHANGED executor \* mutant: the signal is not passed on
AbortExecution(j) ==
  IF aborted[j] THEN UNCHANGED executor ELSE Executor!Abort(j)

RequestAborted(j) ==
  /\ Idle
  /\ listening[j]
  /\ listening' = [listening EXCEPT ![j] = FALSE]
  /\ AbortExecution(j)
  /\ UNCHANGED <<route, cancelled, work, guard, metrics>>

StreamCancelled(j) ==
  /\ Idle
  /\ route[j] = "running"
  /\ ~cancelled[j]
  /\ cancelled' = [cancelled EXCEPT ![j] = TRUE]
  /\ AbortExecution(j)
  /\ FinishMeasurement(j, TRUE)
  /\ ReleasePermit(j)
  /\ listening' = [listening EXCEPT ![j] = FALSE]
  /\ UNCHANGED <<route, work>>

-----------------------------------------------------------------------------
(* The executor's own steps; its callbacks wait for the handler to be idle.*)
ExecutorReaction ==
  /\ Executor!Reaction
  /\ UNCHANGED <<route, cancelled, listening, work, guard, metrics>>

ExecutorCallback(j) ==
  /\ Idle
  /\ Executor!Callback(j)
  /\ UNCHANGED <<route, cancelled, listening, work, guard, metrics>>

ExecutorChild(j) ==
  /\ Executor!ChildStep(j)
  /\ UNCHANGED <<route, cancelled, listening, work, guard, metrics>>

RouteStep(j) ==
  \/ PostRefused(j) \/ PostAdmitted(j)
  \/ IsolatedRunEnds(j) \/ ServerRunEnds(j)
  \/ RequestAborted(j) \/ StreamCancelled(j)

Next ==
  \/ ExecutorReaction
  \/ \E j \in Jobs : RouteStep(j) \/ ExecutorCallback(j) \/ ExecutorChild(j)

Spec == Init /\ [][Next]_vars

(* Reactions run before anything else; armed timeouts are handled in some  *)
(* turn of the event loop.  A demo inside the server owes nothing.         *)
LiveSpec ==
  /\ Spec
  /\ WF_vars(ExecutorReaction)
  /\ \A j \in Jobs : WF_vars(IsolatedRunEnds(j))
  /\ \A j \in Jobs : SF_vars(Idle /\ Executor!OnTimeout(j) /\
                              UNCHANGED <<route, cancelled, listening, work, guard, metrics>>)

-----------------------------------------------------------------------------
Permits == {j \in Jobs : permit[j] = "held"}

(* The guard counts exactly the permits given and not returned, in all and *)
(* per client, within both limits; a run that was answered or cancelled    *)
(* holds none.                                                             *)
PermitAccounting ==
  /\ guardActive = Cardinality(Permits)
  /\ guardActive <= MaxConcurrentDemos
  /\ \A k \in Keys :
       /\ activeByIp[k] = Cardinality({j \in Permits : Key[j] = k})
       /\ activeByIp[k] <= MaxConcurrentDemosPerIp
  /\ \A j \in Jobs : permit[j] = "held" <=> route[j] = "running" /\ ~cancelled[j]

(* The executor never turns away a request the guard admitted: with        *)
(* maxConcurrent + maxQueue >= maxConcurrentDemos its queue cannot be      *)
(* full, also when runs are cancelled and their slots are freed by promise *)
(* reactions.                                                              *)
AdmittedNeverRefused == \A j \in Jobs : outcome[j] # "full"

(* Every measured run is counted as active until it is answered or         *)
(* cancelled, and as an error exactly once if it failed or was cancelled;  *)
(* of an answered demo that ran in the server either may be true.          *)
Failed == {j \in Jobs : \/ cancelled[j]
                        \/ j \in Isolated /\ route[j] = "finished" /\ outcome[j] # "ok"}
AnsweredByServer == {j \in Jobs \ Isolated : route[j] = "finished" /\ ~cancelled[j]}

MeasurementAccounting ==
  /\ demoRunsActive = Cardinality({j \in Jobs : route[j] = "running" /\ ~cancelled[j]})
  /\ demoRunErrors - Cardinality(Failed) \in 0..Cardinality(AnsweredByServer)

(* The permit and the measurement of a run are returned exactly once,      *)
(* though the finally of its stream, cancel() and the abort of its request *)
(* come in any order (src/app/api/demos/[id]/run/route.js:88, :99).        *)
ReturnedExactlyOnce == PermitAccounting /\ MeasurementAccounting

(* A cancelled isolated run leaves nothing behind: when the handler is     *)
(* idle again it neither waits nor holds a slot.                           *)
CancelledRunGone ==
  Idle => \A j \in Isolated : cancelled[j] => phase[j] = "over" /\ route[j] = "finished"

(* Liveness: an isolated run is answered and its permit returned.          *)
IsolatedRunAnswered ==
  \A j \in Isolated : route[j] = "running" ~> route[j] = "finished"

(* src/runtime-state.js:183: the gauge counts the demos executing.         *)
GaugeCountsExecuting ==
  Idle => demoRunsActive = Cardinality({j \in Jobs :
            work[j] = "working" \/ phase[j] \in {"queued", "running"}})
=============================================================================
