---------------------------- MODULE DemoRunsProofs ----------------------------
(***************************************************************************)
(* The run route over the executor, for any number of requests, clients    *)
(* and limits: it uses the executor as the executor expects to be used, so *)
(* that what is proved of DemoExecutor holds here; permits and             *)
(* measurements are returned exactly once; a request that the guard        *)
(* admits is not refused by the executor.                                  *)
(***************************************************************************)
EXTENDS DemoRuns, FiniteSetTheorems, SequenceTheorems, TLAPS

(* The theorems about the executor, over the variables of this module.     *)
Proved == INSTANCE DemoExecutorRefinement

-----------------------------------------------------------------------------
(* The executor inside.                                                    *)
LEMMA SameExecutor ==
  /\ Executor!Init => Proved!Init
  /\ [Executor!Next]_(Executor!vars) => [Proved!Next]_(Proved!vars)
  BY DEF Executor!Init, Proved!Init, Executor!Next, Proved!Next,
     Executor!Internal, Proved!Internal, Executor!Reaction, Proved!Reaction,
     Executor!DrainOne, Proved!DrainOne, Executor!DrainEnds,
     Proved!DrainEnds, Executor!SettleCaller, Proved!SettleCaller,
     Executor!FreeSlot, Proved!FreeSlot, Executor!Callback, Proved!Callback,
     Executor!ChildStep, Proved!ChildStep, Executor!Run, Proved!Run,
     Executor!Abort, Proved!Abort, Executor!RunRefused, Proved!RunRefused,
     Executor!RunAccepted, Proved!RunAccepted, Executor!Busy, Proved!Busy,
     Executor!Saturated, Proved!Saturated, Executor!MayDrain,
     Proved!MayDrain, Executor!Fork, Proved!Fork, Executor!Finish,
     Proved!Finish, Executor!AbortQueued, Proved!AbortQueued,
     Executor!AbortRunning, Proved!AbortRunning, Executor!AbortIgnored,
     Proved!AbortIgnored, Executor!OnTimeout, Proved!OnTimeout,
     Executor!OnStdioLimit, Proved!OnStdioLimit, Executor!OnSpawnError,
     Proved!OnSpawnError, Executor!Take, Proved!Take,
     Executor!OnMessageIgnored, Proved!OnMessageIgnored, Executor!OnEvent,
     Proved!OnEvent, Executor!OnDone, Proved!OnDone, Executor!OnReady,
     Proved!OnReady, Executor!OnFailure, Proved!OnFailure,
     Executor!OnMessage, Proved!OnMessage, Executor!OnExit, Proved!OnExit,
     Executor!Send, Proved!Send, Executor!ChildReady, Proved!ChildReady,
     Executor!ChildEvent, Proved!ChildEvent, Executor!ChildDone,
     Proved!ChildDone, Executor!ChildError, Proved!ChildError,
     Executor!ChildExit, Proved!ChildExit, Executor!ChildDies,
     Proved!ChildDies, Executor!control, Proved!control, Executor!host,
     Proved!host, Executor!vars, Proved!vars, Executor!Live, Proved!Live,
     Executor!RemoveAt, Proved!RemoveAt

LEMMA RunsInit == Init => Executor!Init
  BY DEF Init

LEMMA RunsStep == [Next]_vars => [Executor!Next]_(Executor!vars)
<1> SUFFICES ASSUME [Next]_vars PROVE Executor!Next \/ UNCHANGED executor
  BY DEF Executor!vars, executor
<1>1. CASE UNCHANGED vars
  BY <1>1 DEF vars
<1>2. CASE ExecutorReaction
  BY <1>2 DEF ExecutorReaction, Executor!Next, Executor!Internal
<1>3. ASSUME NEW j \in Jobs, RouteStep(j) PROVE Executor!Next \/ UNCHANGED executor
  BY <1>3 DEF RouteStep, PostRefused, PostAdmitted, IsolatedRunEnds, ServerRunEnds,
     RequestAborted, StreamCancelled, AbortExecution, Executor!Next
<1>4. ASSUME NEW j \in Jobs, ExecutorCallback(j) \/ ExecutorChild(j) PROVE Executor!Next
  BY <1>4 DEF ExecutorCallback, ExecutorChild, Executor!Next, Executor!Internal
<1> QED BY <1>1, <1>2, <1>3, <1>4 DEF Next

(* Every step of the route is a step of the executor or leaves it alone:   *)
(* what holds of the executor alone holds of it behind the route.          *)
THEOREM RunsUseExecutor == Spec => Executor!Spec
  BY RunsInit, RunsStep, PTL DEF Spec, Executor!Spec

LEMMA ExecutorLimits == Proved!ExecutorAssumption
  BY RunsAssumption DEF RunsAssumption, Proved!ExecutorAssumption, IsFiniteSet, Proved!IsFiniteSet

(* What the route relies on.                                               *)
Held == {j \in Jobs : phase[j] \in {"running", "settled", "freeing"}}
Waits == {j \in Jobs : phase[j] = "queued"}

Relied ==
  /\ Executor!TypeOK
  /\ active = Cardinality(Held)
  /\ Len(queue) = Cardinality(Waits)
  /\ \A i \in 1..Len(queue) : phase[queue[i]] = "queued"
  /\ \A j \in Jobs : aborted[j] => phase[j] \notin {"queued", "running"}
  /\ \A j \in Jobs : outcome[j] = "none" <=> phase[j] \in {"new", "queued", "running"}

LEMMA ProvedRelied == Proved!RInv => Relied
<1> SUFFICES ASSUME Proved!RInv PROVE Relied
  OBVIOUS
<1>1. Executor!TypeOK
  BY DEF Proved!RInv, Proved!IInv, Proved!TypeOK, Executor!TypeOK, Proved!Phases,
     Executor!Phases, Proved!Outcomes, Executor!Outcomes, Proved!Live, Executor!Live,
     Proved!Processes, Executor!Processes, Proved!Messages, Executor!Messages
<1>2. active = Cardinality(Held)
  BY DEF Proved!RInv, Proved!IInv, Proved!Slots, Proved!Holding, Held, Cardinality,
     Proved!Cardinality
<1>3. Len(queue) = Cardinality(Waits)
  BY DEF Proved!RInv, Proved!IInv, Proved!Waiting, Proved!Queued, Waits, Cardinality,
     Proved!Cardinality
<1>4. /\ \A i \in 1..Len(queue) : phase[queue[i]] = "queued"
      /\ \A j \in Jobs : aborted[j] => phase[j] \notin {"queued", "running"}
      /\ \A j \in Jobs : outcome[j] = "none" <=> phase[j] \in {"new", "queued", "running"}
  BY DEF Proved!RInv, Proved!IInv, Proved!Waiting, Proved!Queued, Proved!AbortsSeen,
     Proved!Consistent
<1> QED BY <1>1, <1>2, <1>3, <1>4 DEF Relied

LEMMA AlwaysRelied == Spec => []Relied
<1>1. Init => Proved!RInv
  BY RunsInit, SameExecutor, ExecutorLimits, Proved!InvariantInit, Proved!ConsistentInit
     DEF Proved!RInv
<1>2. Proved!RInv /\ [Next]_vars => Proved!RInv'
  BY RunsStep, SameExecutor, ExecutorLimits, Proved!RInvStep
<1> QED BY <1>1, <1>2, ProvedRelied, PTL DEF Spec

-----------------------------------------------------------------------------
(* What a step of the executor may do to a run that it was given.          *)
Moves(j) ==
  \/ phase'[j] = phase[j] /\ outcome'[j] = outcome[j]
  \/ /\ phase[j] = "queued" /\ phase'[j] \in {"running", "settled", "over"}
     /\ outcome'[j] # "full"
  \/ phase[j] = "running" /\ phase'[j] = "settled" /\ outcome'[j] # "full"
  \/ /\ phase[j] \in {"settled", "freeing"} /\ phase'[j] \in {"freeing", "over"}
     /\ outcome'[j] = outcome[j]

LEMMA ReactionMoves ==
  ASSUME Relied, Executor!Reaction, NEW k \in Jobs
  PROVE  Moves(k)
<1> USE DEF Relied, Executor!TypeOK, Moves
<1>1. CASE Executor!DrainOne
  <2> DEFINE j == Head(queue)
  <2>1. queue # <<>> /\ Len(queue) \in Nat
    BY <1>1, LenProperties DEF Executor!DrainOne, Executor!MayDrain
  <2>2. j \in Jobs /\ j = queue[1] /\ 1 \in 1..Len(queue)
    BY <2>1, HeadTailProperties
  <2>3. phase[j] = "queued" /\ ~aborted[j]
    BY <2>2
  <2>4. Executor!Fork(j)
    BY <1>1, <2>3 DEF Executor!DrainOne
  <2> HIDE DEF j
  <2> QED BY <2>2, <2>3, <2>4 DEF Executor!Fork
<1>2. CASE Executor!DrainEnds
  BY <1>2 DEF Executor!DrainEnds
<1>3. ASSUME NEW j \in Jobs, Executor!SettleCaller(j) \/ Executor!FreeSlot(j) PROVE Moves(k)
  BY <1>3 DEF Executor!SettleCaller, Executor!FreeSlot
<1> QED BY <1>1, <1>2, <1>3 DEF Executor!Reaction

LEMMA FinishMoves ==
  ASSUME Relied, NEW k \in Jobs, NEW j \in Jobs, NEW result \in {"ok", "failed", "aborted"},
         phase[j] = "running", Executor!Finish(j, result)
  PROVE  Moves(k)
  BY DEF Relied, Executor!TypeOK, Moves, Executor!Finish

LEMMA CallbackMoves ==
  ASSUME Relied, NEW k \in Jobs, NEW j \in Jobs, Executor!Callback(j)
  PROVE  Moves(k)
<1>1. CASE Executor!OnTimeout(j) \/ Executor!OnStdioLimit(j) \/ Executor!OnSpawnError(j)
  BY <1>1, FinishMoves DEF Executor!OnTimeout, Executor!OnStdioLimit, Executor!OnSpawnError
<1>2. CASE Executor!OnMessage(j)
  BY <1>2, FinishMoves DEF Executor!OnMessage, Executor!OnMessageIgnored, Executor!OnEvent,
     Executor!OnDone, Executor!OnReady, Executor!OnFailure, Moves
<1>3. CASE Executor!OnExit(j)
  BY <1>3, FinishMoves DEF Executor!OnExit, Moves
<1> QED BY <1>1, <1>2, <1>3 DEF Executor!Callback

LEMMA ChildMoves ==
  ASSUME NEW k \in Jobs, NEW j \in Jobs, Executor!ChildStep(j)
  PROVE  Moves(k)
  BY DEF Executor!ChildStep, Executor!ChildReady, Executor!ChildEvent, Executor!ChildDone,
     Executor!ChildError, Executor!ChildExit, Executor!ChildDies, Executor!host, Moves

LEMMA AbortMoves ==
  ASSUME Relied, NEW j \in Jobs, AbortExecution(j)
  PROVE  /\ \A k \in Jobs : Moves(k)
         /\ phase'[j] \notin {"queued", "running"}
         /\ phase[j] = "new" => phase'[j] = "new"
<1> USE DEF Relied, Executor!TypeOK, Moves
<1>1. CASE aborted[j]
  BY <1>1 DEF AbortExecution, executor
<1>2. CASE ~aborted[j] /\ Executor!AbortQueued(j)
  BY <1>2 DEF Executor!AbortQueued
<1>3. CASE ~aborted[j] /\ Executor!AbortRunning(j)
  <2>1. phase[j] = "running" /\ Executor!Finish(j, "aborted")
    BY <1>3 DEF Executor!AbortRunning
  <2> QED BY <2>1, FinishMoves DEF Executor!Finish
<1>4. CASE ~aborted[j] /\ Executor!AbortIgnored(j)
  BY <1>4 DEF Executor!AbortIgnored
<1> QED BY <1>1, <1>2, <1>3, <1>4 DEF AbortExecution, Executor!Abort

(* run(j) as the route calls it, in an idle turn.                          *)
LEMMA RunMoves ==
  ASSUME Relied, NEW j \in Jobs, Executor!Run(j)
  PROVE  /\ \A k \in Jobs \ {j} : Moves(k)
         /\ phase[j] = "new" /\ phase'[j] \in {"queued", "over"}
         /\ outcome'[j] = "full" => ~aborted[j] /\ Executor!Saturated
  BY DEF Relied, Executor!TypeOK, Moves, Executor!Run, Executor!RunRefused,
     Executor!RunAccepted

-----------------------------------------------------------------------------
(* The inductive invariant.  A request agrees with itself: its permit and  *)
(* its measurement are out exactly while it is under way and not           *)
(* cancelled, and whatever waits or runs in the executor holds a permit.   *)
UnderWay(j) == route[j] = "running" /\ ~cancelled[j]
NotAdmitted(j) == route[j] \in {"new", "refused"}

Agrees(j) ==
  /\ permit[j] = "held" <=> UnderWay(j)
  /\ permit[j] = "none" <=> NotAdmitted(j)
  /\ measured[j] = "open" <=> UnderWay(j)
  /\ measured[j] = "none" <=> NotAdmitted(j)
  /\ cancelled[j] => ~NotAdmitted(j)
  /\ listening[j] => UnderWay(j)
  /\ work[j] = "working" <=> j \notin Isolated /\ route[j] = "running"
  /\ phase[j] = "new" <=> j \notin Isolated \/ NotAdmitted(j)
  /\ route[j] = "finished" => phase[j] \in {"new", "over"}
  /\ phase[j] \in {"queued", "running"} => UnderWay(j)

RouteTyped ==
  /\ route \in [Jobs -> {"new", "refused", "running", "finished"}]
  /\ cancelled \in [Jobs -> BOOLEAN]
  /\ listening \in [Jobs -> BOOLEAN]
  /\ work \in [Jobs -> {"none", "working", "ended"}]
  /\ permit \in [Jobs -> {"none", "held", "released"}]
  /\ guardActive \in Nat
  /\ activeByIp \in [Keys -> Nat]
  /\ demoRunsActive \in Nat
  /\ demoRunErrors \in Nat
  /\ measured \in [Jobs -> {"none", "open", "finished"}]

RouteInv == RouteTyped /\ \A j \in Jobs : Agrees(j)

USE DEF UnderWay, NotAdmitted

LEMMA RouteInit == Init => RouteInv
  BY RunsAssumption DEF Init, Executor!Init, RouteInv, RouteTyped, Agrees

LEMMA TypedStep == RouteTyped /\ [Next]_vars => RouteTyped'
<1> SUFFICES ASSUME RouteTyped, [Next]_vars PROVE RouteTyped'
  OBVIOUS
<1> USE RunsAssumption DEF RouteTyped, guard, metrics, Decrement
<1>1. CASE UNCHANGED vars
  BY <1>1 DEF vars
<1>2. CASE ExecutorReaction \/ \E j \in Jobs : ExecutorCallback(j) \/ ExecutorChild(j)
  BY <1>2 DEF ExecutorReaction, ExecutorCallback, ExecutorChild
<1>3. ASSUME NEW j \in Jobs, PostRefused(j) \/ RequestAborted(j) PROVE RouteTyped'
  BY <1>3 DEF PostRefused, RequestAborted
<1>4. ASSUME NEW j \in Jobs, PostAdmitted(j) PROVE RouteTyped'
  BY <1>4 DEF PostAdmitted, Enter, BeginMeasurement
<1>5. ASSUME NEW j \in Jobs, NEW error \in BOOLEAN,
             ReleasePermit(j) /\ FinishMeasurement(j, error)
      PROVE  /\ permit' \in [Jobs -> {"none", "held", "released"}]
             /\ guardActive' \in Nat /\ activeByIp' \in [Keys -> Nat]
             /\ demoRunsActive' \in Nat /\ demoRunErrors' \in Nat
             /\ measured' \in [Jobs -> {"none", "open", "finished"}]
  BY <1>5 DEF ReleasePermit, FinishMeasurement
<1>6. ASSUME NEW j \in Jobs, IsolatedRunEnds(j) PROVE RouteTyped'
  BY <1>5, <1>6 DEF IsolatedRunEnds, EndRun
<1>7. ASSUME NEW j \in Jobs, ServerRunEnds(j) PROVE RouteTyped'
  BY <1>5, <1>7 DEF ServerRunEnds, EndRun
<1>8. ASSUME NEW j \in Jobs, StreamCancelled(j) PROVE RouteTyped'
  BY <1>5, <1>8 DEF StreamCancelled
<1> QED BY <1>1, <1>2, <1>3, <1>4, <1>6, <1>7, <1>8 DEF Next, RouteStep

(* The end of a run, by start() or by cancel(), returns what is still out. *)
LEMMA EndReturns ==
  ASSUME RouteInv, NEW j \in Jobs, NEW error \in BOOLEAN, route[j] = "running",
         ReleasePermit(j), FinishMeasurement(j, error)
  PROVE  /\ permit' = [permit EXCEPT ![j] = "released"]
         /\ measured' = [measured EXCEPT ![j] = "finished"]
  BY DEF RouteInv, RouteTyped, Agrees, ReleasePermit, FinishMeasurement, guard, metrics

LEMMA AgreesStep ==
  ASSUME Relied, RouteInv, [Next]_vars, NEW k \in Jobs
  PROVE  Agrees(k)'
<1> USE DEF RouteInv, RouteTyped, Agrees
<1>1. CASE UNCHANGED vars
  BY <1>1 DEF vars, executor, guard, metrics
<1>2. ASSUME Moves(k), UNCHANGED <<route, cancelled, listening, work, permit, measured>>
      PROVE  Agrees(k)'
  BY <1>2 DEF Moves
<1>3. CASE ExecutorReaction \/ \E j \in Jobs : ExecutorCallback(j) \/ ExecutorChild(j)
  BY <1>2, <1>3, ReactionMoves, CallbackMoves, ChildMoves
     DEF ExecutorReaction, ExecutorCallback, ExecutorChild, guard, metrics
<1>4. ASSUME NEW j \in Jobs, PostRefused(j) PROVE Agrees(k)'
  BY <1>4 DEF PostRefused, executor, guard, metrics
<1>5. ASSUME NEW j \in Jobs, PostAdmitted(j) PROVE Agrees(k)'
  <2>1. \/ j \in Isolated /\ Executor!Run(j) /\ UNCHANGED work
        \/ j \notin Isolated /\ work' = [work EXCEPT ![j] = "working"] /\ UNCHANGED executor
    BY <1>5 DEF PostAdmitted
  <2>2. /\ route' = [route EXCEPT ![j] = "running"] /\ route[j] = "new"
        /\ listening' = [listening EXCEPT ![j] = TRUE]
        /\ permit' = [permit EXCEPT ![j] = "held"]
        /\ measured' = [measured EXCEPT ![j] = "open"]
        /\ UNCHANGED cancelled
    BY <1>5 DEF PostAdmitted, Enter, BeginMeasurement
  <2>3. CASE j \in Isolated /\ Executor!Run(j) /\ UNCHANGED work
    BY <2>2, <2>3, RunMoves DEF Moves
  <2>4. CASE j \notin Isolated /\ work' = [work EXCEPT ![j] = "working"] /\ UNCHANGED executor
    BY <2>2, <2>4 DEF executor
  <2> QED BY <2>1, <2>3, <2>4
<1>6. ASSUME NEW j \in Jobs, IsolatedRunEnds(j) PROVE Agrees(k)'
  <2>1. /\ permit' = [permit EXCEPT ![j] = "released"]
        /\ measured' = [measured EXCEPT ![j] = "finished"]
    BY <1>6, EndReturns DEF IsolatedRunEnds, Continuing, EndRun
  <2> QED BY <1>6, <2>1 DEF IsolatedRunEnds, Continuing, EndRun, executor
<1>7. ASSUME NEW j \in Jobs, ServerRunEnds(j) PROVE Agrees(k)'
  <2>1. route[j] = "running"
    BY <1>7 DEF ServerRunEnds
  <2>2. /\ permit' = [permit EXCEPT ![j] = "released"]
        /\ measured' = [measured EXCEPT ![j] = "finished"]
    BY <1>7, <2>1, EndReturns DEF ServerRunEnds, EndRun
  <2> QED BY <1>7, <2>1, <2>2 DEF ServerRunEnds, EndRun, executor
<1>8. ASSUME NEW j \in Jobs, RequestAborted(j) PROVE Agrees(k)'
  <2>1. Moves(k)
    BY <1>8, AbortMoves DEF RequestAborted
  <2> QED BY <1>8, <2>1 DEF RequestAborted, Moves, guard, metrics
<1>9. ASSUME NEW j \in Jobs, StreamCancelled(j) PROVE Agrees(k)'
  <2>1. /\ permit' = [permit EXCEPT ![j] = "released"]
        /\ measured' = [measured EXCEPT ![j] = "finished"]
    BY <1>9, EndReturns DEF StreamCancelled
  <2>2. Moves(k) /\ phase'[j] \notin {"queued", "running"}
    BY <1>9, AbortMoves DEF StreamCancelled
  <2> QED BY <1>9, <2>1, <2>2 DEF StreamCancelled, Moves
<1> QED BY <1>1, <1>3, <1>4, <1>5, <1>6, <1>7, <1>8, <1>9 DEF Next, RouteStep

LEMMA AlwaysRoute == Spec => []RouteInv
<1>1. Relied /\ RouteInv /\ [Next]_vars => RouteInv'
  BY TypedStep, AgreesStep DEF RouteInv
<1> QED BY <1>1, RouteInit, AlwaysRelied, PTL DEF Spec

(* Types, for any number of requests and clients.                          *)
THEOREM RunsTyped == Spec => []TypeOK
<1>1. Relied /\ RouteInv => TypeOK
  BY DEF Relied, RouteInv, RouteTyped, TypeOK
<1> QED BY <1>1, AlwaysRelied, AlwaysRoute, PTL

-----------------------------------------------------------------------------
(* Counting.                                                               *)
LEMMA CountJobs ==
  ASSUME NEW S \in SUBSET Jobs
  PROVE  /\ IsFiniteSet(S) /\ Cardinality(S) \in Nat
         /\ \A j : Cardinality(S \cup {j}) =
                   IF j \in S THEN Cardinality(S) ELSE Cardinality(S) + 1
         /\ \A j : Cardinality(S \ {j}) =
                   IF j \in S THEN Cardinality(S) - 1 ELSE Cardinality(S)
<1>1. IsFiniteSet(S)
  BY RunsAssumption, FS_Subset DEF RunsAssumption
<1> QED BY <1>1, FS_CardinalityType, FS_AddElement, FS_RemoveElement

PermitsOf(k) == {j \in Permits : Key[j] = k}

(* The guard counts the permits that are out, and the measurement the same *)
(* runs; the counter of errors is within the runs that ended.              *)
GuardCounts ==
  /\ guardActive = Cardinality(Permits)
  /\ guardActive <= MaxConcurrentDemos
  /\ \A k \in Keys : /\ activeByIp[k] = Cardinality(PermitsOf(k))
                      /\ activeByIp[k] <= MaxConcurrentDemosPerIp

MetricsCount ==
  /\ demoRunsActive = Cardinality(Permits)
  /\ demoRunErrors - Cardinality(Failed) \in 0..Cardinality(AnsweredByServer)

LEMMA CountsInit == Init => GuardCounts /\ MetricsCount
<1> SUFFICES ASSUME Init PROVE GuardCounts /\ MetricsCount
  OBVIOUS
<1>1. Permits = {} /\ Failed = {} /\ AnsweredByServer = {} /\ \A k : PermitsOf(k) = {}
  BY DEF Init, Permits, Failed, AnsweredByServer, PermitsOf
<1> QED BY <1>1, FS_EmptySet, RunsAssumption DEF Init, GuardCounts, MetricsCount

(* A permit goes out.                                                      *)
LEMMA EnterCounts ==
  ASSUME RouteInv, GuardCounts, NEW j \in Jobs, Enter(j), ~UnderWay(j)
  PROVE  GuardCounts' /\ Permits' = Permits \cup {j} /\ j \notin Permits
<1>1. j \notin Permits /\ Permits' = Permits \cup {j}
  BY DEF Enter, Permits, RouteInv, RouteTyped, Agrees
<1>2. Permits \in SUBSET Jobs
  BY DEF Permits
<1>3. Cardinality(Permits \cup {j}) = Cardinality(Permits) + 1
  BY <1>1, <1>2, CountJobs
<1>4. guardActive' = Cardinality(Permits') /\ guardActive' <= MaxConcurrentDemos
  <2>1. guardActive' = guardActive + 1 /\ guardActive \in Nat /\ MaxConcurrentDemos \in Nat
        /\ ~(guardActive >= MaxConcurrentDemos)
    BY RunsAssumption DEF Enter, GuardFull, RouteInv, RouteTyped, RunsAssumption
  <2> QED BY <1>1, <1>3, <2>1 DEF GuardCounts
<1>5. ASSUME NEW k \in Keys
      PROVE  /\ activeByIp'[k] = Cardinality(PermitsOf(k)')
             /\ activeByIp'[k] <= MaxConcurrentDemosPerIp
  <2>1. activeByIp[k] = Cardinality(PermitsOf(k)) /\ activeByIp[k] <= MaxConcurrentDemosPerIp
    BY DEF GuardCounts
  <2>2. /\ activeByIp' = [activeByIp EXCEPT ![Key[j]] = @ + 1]
        /\ activeByIp \in [Keys -> Nat] /\ MaxConcurrentDemosPerIp \in Nat
        /\ ~(activeByIp[Key[j]] >= MaxConcurrentDemosPerIp)
    BY RunsAssumption DEF Enter, GuardFull, RouteInv, RouteTyped, RunsAssumption
  <2>3. CASE k = Key[j]
    <3>1. PermitsOf(k)' = PermitsOf(k) \cup {j}
      BY <1>1, <2>3 DEF PermitsOf
    <3>2. PermitsOf(k) \in SUBSET Jobs /\ j \notin PermitsOf(k)
      BY <1>1, <1>2 DEF PermitsOf
    <3>3. Cardinality(PermitsOf(k) \cup {j}) = Cardinality(PermitsOf(k)) + 1
      BY <3>2, CountJobs
    <3>4. activeByIp'[k] = activeByIp[k] + 1 /\ activeByIp[k] < MaxConcurrentDemosPerIp
      BY <2>2, <2>3
    <3> QED BY <2>1, <2>2, <3>1, <3>3, <3>4
  <2>4. CASE k # Key[j]
    <3>1. PermitsOf(k)' = PermitsOf(k)
      BY <1>1, <2>4 DEF PermitsOf
    <3>2. activeByIp'[k] = activeByIp[k]
      BY <2>2, <2>4
    <3> QED BY <2>1, <3>1, <3>2
  <2> QED BY <2>3, <2>4
<1> QED BY <1>1, <1>4, <1>5 DEF GuardCounts

(* A permit comes back.                                                    *)
LEMMA ReleaseCounts ==
  ASSUME RouteInv, GuardCounts, NEW j \in Jobs, ReleasePermit(j), route[j] = "running"
  PROVE  GuardCounts' /\ Permits' = Permits \ {j}
<1>1. CASE permit[j] = "released"
  <2>1. UNCHANGED guard /\ j \notin Permits
    BY <1>1 DEF ReleasePermit, Permits
  <2> QED BY <2>1 DEF guard, GuardCounts, Permits, PermitsOf
<1>2. CASE permit[j] # "released"
  <2>1. permit[j] = "held" /\ j \in Permits /\ Permits \in SUBSET Jobs
    BY <1>2 DEF Agrees, Permits, RouteInv, RouteTyped
  <2>2. Permits' = Permits \ {j}
    BY <1>2 DEF ReleasePermit, Permits, RouteInv, RouteTyped
  <2>3. /\ guardActive' = Decrement(guardActive) /\ guardActive \in Nat
        /\ activeByIp' = [activeByIp EXCEPT ![Key[j]] = Decrement(@)]
        /\ activeByIp \in [Keys -> Nat]
        /\ MaxConcurrentDemos \in Nat /\ MaxConcurrentDemosPerIp \in Nat
    BY <1>2, RunsAssumption DEF ReleasePermit, RouteInv, RouteTyped, RunsAssumption
  <2>4. guardActive' = Cardinality(Permits') /\ guardActive' <= MaxConcurrentDemos
    <3>1. guardActive = Cardinality(Permits) /\ guardActive <= MaxConcurrentDemos
      BY DEF GuardCounts
    <3>2. Cardinality(Permits \ {j}) = Cardinality(Permits) - 1
      BY <2>1, CountJobs
    <3>3. Permits \ {j} \in SUBSET Jobs
      BY <2>1
    <3>4. Cardinality(Permits \ {j}) \in Nat
      BY <3>3, CountJobs
    <3> QED BY <2>2, <2>3, <3>1, <3>2, <3>4 DEF Decrement
  <2>5. ASSUME NEW k \in Keys
        PROVE  /\ activeByIp'[k] = Cardinality(PermitsOf(k)')
               /\ activeByIp'[k] <= MaxConcurrentDemosPerIp
    <3>1. activeByIp[k] = Cardinality(PermitsOf(k)) /\ activeByIp[k] <= MaxConcurrentDemosPerIp
      BY DEF GuardCounts
    <3>2. CASE k = Key[j]
      <4>1. PermitsOf(k)' = PermitsOf(k) \ {j}
        BY <2>2 DEF PermitsOf
      <4>2. /\ PermitsOf(k) \in SUBSET Jobs /\ j \in PermitsOf(k)
            /\ PermitsOf(k) \ {j} \in SUBSET Jobs
        BY <2>1, <3>2 DEF PermitsOf
      <4>3. /\ Cardinality(PermitsOf(k) \ {j}) = Cardinality(PermitsOf(k)) - 1
            /\ Cardinality(PermitsOf(k) \ {j}) \in Nat
        BY <4>2, CountJobs
      <4>4. activeByIp'[k] = Decrement(activeByIp[k]) /\ activeByIp[k] \in Nat
        BY <2>3, <3>2
      <4> QED BY <2>3, <3>1, <4>1, <4>3, <4>4 DEF Decrement
    <3>3. CASE k # Key[j]
      <4>1. PermitsOf(k)' = PermitsOf(k)
        BY <2>2, <3>3 DEF PermitsOf
      <4>2. activeByIp'[k] = activeByIp[k]
        BY <2>3, <3>3
      <4> QED BY <3>1, <4>1, <4>2
    <3> QED BY <3>2, <3>3
  <2> QED BY <2>2, <2>4, <2>5 DEF GuardCounts
<1> QED BY <1>1, <1>2

(* finish() of the measurement, beside the release of the permit.          *)
LEMMA FinishCounts ==
  ASSUME RouteInv, MetricsCount, NEW j \in Jobs, NEW error \in BOOLEAN,
         FinishMeasurement(j, error), Permits' = Permits \ {j}, route[j] = "running"
  PROVE  /\ demoRunsActive' = Cardinality(Permits')
         /\ demoRunErrors' = IF UnderWay(j) /\ error THEN demoRunErrors + 1 ELSE demoRunErrors
<1>1. Permits \in SUBSET Jobs /\ Permits \ {j} \in SUBSET Jobs /\ (j \in Permits <=> UnderWay(j))
  BY DEF Permits, RouteInv, Agrees
<1>2. CASE UnderWay(j)
  <2>1. /\ demoRunsActive' = Decrement(demoRunsActive) /\ demoRunsActive \in Nat
        /\ demoRunErrors' = demoRunErrors + (IF error THEN 1 ELSE 0)
        /\ demoRunErrors \in Nat
    BY <1>2 DEF FinishMeasurement, RouteInv, RouteTyped, Agrees
  <2>2. demoRunsActive = Cardinality(Permits)
    BY DEF MetricsCount
  <2>3. Cardinality(Permits \ {j}) = Cardinality(Permits) - 1
    BY <1>1, <1>2, CountJobs
  <2>4. Cardinality(Permits \ {j}) \in Nat
    BY <1>1, CountJobs
  <2> QED BY <1>2, <2>1, <2>2, <2>3, <2>4 DEF Decrement
<1>3. CASE ~UnderWay(j)
  <2>1. UNCHANGED metrics
    BY <1>3 DEF FinishMeasurement, RouteInv, RouteTyped, Agrees
  <2>2. Permits' = Permits
    BY <1>1, <1>3
  <2> QED BY <1>3, <2>1, <2>2 DEF metrics, MetricsCount
<1> QED BY <1>2, <1>3

(* Steps that end no run.                                                  *)
LEMMA NoEndKeepsFailed ==
  ASSUME RouteInv, UNCHANGED cancelled,
         \A k \in Jobs : /\ route'[k] = "finished" <=> route[k] = "finished"
                         /\ route[k] = "finished" => Moves(k)
  PROVE  Failed' = Failed /\ AnsweredByServer' = AnsweredByServer
<1>1. \A k \in Isolated : k \in Jobs /\ (route[k] = "finished" => outcome'[k] = outcome[k])
  BY RunsAssumption DEF RunsAssumption, RouteInv, Agrees, Moves
<1> QED BY <1>1 DEF Failed, AnsweredByServer

(* The error counter over one more failure, or one more answer.            *)
LEMMA ErrorsAdd ==
  ASSUME RouteInv, MetricsCount, NEW j \in Jobs,
         NEW f \in BOOLEAN, NEW a \in BOOLEAN,
         Failed' = IF f THEN Failed \cup {j} ELSE Failed,
         f => j \notin Failed,
         AnsweredByServer' = IF a THEN AnsweredByServer \cup {j} ELSE AnsweredByServer,
         a => j \notin AnsweredByServer,
         NEW more \in {0, 1}, demoRunErrors' = demoRunErrors + more,
         f => more = 1, more = 1 => f \/ a, ~(f /\ a)
  PROVE  demoRunErrors' - Cardinality(Failed') \in 0..Cardinality(AnsweredByServer')
<1>1. Failed \in SUBSET Jobs /\ AnsweredByServer \in SUBSET Jobs
  BY DEF Failed, AnsweredByServer
<1>2. Cardinality(Failed) \in Nat /\ Cardinality(AnsweredByServer) \in Nat /\ demoRunErrors \in Nat
  BY <1>1, CountJobs DEF RouteInv, RouteTyped
<1>3. Cardinality(Failed') = IF f THEN Cardinality(Failed) + 1 ELSE Cardinality(Failed)
  <2>1. CASE f
    <3>1. Cardinality(Failed \cup {j}) = Cardinality(Failed) + 1
      BY <1>1, <2>1, CountJobs
    <3> QED BY <2>1, <3>1
  <2>2. CASE ~f
    BY <2>2
  <2> QED BY <2>1, <2>2
<1>4. Cardinality(AnsweredByServer') =
        IF a THEN Cardinality(AnsweredByServer) + 1 ELSE Cardinality(AnsweredByServer)
  <2>1. CASE a
    <3>1. Cardinality(AnsweredByServer \cup {j}) = Cardinality(AnsweredByServer) + 1
      BY <1>1, <2>1, CountJobs
    <3> QED BY <2>1, <3>1
  <2>2. CASE ~a
    BY <2>2
  <2> QED BY <2>1, <2>2
<1> QED BY <1>2, <1>3, <1>4 DEF MetricsCount

(* Steps that leave guard and metrics alone.                               *)
LEMMA QuietCounts ==
  ASSUME RouteInv, GuardCounts, MetricsCount, UNCHANGED <<guard, metrics, cancelled>>,
         \A k \in Jobs : /\ route'[k] = "finished" <=> route[k] = "finished"
                         /\ route[k] = "finished" => Moves(k)
  PROVE  (GuardCounts /\ MetricsCount)'
<1>1. Failed' = Failed /\ AnsweredByServer' = AnsweredByServer
  BY NoEndKeepsFailed
<1>2. Permits' = Permits /\ \A k : PermitsOf(k)' = PermitsOf(k)
  BY DEF Permits, PermitsOf, guard
<1> QED BY <1>1, <1>2 DEF GuardCounts, MetricsCount, guard, metrics

LEMMA AdmitCounts ==
  ASSUME Relied, RouteInv, GuardCounts, MetricsCount, NEW j \in Jobs, PostAdmitted(j)
  PROVE  (GuardCounts /\ MetricsCount)'
<1>1. route[j] = "new" /\ route' = [route EXCEPT ![j] = "running"] /\ ~UnderWay(j)
  BY DEF PostAdmitted
<1>2. GuardCounts' /\ Permits' = Permits \cup {j} /\ j \notin Permits
  BY <1>1, EnterCounts DEF PostAdmitted
<1>3. \A k \in Jobs \ {j} : Moves(k)
  BY RunMoves DEF PostAdmitted, executor, Moves
<1>4. Failed' = Failed /\ AnsweredByServer' = AnsweredByServer
  BY <1>1, <1>3, NoEndKeepsFailed DEF PostAdmitted, RouteInv, RouteTyped
<1>5. Permits \in SUBSET Jobs
  BY DEF Permits
<1>6. Cardinality(Permits \cup {j}) = Cardinality(Permits) + 1
  BY <1>2, <1>5, CountJobs
<1>7. demoRunsActive' = demoRunsActive + 1 /\ demoRunErrors' = demoRunErrors
  BY DEF PostAdmitted, BeginMeasurement
<1> QED BY <1>2, <1>4, <1>6, <1>7 DEF MetricsCount

LEMMA EndCounts ==
  ASSUME Relied, RouteInv, GuardCounts, MetricsCount, NEW j \in Jobs,
         IsolatedRunEnds(j) \/ ServerRunEnds(j)
  PROVE  (GuardCounts /\ MetricsCount)'
<1> USE DEF RouteInv, RouteTyped
<1>1. route[j] = "running" /\ UNCHANGED <<executor, cancelled>>
      /\ route' = [route EXCEPT ![j] = "finished"]
  BY DEF IsolatedRunEnds, ServerRunEnds, Continuing, EndRun, Agrees
<1>2. PICK error \in BOOLEAN :
        /\ EndRun(j, error)
        /\ j \in Isolated => error = (outcome[j] # "ok")
  BY DEF IsolatedRunEnds, ServerRunEnds, Continuing, Agrees
<1>3. GuardCounts' /\ Permits' = Permits \ {j}
  BY <1>1, <1>2, ReleaseCounts DEF EndRun
<1>4. /\ demoRunsActive' = Cardinality(Permits')
      /\ demoRunErrors' = IF UnderWay(j) /\ error THEN demoRunErrors + 1 ELSE demoRunErrors
  BY <1>1, <1>2, <1>3, FinishCounts DEF EndRun
<1>5. PICK f \in BOOLEAN : f <=> (UnderWay(j) /\ j \in Isolated /\ error)
  OBVIOUS
<1>6. PICK a \in BOOLEAN : a <=> (UnderWay(j) /\ j \notin Isolated)
  OBVIOUS
<1>7. PICK more \in {0, 1} : more = IF UnderWay(j) /\ error THEN 1 ELSE 0
  OBVIOUS
<1>8. Failed' = IF f THEN Failed \cup {j} ELSE Failed
  BY <1>1, <1>2, <1>5 DEF Failed, executor
<1>9. AnsweredByServer' = IF a THEN AnsweredByServer \cup {j} ELSE AnsweredByServer
  BY <1>1, <1>6 DEF AnsweredByServer
<1>10. (f => j \notin Failed) /\ (a => j \notin AnsweredByServer)
  BY <1>1, <1>5, <1>6 DEF Failed, AnsweredByServer
<1>11. demoRunErrors' = demoRunErrors + more
  BY <1>4, <1>7
<1>12. (f => more = 1) /\ (more = 1 => f \/ a) /\ ~(f /\ a)
  <2>1. CASE UnderWay(j) /\ error
    BY <1>5, <1>6, <1>7, <2>1
  <2>2. CASE ~(UnderWay(j) /\ error)
    BY <1>5, <1>6, <1>7, <2>2
  <2> QED BY <2>1, <2>2
<1> HIDE DEF RouteInv, RouteTyped
<1>13. demoRunErrors' - Cardinality(Failed') \in 0..Cardinality(AnsweredByServer')
  BY <1>8, <1>9, <1>10, <1>11, <1>12, ErrorsAdd
<1> QED BY <1>3, <1>4, <1>13 DEF MetricsCount

LEMMA CancelCounts ==
  ASSUME Relied, RouteInv, GuardCounts, MetricsCount, NEW j \in Jobs, StreamCancelled(j)
  PROVE  (GuardCounts /\ MetricsCount)'
<1> USE DEF RouteInv, RouteTyped
<1>1. UnderWay(j) /\ UNCHANGED route /\ cancelled' = [cancelled EXCEPT ![j] = TRUE]
  BY DEF StreamCancelled
<1>2. GuardCounts' /\ Permits' = Permits \ {j}
  BY <1>1, ReleaseCounts DEF StreamCancelled
<1>3. /\ demoRunsActive' = Cardinality(Permits')
      /\ demoRunErrors' = demoRunErrors + 1
  BY <1>1, <1>2, FinishCounts DEF StreamCancelled
<1>4. \A k \in Jobs : Moves(k)
  BY AbortMoves DEF StreamCancelled
<1>5. Failed' = Failed \cup {j} /\ j \notin Failed
  <2>1. \A k \in Isolated : k \in Jobs /\ (route[k] = "finished" => outcome'[k] = outcome[k])
    BY <1>4, RunsAssumption DEF RunsAssumption, Agrees, Moves
  <2> QED BY <1>1, <2>1 DEF Failed
<1>6. AnsweredByServer' = AnsweredByServer
  BY <1>1 DEF AnsweredByServer
<1>7. demoRunErrors' - Cardinality(Failed') \in 0..Cardinality(AnsweredByServer')
  BY <1>3, <1>5, <1>6, ErrorsAdd
<1> QED BY <1>2, <1>3, <1>7 DEF MetricsCount

LEMMA CountsStep ==
  Relied /\ RouteInv /\ GuardCounts /\ MetricsCount /\ [Next]_vars
    => (GuardCounts /\ MetricsCount)'
<1> SUFFICES ASSUME Relied, RouteInv, GuardCounts, MetricsCount, [Next]_vars
             PROVE  (GuardCounts /\ MetricsCount)'
  OBVIOUS
<1>1. CASE UNCHANGED vars
  BY <1>1, QuietCounts DEF vars, executor, Moves
<1>2. CASE ExecutorReaction \/ \E j \in Jobs : ExecutorCallback(j) \/ ExecutorChild(j)
  BY <1>2, ReactionMoves, CallbackMoves, ChildMoves, QuietCounts
     DEF ExecutorReaction, ExecutorCallback, ExecutorChild
<1>3. ASSUME NEW j \in Jobs, PostRefused(j) PROVE (GuardCounts /\ MetricsCount)'
  BY <1>3, QuietCounts DEF PostRefused, executor, Moves, RouteInv, RouteTyped
<1>4. ASSUME NEW j \in Jobs, RequestAborted(j) PROVE (GuardCounts /\ MetricsCount)'
  BY <1>4, AbortMoves, QuietCounts DEF RequestAborted
<1> QED BY <1>1, <1>2, <1>3, <1>4, AdmitCounts, EndCounts, CancelCounts DEF Next, RouteStep

(* Every permit and every measurement is returned exactly once, whatever   *)
(* the order of the end of a run, cancel() and the abort of its request.   *)
THEOREM EverythingReturned == Spec => []ReturnedExactlyOnce
<1>1. Spec => [](GuardCounts /\ MetricsCount)
  BY CountsInit, CountsStep, AlwaysRelied, AlwaysRoute, PTL DEF Spec
<1>2. RouteInv /\ GuardCounts /\ MetricsCount => ReturnedExactlyOnce
  <2> SUFFICES ASSUME RouteInv, GuardCounts, MetricsCount PROVE ReturnedExactlyOnce
    OBVIOUS
  <2>1. Permits = {j \in Jobs : route[j] = "running" /\ ~cancelled[j]}
    BY DEF RouteInv, Agrees, Permits
  <2>2. PermitAccounting
    BY DEF PermitAccounting, GuardCounts, PermitsOf, RouteInv, Agrees
  <2>3. MeasurementAccounting
    BY <2>1 DEF MeasurementAccounting, MetricsCount
  <2> QED BY <2>2, <2>3 DEF ReturnedExactlyOnce
<1> QED BY <1>1, <1>2, AlwaysRoute, PTL

-----------------------------------------------------------------------------
(* When the handler is idle what the executor holds is within the permits. *)
LEMMA IdleFits ==
  ASSUME Relied, RouteInv, GuardCounts, Idle
  PROVE  active + Len(queue) <= guardActive
<1>1. Held \cup Waits \subseteq Permits
  BY DEF Held, Waits, Permits, Idle, Executor!Busy, RouteInv, Agrees
<1>2. Held \in SUBSET Jobs /\ Waits \in SUBSET Jobs /\ Permits \in SUBSET Jobs
  BY DEF Held, Waits, Permits
<1>3. Held \cap Waits = {}
  BY DEF Held, Waits
<1>4. IsFiniteSet(Held) /\ IsFiniteSet(Waits) /\ IsFiniteSet(Permits)
      /\ Cardinality(Held) \in Nat /\ Cardinality(Waits) \in Nat
  BY <1>2, CountJobs
<1>5. Cardinality(Held \cup Waits) = Cardinality(Held) + Cardinality(Waits)
  BY <1>3, <1>4, FS_Union, FS_EmptySet
<1>6. Cardinality(Held \cup Waits) <= Cardinality(Permits)
  BY <1>1, <1>4, FS_Subset
<1> QED BY <1>4, <1>5, <1>6 DEF Relied, GuardCounts

(* A request that the guard admits is never refused by the executor as     *)
(* full, if its slots and its queue are no fewer than the guard's permits. *)
THEOREM AdmittedRunsFit ==
  ASSUME MaxConcurrentDemos <= MaxConcurrent + MaxQueue
  PROVE  Spec => []AdmittedNeverRefused
<1>1. Init => AdmittedNeverRefused
  BY DEF Init, Executor!Init, AdmittedNeverRefused
<1>2. ASSUME Relied, RouteInv, GuardCounts, AdmittedNeverRefused, [Next]_vars, NEW k \in Jobs
      PROVE  outcome'[k] # "full"
  <2>1. outcome[k] # "full"
    BY <1>2 DEF AdmittedNeverRefused
  <2>2. CASE Moves(k)
    BY <2>1, <2>2 DEF Moves
  <2>3. CASE PostAdmitted(k) /\ Executor!Run(k)
    <3>1. Idle /\ guardActive < MaxConcurrentDemos
      BY <1>2, <2>3, RunsAssumption
         DEF PostAdmitted, Enter, GuardFull, RouteInv, RouteTyped, RunsAssumption
    <3>2. active + Len(queue) <= guardActive
      BY <1>2, <3>1, IdleFits
    <3>3. active \in Nat /\ Len(queue) \in Nat
      BY <1>2, LenProperties DEF Relied, Executor!TypeOK
    <3>4. ~Executor!Saturated
      BY <1>2, <3>1, <3>2, <3>3, RunsAssumption
         DEF Executor!Saturated, RunsAssumption, RouteInv, RouteTyped
    <3> QED BY <1>2, <2>3, <3>4, RunMoves
  <2>4. Moves(k) \/ (PostAdmitted(k) /\ Executor!Run(k))
    <3>1. CASE UNCHANGED executor
      BY <3>1 DEF executor, Moves
    <3>2. CASE ExecutorReaction \/ \E j \in Jobs : ExecutorCallback(j) \/ ExecutorChild(j)
      BY <1>2, <3>2, ReactionMoves, CallbackMoves, ChildMoves
         DEF ExecutorReaction, ExecutorCallback, ExecutorChild
    <3>3. ASSUME NEW j \in Jobs, RequestAborted(j) \/ StreamCancelled(j) PROVE Moves(k)
      BY <1>2, <3>3, AbortMoves DEF RequestAborted, StreamCancelled
    <3>4. ASSUME NEW j \in Jobs, PostAdmitted(j)
          PROVE  UNCHANGED executor \/ Moves(k) \/ (PostAdmitted(k) /\ Executor!Run(k))
      BY <1>2, <3>4, RunMoves DEF PostAdmitted
    <3>5. ASSUME NEW j \in Jobs, PostRefused(j) \/ IsolatedRunEnds(j) \/ ServerRunEnds(j)
          PROVE  UNCHANGED executor
      BY <3>5 DEF PostRefused, IsolatedRunEnds, ServerRunEnds
    <3>6. CASE UNCHANGED vars
      BY <3>1, <3>6 DEF vars
    <3> QED BY <1>2, <3>1, <3>2, <3>3, <3>4, <3>5, <3>6 DEF Next, RouteStep
  <2> QED BY <2>2, <2>3, <2>4
<1>3. Relied /\ RouteInv /\ GuardCounts /\ AdmittedNeverRefused /\ [Next]_vars
        => AdmittedNeverRefused'
  <2> SUFFICES ASSUME Relied, RouteInv, GuardCounts, AdmittedNeverRefused, [Next]_vars
               PROVE  \A k \in Jobs : outcome'[k] # "full"
    BY DEF AdmittedNeverRefused
  <2> QED BY <1>2
<1>4. Spec => [](GuardCounts /\ MetricsCount)
  BY CountsInit, CountsStep, AlwaysRelied, AlwaysRoute, PTL DEF Spec
<1> QED BY <1>1, <1>3, <1>4, AlwaysRelied, AlwaysRoute, PTL DEF Spec

(* A cancelled isolated run neither waits nor holds a slot once the        *)
(* handler is idle, and its stream has ended.                              *)
THEOREM CancelledRunsEnd == Spec => []CancelledRunGone
<1>1. Relied /\ RouteInv => CancelledRunGone
  <2> SUFFICES ASSUME Relied, RouteInv, Idle, NEW j \in Isolated, cancelled[j]
               PROVE  phase[j] = "over" /\ route[j] = "finished"
    BY DEF CancelledRunGone
  <2>1. j \in Jobs
    BY RunsAssumption DEF RunsAssumption
  <2>2. phase[j] = "over"
    BY <2>1 DEF Relied, Executor!TypeOK, Executor!Phases, RouteInv, RouteTyped, Agrees, Idle,
       Executor!Busy
  <2> QED BY <2>1, <2>2 DEF RouteInv, RouteTyped, Agrees, Idle, Continuing
<1> QED BY <1>1, AlwaysRelied, AlwaysRoute, PTL
=============================================================================
