------------------------ MODULE DemoExecutorRefinement ------------------------
(***************************************************************************)
(* The executor implements JobService for any number of calls and any      *)
(* limits; and what its callers are told about a run agrees with what      *)
(* became of its child process.                                            *)
(***************************************************************************)
EXTENDS DemoExecutorProofs

-----------------------------------------------------------------------------
(* A call has an outcome once it is settled, never before; it has no       *)
(* process before it runs; success means that its child reported the end   *)
(* of the demo and has exited; a process that still runs is known to the   *)
(* exit hook and, unless its run is under way, is being killed.            *)
Consistent(j) ==
  /\ outcome[j] = "none" <=> phase[j] \in {"new", "queued", "running"}
  /\ phase[j] \in {"new", "queued"} => child[j] = "none"
  /\ outcome[j] = "ok" => receivedDone[j] /\ child[j] = "reaped"
  /\ child[j] \in Live => (phase[j] # "running" => killed[j]) /\ j \in activeChildren

RInv == IInv /\ \A j \in Jobs : Consistent(j)

LEMMA ConsistentInit == Init => \A j \in Jobs : Consistent(j)
  BY DEF Init, Consistent, Live

(* Steps of the queue and of the promises.                                 *)
LEMMA ControlKeepsConsistent ==
  ASSUME RInv, NEW k \in Jobs,
         \/ DrainOne \/ DrainEnds
         \/ \E j \in Jobs : Run(j) \/ SettleCaller(j) \/ FreeSlot(j)
  PROVE  Consistent(k)'
<1> USE DEF RInv, IInv, TypeOK, Consistent, control
<1>1. CASE DrainOne
  <2> DEFINE j == Head(queue)
  <2>1. queue # <<>> /\ queue \in Seq(Jobs) /\ Len(queue) \in Nat
    BY <1>1, LenProperties DEF DrainOne, MayDrain
  <2>2. j \in Jobs /\ j = queue[1] /\ 1 \in 1..Len(queue)
    BY <2>1, HeadTailProperties
  <2>3. phase[j] = "queued" /\ ~aborted[j]
    BY <2>2 DEF Waiting, Queued, AbortsSeen
  <2>4. Fork(j) /\ UNCHANGED <<receivedDone, killed>>
    BY <1>1, <2>3 DEF DrainOne
  <2> HIDE DEF j
  <2> QED BY <2>2, <2>3, <2>4 DEF Fork, Live
<1>2. CASE DrainEnds
  BY <1>2 DEF DrainEnds
<1>3. ASSUME NEW j \in Jobs, RunRefused(j) PROVE Consistent(k)'
  BY <1>3 DEF RunRefused, Live
<1>4. ASSUME NEW j \in Jobs, RunAccepted(j) PROVE Consistent(k)'
  BY <1>4 DEF RunAccepted, Live
<1>5. ASSUME NEW j \in Jobs, SettleCaller(j) PROVE Consistent(k)'
  BY <1>5 DEF SettleCaller
<1>6. ASSUME NEW j \in Jobs, FreeSlot(j) PROVE Consistent(k)'
  BY <1>6 DEF FreeSlot
<1> QED BY <1>1, <1>2, <1>3, <1>4, <1>5, <1>6 DEF Run

(* finish() with anything but success.                                     *)
LEMMA FinishKeepsConsistent ==
  ASSUME RInv, NEW k \in Jobs, NEW j \in Jobs, phase[j] = "running",
         NEW result \in {"failed", "aborted"}, Finish(j, result),
         UNCHANGED <<receivedDone, activeChildren, child>>
  PROVE  Consistent(k)'
  BY DEF RInv, IInv, TypeOK, Consistent, Finish

LEMMA AbortKeepsConsistent ==
  ASSUME RInv, NEW k \in Jobs, NEW j \in Jobs, Abort(j)
  PROVE  Consistent(k)'
<1>1. CASE AbortQueued(j)
  BY <1>1 DEF Abort, AbortQueued, RInv, IInv, TypeOK, Consistent, Live
<1>2. CASE AbortRunning(j)
  BY <1>2, FinishKeepsConsistent DEF Abort, AbortRunning
<1>3. CASE AbortIgnored(j)
  BY <1>3 DEF Abort, AbortIgnored, RInv, Consistent
<1> QED BY <1>1, <1>2, <1>3 DEF Abort

LEMMA CallbackKeepsConsistent ==
  ASSUME RInv, NEW k \in Jobs, NEW j \in Jobs, Callback(j)
  PROVE  Consistent(k)'
<1>1. CASE OnTimeout(j) \/ OnStdioLimit(j) \/ OnSpawnError(j)
  BY <1>1, FinishKeepsConsistent DEF OnTimeout, OnStdioLimit, OnSpawnError
<1>2. CASE OnFailure(j)
  BY <1>2, FinishKeepsConsistent DEF OnFailure, Take
<1>3. CASE OnEvent(j)
  <2>1. CASE Finish(j, "failed")
    BY <1>3, <2>1, FinishKeepsConsistent DEF OnEvent, Take
  <2>2. CASE UNCHANGED <<phase, outcome, timer, killed>>
    BY <1>3, <2>2 DEF OnEvent, Take, RInv, Consistent
  <2> QED BY <1>3, <2>1, <2>2 DEF OnEvent
<1>4. CASE OnMessageIgnored(j) \/ OnReady(j)
  BY <1>4 DEF OnMessageIgnored, OnReady, Take, RInv, Consistent
<1>5. CASE OnDone(j)
  BY <1>5 DEF OnDone, Take, RInv, IInv, TypeOK, Consistent
<1>6. CASE OnExit(j)
  BY <1>6 DEF OnExit, Finish, RInv, IInv, TypeOK, Consistent, Live
<1> QED BY <1>1, <1>2, <1>3, <1>4, <1>5, <1>6 DEF Callback, OnMessage

LEMMA ChildKeepsConsistent ==
  ASSUME RInv, NEW k \in Jobs, NEW j \in Jobs, ChildStep(j)
  PROVE  Consistent(k)'
  BY DEF ChildStep, ChildReady, ChildEvent, ChildDone, ChildError, ChildExit, ChildDies,
         RInv, IInv, TypeOK, Consistent, Live, host

LEMMA RInvStep == RInv /\ [Next]_vars => RInv'
<1> SUFFICES ASSUME RInv, [Next]_vars PROVE RInv'
  OBVIOUS
<1>1. IInv'
  BY InvariantStep DEF RInv
<1>2. ASSUME NEW k \in Jobs PROVE Consistent(k)'
  <2>1. CASE UNCHANGED vars
    BY <2>1 DEF RInv, Consistent, vars
  <2>2. CASE Next
    BY <2>2, ControlKeepsConsistent, AbortKeepsConsistent, CallbackKeepsConsistent,
       ChildKeepsConsistent DEF Next, Internal, Reaction
  <2> QED BY <2>1, <2>2
<1> QED BY <1>1, <1>2 DEF RInv

LEMMA RInvAlways == Spec => []RInv
<1>1. Init => RInv
  BY InvariantInit, ConsistentInit DEF RInv
<1> QED BY <1>1, RInvStep, PTL DEF Spec

(* A run is reported as successful only after its child said "done" and    *)
(* exited with code 0.                                                     *)
THEOREM SuccessAfterExit == Spec => []SuccessNeedsExit
<1>1. RInv => SuccessNeedsExit
  BY DEF RInv, Consistent, SuccessNeedsExit
<1> QED BY <1>1, RInvAlways, PTL

(* Every process that still runs is under way or being killed, and the     *)
(* exit hook of the server knows it.                                       *)
THEOREM NoneOrphaned == Spec => []NoOrphan
<1>1. RInv => NoOrphan
  BY DEF RInv, Consistent, NoOrphan
<1> QED BY <1>1, RInvAlways, PTL

(* An outcome is final, and after it no event of the child is forwarded.   *)
THEOREM OutcomesFinal == Spec => FinalOutcome
<1>1. ASSUME RInv, [Next]_vars, NEW j \in Jobs, outcome[j] # "none"
      PROVE  outcome'[j] = outcome[j] /\ events'[j] = events[j]
  <2> phase[j] \notin {"new", "queued", "running"}
    BY <1>1 DEF RInv, Consistent
  <2> USE DEF RInv, IInv, TypeOK, control
  <2>1. CASE UNCHANGED vars
    BY <2>1 DEF vars
  <2>2. CASE DrainOne
    <3>1. queue # <<>> /\ queue \in Seq(Jobs) /\ Len(queue) \in Nat
      BY <1>1, <2>2, LenProperties DEF DrainOne, MayDrain
    <3>2. Head(queue) = queue[1] /\ 1 \in 1..Len(queue)
      BY <3>1, HeadTailProperties
    <3>3. Head(queue) # j
      BY <1>1, <3>2 DEF Waiting, Queued
    <3> QED BY <1>1, <2>2, <3>3 DEF DrainOne, Fork
  <2>3. CASE DrainEnds
    BY <2>3 DEF DrainEnds
  <2>4. ASSUME NEW k \in Jobs, Run(k) \/ SettleCaller(k) \/ FreeSlot(k)
        PROVE  outcome'[j] = outcome[j] /\ events'[j] = events[j]
    BY <1>1, <2>4 DEF Run, RunRefused, RunAccepted, SettleCaller, FreeSlot
  <2>5. ASSUME NEW k \in Jobs, Abort(k)
        PROVE  outcome'[j] = outcome[j] /\ events'[j] = events[j]
    BY <1>1, <2>5 DEF Abort, AbortQueued, AbortRunning, AbortIgnored, Finish
  <2>6. ASSUME NEW k \in Jobs, Callback(k)
        PROVE  outcome'[j] = outcome[j] /\ events'[j] = events[j]
    BY <1>1, <2>6 DEF Callback, OnTimeout, OnStdioLimit, OnSpawnError, OnMessage,
       OnMessageIgnored, OnEvent, OnDone, OnReady, OnFailure, OnExit, Finish
  <2>7. ASSUME NEW k \in Jobs, ChildStep(k)
        PROVE  outcome'[j] = outcome[j] /\ events'[j] = events[j]
    BY <2>7 DEF ChildStep, ChildReady, ChildEvent, ChildDone, ChildError, ChildExit,
       ChildDies, host
  <2> QED BY <1>1, <2>1, <2>2, <2>3, <2>4, <2>5, <2>6, <2>7 DEF Next, Internal, Reaction
<1>2. RInv /\ [Next]_vars =>
        [\A j \in Jobs : outcome[j] # "none" =>
           outcome'[j] = outcome[j] /\ events'[j] = events[j]]_vars
  BY <1>1
<1> QED BY <1>2, RInvAlways, PTL DEF Spec, FinalOutcome

-----------------------------------------------------------------------------
(* The report of a run that is about to succeed is known or on its way.    *)
Reported(j) ==
  child[j] \in {"done", "exited"} /\ phase[j] = "running" =>
    receivedDone[j] \/ \E i \in 1..Len(chan[j]) : chan[j][i] = "done"

LEMMA SendAppends ==
  ASSUME TypeOK, NEW j \in Jobs, NEW m \in Messages, Send(j, m), phase[j] = "running"
  PROVE  \E i \in 1..Len(chan'[j]) : chan'[j][i] = m
<1>1. chan'[j] = Append(chan[j], m) /\ chan[j] \in Seq(Messages)
  BY DEF Send, TypeOK
<1>2. /\ Len(chan'[j]) = Len(chan[j]) + 1 /\ Len(chan[j]) \in Nat
      /\ chan'[j][Len(chan[j]) + 1] = m
  BY <1>1, AppendProperties, LenProperties
<1> QED BY <1>2

LEMMA TakeKeepsRest ==
  ASSUME TypeOK, NEW j \in Jobs, Take(j), Head(chan[j]) # "done",
         NEW i \in 1..Len(chan[j]), chan[j][i] = "done"
  PROVE  \E k \in 1..Len(chan'[j]) : chan'[j][k] = "done"
<1>1. chan[j] \in Seq(Messages) /\ chan[j] # <<>> /\ chan'[j] = Tail(chan[j])
  BY DEF Take, TypeOK
<1>2. /\ Head(chan[j]) = chan[j][1] /\ Len(chan[j]) \in Nat
      /\ Len(chan'[j]) = Len(chan[j]) - 1
      /\ \A k \in 1..Len(chan'[j]) : chan'[j][k] = chan[j][k + 1]
  BY <1>1, HeadTailProperties, LenProperties
<1>3. i # 1
  BY <1>2
<1>4. i - 1 \in 1..Len(chan'[j]) /\ (i - 1) + 1 = i
  BY <1>2, <1>3
<1> QED BY <1>2, <1>4

LEMMA ReportedStep ==
  ASSUME RInv, \A j \in Jobs : Reported(j), [Next]_vars, NEW k \in Jobs
  PROVE  Reported(k)'
<1> USE DEF RInv, IInv, TypeOK, control
<1>1. CASE UNCHANGED vars
  BY <1>1 DEF vars, Reported
<1>2. CASE DrainOne
  <2> DEFINE j == Head(queue)
  <2>1. queue # <<>> /\ queue \in Seq(Jobs) /\ Len(queue) \in Nat
    BY <1>2, LenProperties DEF DrainOne, MayDrain
  <2>2. j \in Jobs /\ j = queue[1] /\ 1 \in 1..Len(queue)
    BY <2>1, HeadTailProperties
  <2>3. phase[j] = "queued" /\ ~aborted[j]
    BY <2>2 DEF Waiting, Queued, AbortsSeen
  <2>4. child[j] = "none" /\ Fork(j) /\ UNCHANGED <<receivedDone, chan>>
    BY <1>2, <2>2, <2>3 DEF DrainOne, Consistent
  <2> HIDE DEF j
  <2> QED BY <2>2, <2>4 DEF Fork, Reported
<1>3. CASE DrainEnds
  BY <1>3 DEF DrainEnds, Reported
<1>4. ASSUME NEW j \in Jobs, Run(j) \/ SettleCaller(j) \/ FreeSlot(j) \/ Abort(j)
      PROVE  Reported(k)'
  BY <1>4 DEF Run, RunRefused, RunAccepted, SettleCaller, FreeSlot, Abort, AbortQueued,
     AbortRunning, AbortIgnored, Finish, Reported
<1>5. ASSUME NEW j \in Jobs, OnTimeout(j) \/ OnStdioLimit(j) \/ OnSpawnError(j) \/ OnExit(j)
      PROVE  Reported(k)'
  BY <1>5 DEF OnTimeout, OnStdioLimit, OnSpawnError, OnExit, Finish, Reported
<1>6. ASSUME NEW j \in Jobs, OnMessage(j) PROVE Reported(k)'
  <2>1. Take(j) /\ UNCHANGED child
    BY <1>6 DEF OnMessage, OnMessageIgnored, OnEvent, OnDone, OnReady, OnFailure, Take
  <2>2. CASE k # j
    BY <1>6, <2>1, <2>2 DEF OnMessage, OnMessageIgnored, OnEvent, OnDone, OnReady,
       OnFailure, Take, Finish, Reported
  <2>3. CASE k = j /\ OnDone(j)
    BY <2>3 DEF OnDone, Reported
  <2>4. CASE k = j /\ ~OnDone(j)
    <3>1. UNCHANGED receivedDone /\ (phase'[j] = "running" => phase[j] = "running")
      BY <1>6, <2>4 DEF OnMessage, OnMessageIgnored, OnEvent, OnReady, OnFailure, Finish
    <3>2. phase[j] = "running" => Head(chan[j]) # "done"
      BY <1>6, <2>4 DEF OnMessage, OnMessageIgnored, OnEvent, OnReady, OnFailure
    <3> QED BY <2>1, <2>4, <3>1, <3>2, TakeKeepsRest DEF Reported
  <2> QED BY <2>2, <2>3, <2>4
<1>7. ASSUME NEW j \in Jobs, ChildStep(j) PROVE Reported(k)'
  <2>1. CASE ChildDone(j) /\ k = j
    BY <2>1, SendAppends DEF ChildDone, Reported, host, Messages
  <2>2. CASE ChildDone(j) /\ k # j
    BY <2>2 DEF ChildDone, Send, Reported, host
  <2>3. CASE ChildReady(j) \/ ChildEvent(j) \/ ChildError(j) \/ ChildExit(j) \/ ChildDies(j)
    BY <2>3 DEF ChildReady, ChildEvent, ChildError, ChildExit, ChildDies, Send, Reported, host
  <2> QED BY <1>7, <2>1, <2>2, <2>3 DEF ChildStep
<1> QED BY <1>1, <1>2, <1>3, <1>4, <1>5, <1>6, <1>7
        DEF Next, Internal, Reaction, Callback

(* Where 'exit' is emitted after the channel is drained, a child that      *)
(* finished its demo and exited with code 0 makes its run a success.       *)
THEOREM CompletedRunsSucceed ==
  ASSUME DrainBeforeExit PROVE Spec => CompletedRunSucceeds
<1> DEFINE SInv == RInv /\ \A j \in Jobs : Reported(j)
<1>1. Init => SInv
  BY InvariantInit, ConsistentInit DEF RInv, Init, Reported
<1>2. SInv /\ [Next]_vars => SInv'
  BY RInvStep, ReportedStep
<1>3. ASSUME SInv, [Next]_vars, NEW j \in Jobs,
             child[j] = "exited", child'[j] = "reaped", phase[j] = "running"
      PROVE  outcome'[j] = "ok"
  <2> USE <1>3 DEF RInv, IInv, TypeOK
  <2>1. OnExit(j)
    <3>1. ~UNCHANGED vars /\ ~DrainEnds
      BY DEF vars, DrainEnds
    <3>2. ~DrainOne
      <4>1. CASE DrainOne
        <5>1. queue # <<>> /\ queue \in Seq(Jobs)
          BY <4>1 DEF DrainOne, MayDrain
        <5>2. Head(queue) \in Jobs
          BY <5>1, HeadTailProperties
        <5> QED BY <4>1, <5>2 DEF DrainOne, Fork
      <4> QED BY <4>1
    <3>3. ASSUME NEW k \in Jobs PROVE ~(Run(k) \/ SettleCaller(k) \/ FreeSlot(k) \/ Abort(k))
      BY DEF Run, RunRefused, RunAccepted, SettleCaller, FreeSlot, Abort
    <3>4. ASSUME NEW k \in Jobs
          PROVE  ~(OnTimeout(k) \/ OnStdioLimit(k) \/ OnSpawnError(k) \/ OnMessage(k))
      BY DEF OnTimeout, OnStdioLimit, OnSpawnError, OnMessage, OnMessageIgnored, OnEvent,
         OnDone, OnReady, OnFailure, Take
    <3>5. ASSUME NEW k \in Jobs PROVE ~ChildStep(k)
      BY DEF ChildStep, ChildReady, ChildEvent, ChildDone, ChildError, ChildExit, ChildDies
    <3>6. ASSUME NEW k \in Jobs, OnExit(k) PROVE k = j
      BY <3>6 DEF OnExit
    <3> QED BY <3>1, <3>2, <3>3, <3>4, <3>5, <3>6 DEF Next, Internal, Reaction, Callback
  <2>2. chan[j] = <<>>
    BY <2>1 DEF OnExit
  <2>3. receivedDone[j]
    <3>1. Len(chan[j]) = 0
      BY <2>2, EmptySeq
    <3> QED BY <3>1 DEF Reported
  <2> QED BY <2>1, <2>3 DEF OnExit, Finish
<1>4. SInv /\ [Next]_vars =>
        [\A j \in Jobs :
           child[j] = "exited" /\ child'[j] = "reaped" /\ phase[j] = "running"
             => outcome'[j] = "ok"]_vars
  BY <1>3
<1> QED BY <1>1, <1>2, <1>4, PTL DEF Spec, CompletedRunSucceeds

-----------------------------------------------------------------------------
(* The refinement: the answer of a job is what its caller is or will be    *)
(* told, and the places are held by the runs that hold a slot.             *)
Told == [j \in Jobs |-> IF outcome[j] \in {"none", "ok"} THEN outcome[j] ELSE "failed"]

LEMMA InitRefined == Init => Service!Init
<1> SUFFICES ASSUME Init PROVE Service!Init
  OBVIOUS
<1>1. Holding = {} /\ queue = <<>>
  BY DEF Init, Holding
<1>2. Told = [j \in Jobs |-> "none"]
  BY DEF Init, Told
<1> QED BY <1>1, <1>2 DEF Service!Init, Told

(* What the caller of job j is told changes with the outcome of j alone.   *)
LEMMA ToldMoves ==
  ASSUME TypeOK, NEW j \in Jobs, NEW result \in Outcomes,
         outcome' = [outcome EXCEPT ![j] = result]
  PROVE  Told' = [Told EXCEPT ![j] = IF result \in {"none", "ok"} THEN result ELSE "failed"]
  BY DEF Told, TypeOK

LEMMA QueueJobs == RInv => Service!Waiting \subseteq Queued
  BY DEF RInv, IInv, Waiting, Service!Waiting

(* A step that moves no job between the sets and changes no outcome.       *)
LEMMA Stutters ==
  ASSUME UNCHANGED <<queue, outcome>>, Holding' = Holding
  PROVE  UNCHANGED Service!service
  BY DEF Service!service

LEMMA NewIsFresh ==
  ASSUME RInv, NEW j \in Jobs, phase[j] = "new"
  PROVE  Service!Fresh(j)
<1>1. Told[j] = "none"
  BY DEF RInv, Consistent, Told
<1>2. j \notin Holding /\ j \notin Queued
  BY DEF Holding, Queued
<1> QED BY <1>1, <1>2, QueueJobs DEF Service!Fresh, Told

LEMMA RefusedRefines ==
  ASSUME RInv, NEW j \in Jobs, RunRefused(j)
  PROVE  Service!Refuse(j)
<1>1. Service!Fresh(j)
  BY NewIsFresh DEF RunRefused
<1>2. Holding' = Holding
  BY DEF RunRefused, Holding, RInv, IInv, TypeOK
<1>3. \E result \in {"aborted", "full"} : outcome' = [outcome EXCEPT ![j] = result]
  BY DEF RunRefused
<1>4. Told' = [Told EXCEPT ![j] = "failed"]
  BY <1>3, ToldMoves DEF RInv, IInv, Outcomes
<1>5. queue' = queue
  BY DEF RunRefused, control
<1> QED BY <1>1, <1>2, <1>4, <1>5 DEF Service!Refuse, Told

LEMMA AcceptedRefines ==
  ASSUME RInv, NEW j \in Jobs, RunAccepted(j)
  PROVE  Service!Accept(j)
<1>1. Service!Fresh(j)
  BY NewIsFresh DEF RunAccepted
<1>2. Holding' = Holding
  BY DEF RunAccepted, Holding, RInv, IInv, TypeOK
<1> QED BY <1>1, <1>2 DEF Service!Accept, RunAccepted

LEMMA DrainRefines ==
  ASSUME RInv, DrainOne
  PROVE  Service!Start
<1> DEFINE j == Head(queue)
<1>1. queue # <<>> /\ queue \in Seq(Jobs) /\ Len(queue) \in Nat /\ queue' = Tail(queue)
  BY LenProperties DEF RInv, IInv, TypeOK, DrainOne, MayDrain
<1>2. j \in Jobs /\ j = queue[1] /\ 1 \in 1..Len(queue)
  BY <1>1, HeadTailProperties
<1>3. phase[j] = "queued" /\ ~aborted[j]
  BY <1>2 DEF RInv, IInv, Waiting, Queued, AbortsSeen
<1>4. Fork(j) /\ active < MaxConcurrent
  BY <1>3 DEF DrainOne, MayDrain
<1>5. Service!Cardinality(Holding) < MaxConcurrent
  <2>1. Cardinality(Holding) < MaxConcurrent
    BY <1>4 DEF RInv, IInv, Slots
  <2>2. Service!Cardinality(Holding) = Cardinality(Holding)
    BY DEF Cardinality, Service!Cardinality
  <2> QED BY <2>1, <2>2
<1> HIDE DEF j
<1>6. Holding' = Holding \cup {j}
  <2>1. \E p \in {"running", "settled"} : phase' = [phase EXCEPT ![j] = p]
    BY <1>4 DEF Fork
  <2> QED BY <1>2, <2>1, PhaseMoves DEF RInv, IInv, Phases, HoldingPhases
<1>7. Told' = Told \/ Told' = [Told EXCEPT ![j] = "failed"]
  <2>1. outcome' = outcome \/ outcome' = [outcome EXCEPT ![j] = "failed"]
    BY <1>4 DEF Fork
  <2>2. CASE outcome' = outcome
    BY <2>2 DEF Told
  <2>3. CASE outcome' = [outcome EXCEPT ![j] = "failed"]
    BY <1>2, <2>3, ToldMoves DEF RInv, IInv, Outcomes
  <2> QED BY <2>1, <2>2, <2>3
<1> QED BY <1>1, <1>5, <1>6, <1>7 DEF Service!Start, Told, j

(* finish() answers the caller; the slot is kept.                          *)
LEMMA FinishRefines ==
  ASSUME RInv, NEW j \in Jobs, phase[j] = "running",
         NEW result \in {"ok", "failed", "aborted"}, Finish(j, result), UNCHANGED queue
  PROVE  Service!Answer(j)
<1>1. j \in Holding /\ Holding' = Holding
  <2>1. phase' = [phase EXCEPT ![j] = "settled"]
    BY DEF Finish
  <2> QED BY <2>1 DEF Holding, RInv, IInv, TypeOK
<1>2. Told[j] = "none"
  BY DEF RInv, Consistent, Told
<1>3. \E answered \in {"ok", "failed"} : Told' = [Told EXCEPT ![j] = answered]
  <2>1. outcome' = [outcome EXCEPT ![j] = result]
    BY DEF Finish
  <2> QED BY <2>1, ToldMoves DEF RInv, IInv, Outcomes
<1> QED BY <1>1, <1>2, <1>3 DEF Service!Answer, Told

LEMMA FreeRefines ==
  ASSUME RInv, NEW j \in Jobs, FreeSlot(j)
  PROVE  Service!Leave(j)
<1>1. phase' = [phase EXCEPT ![j] = "over"] /\ phase[j] = "freeing"
      /\ UNCHANGED <<queue, outcome>>
  BY DEF FreeSlot
<1>2. j \in Holding /\ Holding' = Holding \ {j}
  BY <1>1 DEF Holding, RInv, IInv, TypeOK
<1>3. Told[j] # "none" /\ Told' = Told
  BY <1>1 DEF RInv, Consistent, Told
<1> QED BY <1>1, <1>2, <1>3 DEF Service!Leave, Told

(* An abort of a waiting run withdraws it: the others keep their order.    *)
LEMMA AbortRefines ==
  ASSUME RInv, NEW j \in Jobs, Abort(j), AbortQueued(j)
  PROVE  Service!Withdraw
<1>1. PICK at \in 1..Len(queue) : queue[at] = j /\ queue' = RemoveAt(queue, at)
  BY DEF AbortQueued
<1>2. queue \in Seq(Jobs) /\ Len(queue) \in Nat
  BY LenProperties DEF RInv, IInv, TypeOK
<1> DEFINE n == Len(queue) - 1
           kept == [k \in 1..n |-> IF k < at THEN k ELSE k + 1]
           gone == {queue[i] : i \in (1..Len(queue)) \ {kept[k] : k \in 1..n}}
<1>3. n \in 0..(Len(queue) - 1) /\ kept \in [1..n -> 1..Len(queue)]
  BY <1>2
<1>4. \A i, k \in 1..n : i < k => kept[i] < kept[k]
  BY <1>2
<1>5. queue' = [i \in 1..n |-> queue[kept[i]]]
  <2>1. /\ queue' \in Seq(Jobs) /\ Len(queue') = n
        /\ \A k \in 1..n : queue'[k] = IF k < at THEN queue[k] ELSE queue[k + 1]
    BY <1>1, <1>2, RemoveAtFacts
  <2>2. queue' = [i \in 1..n |-> queue'[i]]
    BY <2>1, SeqDef, LenProperties
  <2>3. \A i \in 1..n : queue'[i] = queue[kept[i]]
    BY <2>1
  <2> HIDE DEF kept, n
  <2> QED BY <2>2, <2>3
<1>6. gone = {j}
  <2>1. \A i \in 1..Len(queue) : i = at \/ (i < at /\ i \in 1..n) \/ (i > at /\ i - 1 \in 1..n)
    BY <1>2
  <2>2. \A i \in (1..Len(queue)) \ {kept[k] : k \in 1..n} : i = at
    <3> SUFFICES ASSUME NEW i \in 1..Len(queue), i # at
                 PROVE  \E k \in 1..n : kept[k] = i
      OBVIOUS
    <3>1. CASE i < at
      BY <1>2, <2>1, <3>1
    <3>2. CASE i > at
      <4>1. i - 1 \in 1..n /\ kept[i - 1] = i
        BY <1>2, <2>1, <3>2
      <4> QED BY <4>1
    <3> QED BY <1>2, <3>1, <3>2
  <2>3. at \in (1..Len(queue)) \ {kept[k] : k \in 1..n}
    BY <1>2
  <2> HIDE DEF kept, n
  <2> QED BY <1>1, <2>2, <2>3
<1>7. Told' = [k \in Jobs |-> IF k \in gone THEN "failed" ELSE Told[k]]
  <2>1. outcome' = [outcome EXCEPT ![j] = "aborted"]
    BY DEF AbortQueued
  <2>2. Told' = [Told EXCEPT ![j] = "failed"]
    BY <2>1, ToldMoves DEF RInv, IInv, Outcomes
  <2> HIDE DEF gone
  <2> QED BY <1>6, <2>2 DEF Told
<1>8. Holding' = Holding
  BY DEF AbortQueued, Holding, RInv, IInv, TypeOK
<1> HIDE DEF kept, n
<1> QED BY <1>3, <1>4, <1>5, <1>7, <1>8 DEF Service!Withdraw, Told

LEMMA CallbackRefines ==
  ASSUME RInv, NEW j \in Jobs, Callback(j)
  PROVE  Service!Answer(j) \/ UNCHANGED Service!service
<1>1. UNCHANGED queue
  BY DEF Callback, OnTimeout, OnStdioLimit, OnSpawnError, OnMessage, OnMessageIgnored,
     OnEvent, OnDone, OnReady, OnFailure, OnExit, Take, control
<1>2. \/ phase[j] = "running" /\ \E result \in {"ok", "failed"} : Finish(j, result)
      \/ UNCHANGED <<phase, outcome>>
  <2>1. CASE OnTimeout(j) \/ OnStdioLimit(j) \/ OnSpawnError(j) \/ OnExit(j)
    BY <2>1 DEF OnTimeout, OnStdioLimit, OnSpawnError, OnExit
  <2>2. CASE OnMessage(j)
    BY <2>2 DEF OnMessage, OnMessageIgnored, OnEvent, OnDone, OnReady, OnFailure
  <2> QED BY <2>1, <2>2 DEF Callback
<1>3. CASE UNCHANGED <<phase, outcome>>
  <2>1. Holding' = Holding
    BY <1>3 DEF Holding
  <2> QED BY <1>1, <1>3, <2>1, Stutters
<1> QED BY <1>1, <1>2, <1>3, FinishRefines

LEMMA StepRefined == RInv /\ [Next]_vars => [Service!Next]_(Service!service)
<1> SUFFICES ASSUME RInv, [Next]_vars PROVE Service!Next \/ UNCHANGED Service!service
  OBVIOUS
<1>1. CASE UNCHANGED vars
  <2>1. Holding' = Holding
    BY <1>1 DEF vars, Holding
  <2> QED BY <1>1, <2>1, Stutters DEF vars
<1>2. CASE DrainOne
  BY <1>2, DrainRefines DEF Service!Next
<1>3. CASE DrainEnds
  <2>1. UNCHANGED <<queue, outcome>> /\ Holding' = Holding
    BY <1>3 DEF DrainEnds, Holding
  <2> QED BY <2>1, Stutters
<1>4. ASSUME NEW j \in Jobs, Run(j) PROVE Service!Next
  BY <1>4, RefusedRefines, AcceptedRefines DEF Run, Service!Next
<1>5. ASSUME NEW j \in Jobs, SettleCaller(j) PROVE UNCHANGED Service!service
  <2>1. UNCHANGED <<queue, outcome>> /\ Holding' = Holding
    BY <1>5 DEF SettleCaller, Holding, RInv, IInv, TypeOK, control
  <2> QED BY <2>1, Stutters
<1>6. ASSUME NEW j \in Jobs, FreeSlot(j) PROVE Service!Next
  BY <1>6, FreeRefines DEF Service!Next
<1>7. ASSUME NEW j \in Jobs, Abort(j) PROVE Service!Next \/ UNCHANGED Service!service
  <2>1. CASE AbortQueued(j)
    BY <1>7, <2>1, AbortRefines DEF Service!Next
  <2>2. CASE AbortRunning(j)
    BY <2>2, FinishRefines DEF AbortRunning, Service!Next
  <2>3. CASE AbortIgnored(j)
    <3>1. UNCHANGED <<queue, outcome>> /\ Holding' = Holding
      BY <2>3 DEF AbortIgnored, Holding
    <3> QED BY <3>1, Stutters
  <2> QED BY <1>7, <2>1, <2>2, <2>3 DEF Abort
<1>8. ASSUME NEW j \in Jobs, Callback(j) PROVE Service!Next \/ UNCHANGED Service!service
  BY <1>8, CallbackRefines DEF Service!Next
<1>9. ASSUME NEW j \in Jobs, ChildStep(j) PROVE UNCHANGED Service!service
  <2>1. UNCHANGED <<queue, outcome>> /\ Holding' = Holding
    BY <1>9 DEF ChildStep, ChildReady, ChildEvent, ChildDone, ChildError, ChildExit,
       ChildDies, Holding, host
  <2> QED BY <2>1, Stutters
<1> QED BY <1>1, <1>2, <1>3, <1>4, <1>5, <1>6, <1>7, <1>8, <1>9
        DEF Next, Internal, Reaction

(* For any number of calls and any limits the executor is a JobService:    *)
(* first come, first served, one answer per job, success only from a slot. *)
THEOREM ExecutorImplementsJobService == Spec => ImplementsJobService
  BY InitRefined, StepRefined, RInvAlways, PTL DEF Spec, ImplementsJobService, Service!Spec
=============================================================================
