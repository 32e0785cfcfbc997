------------------------- MODULE DemoExecutorProofs -------------------------
(***************************************************************************)
(* What the executor guarantees for any number of calls and any limits:    *)
(* its slots and its queue are accounted for, within their limits, and no  *)
(* call waits while a slot is free.                                        *)
(***************************************************************************)
EXTENDS DemoExecutor, FiniteSetTheorems, SequenceTheorems, TLAPS

-----------------------------------------------------------------------------
(* Sequences: what dropping one element leaves.                            *)

LEMMA RemoveAtFacts ==
  ASSUME NEW S, NEW s \in Seq(S), NEW i \in 1..Len(s)
  PROVE  /\ RemoveAt(s, i) \in Seq(S)
         /\ Len(RemoveAt(s, i)) = Len(s) - 1
         /\ \A k \in 1..(Len(s) - 1) :
              RemoveAt(s, i)[k] = IF k < i THEN s[k] ELSE s[k + 1]
<1> DEFINE before == SubSeq(s, 1, i - 1)
           after == SubSeq(s, i + 1, Len(s))
<1>1. Len(s) \in Nat /\ \A k \in 1..Len(s) : s[k] \in S
  BY LenProperties, ElementOfSeq
<1>2. /\ before \in Seq(S) /\ Len(before) = i - 1
      /\ \A k \in 1..(i - 1) : before[k] = s[k]
  <2>1. \A k \in 1..(i - 1) : s[k] \in S
    BY <1>1
  <2>2. /\ before \in Seq(S)
        /\ Len(before) = IF 1 <= i - 1 THEN (i - 1) - 1 + 1 ELSE 0
        /\ \A k \in 1..((i - 1) - 1 + 1) : before[k] = s[1 + k - 1]
    BY <1>1, <2>1, SubSeqProperties
  <2> QED BY <1>1, <2>2
<1>3. /\ after \in Seq(S) /\ Len(after) = Len(s) - i
      /\ \A k \in 1..(Len(s) - i) : after[k] = s[i + k]
  <2>1. \A k \in (i + 1)..Len(s) : s[k] \in S
    BY <1>1
  <2>2. /\ after \in Seq(S)
        /\ Len(after) = IF i + 1 <= Len(s) THEN Len(s) - (i + 1) + 1 ELSE 0
        /\ \A k \in 1..(Len(s) - (i + 1) + 1) : after[k] = s[(i + 1) + k - 1]
    BY <1>1, <2>1, SubSeqProperties
  <2> QED BY <1>1, <2>2
<1>4. /\ before \o after \in Seq(S)
      /\ Len(before \o after) = Len(before) + Len(after)
      /\ \A k \in 1..(Len(before) + Len(after)) :
           (before \o after)[k] = IF k <= Len(before) THEN before[k]
                                  ELSE after[k - Len(before)]
  BY <1>2, <1>3, ConcatProperties
<1>5. RemoveAt(s, i) = before \o after
  BY DEF RemoveAt
<1> HIDE DEF before, after
<1>6. ASSUME NEW k \in 1..(Len(s) - 1)
      PROVE  RemoveAt(s, i)[k] = IF k < i THEN s[k] ELSE s[k + 1]
  <2>1. CASE k < i
    <3>1. k \in 1..(i - 1) /\ k \in 1..(Len(before) + Len(after))
      BY <1>1, <1>2, <1>3, <2>1
    <3> QED BY <1>2, <1>4, <1>5, <2>1, <3>1
  <2>2. CASE ~(k < i)
    <3>1. /\ k \in 1..(Len(before) + Len(after)) /\ ~(k <= Len(before))
          /\ k - Len(before) \in 1..(Len(s) - i)
          /\ i + (k - Len(before)) = k + 1
      BY <1>1, <1>2, <1>3, <2>2
    <3> QED BY <1>3, <1>4, <1>5, <2>2, <3>1
  <2> QED BY <2>1, <2>2
<1>7. Len(before) + Len(after) = Len(s) - 1
  BY <1>1, <1>2, <1>3
<1> QED BY <1>4, <1>5, <1>6, <1>7

-----------------------------------------------------------------------------
(* Type correctness.                                                       *)

(* The state of the executor, of every call and of every child stays       *)
(* within its type.                                                        *)
LEMMA TypeStep == TypeOK /\ [Next]_vars => TypeOK'
<1> SUFFICES ASSUME TypeOK, [Next]_vars PROVE TypeOK'
  OBVIOUS
<1> USE DEF Phases, Outcomes, Live, Processes, Messages, control, host
<1>1. CASE UNCHANGED vars
  BY <1>1 DEF TypeOK, vars
<1>2. ASSUME NEW j \in Jobs, RunRefused(j) PROVE TypeOK'
  BY <1>2 DEF TypeOK, RunRefused
<1>3. ASSUME NEW j \in Jobs, RunAccepted(j) PROVE TypeOK'
  BY <1>3, AppendProperties DEF TypeOK, RunAccepted
<1>4. CASE DrainOne
  <2>1. queue' \in Seq(Jobs) /\ Head(queue) \in Jobs
    BY <1>4, HeadTailProperties DEF TypeOK, DrainOne, MayDrain
  <2>2. CASE aborted[Head(queue)]
    BY <1>4, <2>1, <2>2 DEF TypeOK, DrainOne
  <2>3. CASE ~aborted[Head(queue)]
    <3> DEFINE j == Head(queue)
    <3>1. /\ Fork(j) /\ active' = active + 1
          /\ UNCHANGED <<draining, aborted, events, receivedDone, killed, chan>>
      BY <1>4, <2>3 DEF DrainOne
    <3>2. j \in Jobs
      BY <2>1
    <3> HIDE DEF j
    <3>3. activeChildren' \subseteq Jobs
      BY <3>1, <3>2 DEF TypeOK, Fork
    <3>4. /\ phase' \in [Jobs -> Phases] /\ outcome' \in [Jobs -> Outcomes]
          /\ timer' \in [Jobs -> BOOLEAN] /\ child' \in [Jobs -> Processes]
      BY <3>1, <3>2 DEF TypeOK, Fork
    <3> QED BY <2>1, <3>1, <3>3, <3>4 DEF TypeOK
  <2> QED BY <2>2, <2>3
<1>5. CASE DrainEnds
  BY <1>5 DEF TypeOK, DrainEnds
<1>6. ASSUME NEW j \in Jobs, SettleCaller(j) PROVE TypeOK'
  BY <1>6 DEF TypeOK, SettleCaller
<1>7. ASSUME NEW j \in Jobs, FreeSlot(j) PROVE TypeOK'
  BY <1>7 DEF TypeOK, FreeSlot
<1>8. ASSUME NEW j \in Jobs, Abort(j) PROVE TypeOK'
  <2>1. CASE AbortQueued(j)
    <3>1. queue' \in Seq(Jobs)
      BY <2>1, RemoveAtFacts DEF AbortQueued, TypeOK
    <3> QED BY <1>8, <2>1, <3>1 DEF TypeOK, Abort, AbortQueued
  <2>2. CASE AbortRunning(j)
    BY <1>8, <2>2 DEF TypeOK, Abort, AbortRunning, Finish
  <2>3. CASE AbortIgnored(j)
    BY <1>8, <2>3 DEF TypeOK, Abort, AbortIgnored
  <2> QED BY <1>8, <2>1, <2>2, <2>3 DEF Abort
<1>9. ASSUME NEW j \in Jobs, OnTimeout(j) \/ OnStdioLimit(j) \/ OnSpawnError(j)
      PROVE  TypeOK'
  <2>1. /\ Finish(j, "failed")
        /\ UNCHANGED <<control, aborted, events, receivedDone, activeChildren, child, chan>>
    BY <1>9 DEF OnTimeout, OnStdioLimit, OnSpawnError
  <2> QED BY <2>1 DEF TypeOK, Finish
<1>10. ASSUME NEW j \in Jobs, OnMessage(j) PROVE TypeOK'
  <2>1. chan' \in [Jobs -> Seq(Messages)]
    <3>1. Take(j)
      BY <1>10 DEF OnMessage, OnMessageIgnored, OnEvent, OnDone, OnReady, OnFailure
    <3>2. chan[j] \in Seq(Messages) /\ chan[j] # <<>>
      BY <3>1 DEF TypeOK, Take
    <3>3. Tail(chan[j]) \in Seq(Messages)
      BY <3>2, HeadTailProperties
    <3> QED BY <3>1, <3>3 DEF TypeOK, Take
  <2>2. CASE OnMessageIgnored(j)
    BY <2>1, <2>2 DEF TypeOK, OnMessageIgnored, Take
  <2>3. CASE OnEvent(j)
    <3>1. /\ phase' \in [Jobs -> Phases] /\ outcome' \in [Jobs -> Outcomes]
          /\ timer' \in [Jobs -> BOOLEAN] /\ killed' \in [Jobs -> BOOLEAN]
      BY <2>3 DEF TypeOK, OnEvent, Finish
    <3>2. events' \in [Jobs -> Nat]
      BY <2>3 DEF TypeOK, OnEvent
    <3> QED BY <2>1, <2>3, <3>1, <3>2 DEF TypeOK, OnEvent, Take
  <2>4. CASE OnDone(j)
    BY <2>1, <2>4 DEF TypeOK, OnDone, Take
  <2>5. CASE OnReady(j)
    BY <2>1, <2>5 DEF TypeOK, OnReady, Take
  <2>6. CASE OnFailure(j)
    BY <2>1, <2>6 DEF TypeOK, OnFailure, Take, Finish
  <2> QED BY <1>10, <2>2, <2>3, <2>4, <2>5, <2>6 DEF OnMessage
<1>11. ASSUME NEW j \in Jobs, OnExit(j) PROVE TypeOK'
  BY <1>11 DEF TypeOK, OnExit, Finish
<1>12. ASSUME NEW j \in Jobs, NEW m \in Messages, Send(j, m)
       PROVE  chan' \in [Jobs -> Seq(Messages)]
  <2>1. Append(chan[j], m) \in Seq(Messages)
    BY AppendProperties DEF TypeOK
  <2> QED BY <1>12, <2>1 DEF TypeOK, Send
<1>13. ASSUME NEW j \in Jobs, ChildStep(j) PROVE TypeOK'
  <2>1. CASE ChildReady(j)
    <3>1. chan' \in [Jobs -> Seq(Messages)]
      BY <1>12, <2>1 DEF ChildReady
    <3> QED BY <2>1, <3>1 DEF TypeOK, ChildReady
  <2>2. CASE ChildEvent(j)
    <3>1. chan' \in [Jobs -> Seq(Messages)]
      BY <1>12, <2>2 DEF ChildEvent
    <3> QED BY <2>2, <3>1 DEF TypeOK, ChildEvent
  <2>3. CASE ChildDone(j)
    <3>1. chan' \in [Jobs -> Seq(Messages)]
      BY <1>12, <2>3 DEF ChildDone
    <3> QED BY <2>3, <3>1 DEF TypeOK, ChildDone
  <2>4. CASE ChildError(j)
    <3>1. chan' \in [Jobs -> Seq(Messages)]
      BY <1>12, <2>4 DEF ChildError
    <3> QED BY <2>4, <3>1 DEF TypeOK, ChildError
  <2>5. CASE ChildExit(j)
    BY <2>5 DEF TypeOK, ChildExit
  <2>6. CASE ChildDies(j)
    BY <2>6 DEF TypeOK, ChildDies
  <2> QED BY <1>13, <2>1, <2>2, <2>3, <2>4, <2>5, <2>6 DEF ChildStep
<1> QED BY <1>1, <1>2, <1>3, <1>4, <1>5, <1>6, <1>7, <1>8, <1>9, <1>10, <1>11, <1>13
        DEF Next, Internal, Reaction, Callback, Run

LEMMA InitTyped == Init => TypeOK
<1>1. <<>> \in Seq(Jobs) /\ <<>> \in Seq(Messages)
  BY EmptySeq
<1> SUFFICES ASSUME Init PROVE TypeOK
  OBVIOUS
<1>2. queue \in Seq(Jobs) /\ chan \in [Jobs -> Seq(Messages)]
  BY <1>1 DEF Init
<1>3. /\ phase \in [Jobs -> Phases] /\ outcome \in [Jobs -> Outcomes]
      /\ child \in [Jobs -> Processes]
  BY DEF Init, Phases, Outcomes, Processes, Live
<1>4. /\ aborted \in [Jobs -> BOOLEAN] /\ timer \in [Jobs -> BOOLEAN]
      /\ receivedDone \in [Jobs -> BOOLEAN] /\ killed \in [Jobs -> BOOLEAN]
      /\ events \in [Jobs -> Nat] /\ draining \in BOOLEAN
  BY DEF Init
<1> QED BY <1>2, <1>3, <1>4 DEF Init, TypeOK

(* Every reachable state is well typed.                                    *)
THEOREM TypeCorrect == Spec => []TypeOK
  BY InitTyped, TypeStep, PTL DEF Spec

-----------------------------------------------------------------------------
(* The inductive invariant of the slots and the queue.  The queue may be   *)
(* one longer than maxQueue only while the call just accepted is about to  *)
(* be started, and no aborted call waits or runs.                          *)

Slots == active = Cardinality(Holding) /\ active <= MaxConcurrent

Waiting ==
  /\ \A i \in 1..Len(queue) : queue[i] \in Queued
  /\ \A i, k \in 1..Len(queue) : queue[i] = queue[k] => i = k
  /\ Len(queue) = Cardinality(Queued)

Length ==
  \/ Len(queue) <= MaxQueue
  \/ draining /\ active < MaxConcurrent /\ Len(queue) = 1

Drained == ~draining /\ queue # <<>> => active = MaxConcurrent

AbortsSeen == \A j \in Jobs : aborted[j] => phase[j] \notin {"queued", "running"}

IInv == TypeOK /\ Slots /\ Waiting /\ Length /\ Drained /\ AbortsSeen

HoldingPhases == {"running", "settled", "freeing"}

(* What the move of one call to phase p does to the two sets.              *)
LEMMA PhaseMoves ==
  ASSUME TypeOK, NEW j \in Jobs, NEW p \in Phases,
         phase' = [phase EXCEPT ![j] = p]
  PROVE  /\ Holding' = IF p \in HoldingPhases THEN Holding \cup {j} ELSE Holding \ {j}
         /\ Queued' = IF p = "queued" THEN Queued \cup {j} ELSE Queued \ {j}
  BY DEF TypeOK, Holding, Queued, HoldingPhases

LEMMA Counting ==
  /\ IsFiniteSet(Holding) /\ Cardinality(Holding) \in Nat
  /\ IsFiniteSet(Queued) /\ Cardinality(Queued) \in Nat
  /\ \A j : Cardinality(Holding \cup {j}) =
            IF j \in Holding THEN Cardinality(Holding) ELSE Cardinality(Holding) + 1
  /\ \A j : Cardinality(Holding \ {j}) =
            IF j \in Holding THEN Cardinality(Holding) - 1 ELSE Cardinality(Holding)
  /\ \A j : Cardinality(Queued \cup {j}) =
            IF j \in Queued THEN Cardinality(Queued) ELSE Cardinality(Queued) + 1
  /\ \A j : Cardinality(Queued \ {j}) =
            IF j \in Queued THEN Cardinality(Queued) - 1 ELSE Cardinality(Queued)
<1>1. Holding \in SUBSET Jobs /\ Queued \in SUBSET Jobs
  BY DEF Holding, Queued
<1>2. IsFiniteSet(Holding) /\ IsFiniteSet(Queued)
  BY <1>1, ExecutorAssumption, FS_Subset DEF ExecutorAssumption
<1> QED BY <1>2, FS_CardinalityType, FS_AddElement, FS_RemoveElement

(* Steps that move no call between the sets and leave the counters alone.  *)
LEMMA Quiescent ==
  ASSUME IInv, UNCHANGED control, Holding' = Holding, Queued' = Queued,
         AbortsSeen', TypeOK'
  PROVE  IInv'
  BY DEF IInv, Slots, Waiting, Length, Drained, control

(* finish() keeps the slot: it is freed by the reaction to the promise.    *)
LEMMA FinishStep ==
  ASSUME IInv, TypeOK', UNCHANGED <<active, queue, draining>>,
         NEW j \in Jobs, NEW result \in Outcomes,
         phase[j] = "running", Finish(j, result),
         \A k \in Jobs : aborted'[k] => aborted[k] \/ k = j
  PROVE  IInv'
<1>1. phase' = [phase EXCEPT ![j] = "settled"]
  BY DEF Finish
<1>2. Holding' = Holding \cup {j} /\ Queued' = Queued \ {j}
  BY <1>1, PhaseMoves DEF IInv, Phases, HoldingPhases
<1>3. j \in Holding /\ j \notin Queued
  BY DEF Holding, Queued
<1>4. Holding' = Holding /\ Queued' = Queued
  BY <1>2, <1>3
<1>5. AbortsSeen'
  BY <1>1 DEF IInv, AbortsSeen, TypeOK
<1> QED BY <1>4, <1>5, Quiescent DEF control

(* Steps of callbacks and children that leave every phase alone.           *)
LEMMA PhaseKept ==
  ASSUME IInv, TypeOK', UNCHANGED <<active, queue, draining, phase, aborted>>
  PROVE  IInv'
<1>1. Holding' = Holding /\ Queued' = Queued /\ AbortsSeen'
  BY DEF IInv, Holding, Queued, AbortsSeen
<1> QED BY <1>1, Quiescent DEF control

LEMMA RunAcceptedStep ==
  ASSUME IInv, TypeOK', NEW j \in Jobs, RunAccepted(j)
  PROVE  IInv'
<1>1. /\ phase' = [phase EXCEPT ![j] = "queued"] /\ phase[j] = "new"
      /\ queue' = Append(queue, j) /\ draining' /\ active' = active
      /\ aborted' = aborted /\ ~aborted[j] /\ ~Saturated /\ ~draining
  BY DEF RunAccepted, Busy
<1>2. Holding' = Holding \ {j} /\ Queued' = Queued \cup {j}
  BY <1>1, PhaseMoves DEF IInv, Phases, HoldingPhases
<1>3. j \notin Holding /\ j \notin Queued
  BY <1>1 DEF Holding, Queued
<1>4. queue \in Seq(Jobs) /\ Len(queue) \in Nat
  BY LenProperties DEF IInv, TypeOK
<1>5. /\ Len(queue') = Len(queue) + 1
      /\ \A i \in 1..Len(queue) : queue'[i] = queue[i]
      /\ queue'[Len(queue) + 1] = j
  BY <1>1, <1>4, AppendProperties
<1>6. Slots'
  BY <1>1, <1>2, <1>3 DEF IInv, Slots
<1>7. Waiting'
  <2>1. \A i \in 1..Len(queue) : queue[i] \in Queued /\ queue[i] # j
    BY <1>3 DEF IInv, Waiting
  <2>2. \A i \in 1..Len(queue') : i = Len(queue) + 1 \/ i \in 1..Len(queue)
    BY <1>4, <1>5
  <2>3. \A i \in 1..Len(queue') : queue'[i] \in Queued'
    BY <1>2, <1>5, <2>1, <2>2
  <2>4. \A i, k \in 1..Len(queue') : queue'[i] = queue'[k] => i = k
    BY <1>5, <2>1, <2>2 DEF IInv, Waiting
  <2>5. Len(queue') = Cardinality(Queued')
    BY <1>2, <1>3, <1>5, Counting DEF IInv, Waiting
  <2> QED BY <2>3, <2>4, <2>5 DEF Waiting
<1>8. Length'
  <2>1. CASE active < MaxConcurrent
    <3>1. queue = <<>>
      BY <1>1, <2>1, ExecutorAssumption DEF IInv, Drained, TypeOK, ExecutorAssumption
    <3>2. Len(queue') = 1
      BY <1>5, <3>1
    <3> QED BY <1>1, <2>1, <3>2 DEF Length
  <2>2. CASE Len(queue) < MaxQueue
    BY <1>4, <1>5, <2>2, ExecutorAssumption DEF Length, ExecutorAssumption
  <2> QED BY <1>1, <1>4, <2>1, <2>2, ExecutorAssumption
          DEF Saturated, IInv, TypeOK, ExecutorAssumption
<1>9. Drained'
  BY <1>1 DEF Drained
<1>10. AbortsSeen'
  BY <1>1 DEF IInv, AbortsSeen, TypeOK
<1> QED BY <1>6, <1>7, <1>8, <1>9, <1>10 DEF IInv

LEMMA DrainOneStep ==
  ASSUME IInv, TypeOK', DrainOne
  PROVE  IInv'
<1> DEFINE j == Head(queue)
<1>1. queue \in Seq(Jobs) /\ queue # <<>> /\ Len(queue) \in Nat
  BY LenProperties DEF IInv, TypeOK, DrainOne, MayDrain
<1>2. /\ j \in Jobs /\ j = queue[1] /\ 1 \in 1..Len(queue)
      /\ queue' \in Seq(Jobs) /\ Len(queue') = Len(queue) - 1
      /\ \A i \in 1..(Len(queue) - 1) : queue'[i] = queue[i + 1]
  BY <1>1, HeadTailProperties DEF DrainOne
<1>3. /\ j \in Queued /\ j \notin Holding
      /\ draining /\ draining' /\ active < MaxConcurrent /\ aborted' = aborted
  BY <1>2 DEF IInv, Waiting, DrainOne, MayDrain, Holding, Queued
<1>4. ~aborted[j] /\ active' = active + 1 /\ Fork(j)
  BY <1>2, <1>3 DEF IInv, AbortsSeen, Queued, DrainOne
<1> HIDE DEF j
<1>5. \E p \in {"running", "settled"} : phase' = [phase EXCEPT ![j] = p]
  BY <1>4 DEF Fork
<1>6. Holding' = Holding \cup {j} /\ Queued' = Queued \ {j}
  BY <1>2, <1>5, PhaseMoves DEF IInv, Phases, HoldingPhases
<1>7. Slots'
  BY <1>3, <1>4, <1>6, Counting, ExecutorAssumption
     DEF IInv, Slots, TypeOK, ExecutorAssumption
<1>8. Waiting'
  <2>1. \A i \in 1..Len(queue') : i + 1 \in 1..Len(queue) /\ i + 1 # 1
    BY <1>1, <1>2
  <2>2. \A i \in 1..Len(queue') : queue'[i] = queue[i + 1]
    BY <1>2
  <2>3. \A i \in 1..Len(queue') : queue'[i] \in Queued'
    BY <1>2, <1>6, <2>1, <2>2 DEF IInv, Waiting
  <2>4. \A i, k \in 1..Len(queue') : queue'[i] = queue'[k] => i = k
    <3> SUFFICES ASSUME NEW i \in 1..Len(queue'), NEW k \in 1..Len(queue'),
                        queue'[i] = queue'[k]
                 PROVE  i = k
      OBVIOUS
    <3>1. i + 1 = k + 1
      BY <2>1, <2>2 DEF IInv, Waiting
    <3> QED BY <3>1
  <2>5. Len(queue') = Cardinality(Queued')
    BY <1>2, <1>3, <1>6, Counting DEF IInv, Waiting
  <2> QED BY <2>3, <2>4, <2>5 DEF Waiting
<1>9. Length'
  <2>1. Len(queue) <= MaxQueue \/ Len(queue) = 1
    BY DEF IInv, Length
  <2>2. Len(queue') <= MaxQueue
    BY <1>1, <1>2, <2>1, ExecutorAssumption DEF ExecutorAssumption
  <2> QED BY <2>2 DEF Length
<1>10. Drained'
  BY <1>3 DEF Drained
<1>11. AbortsSeen'
  BY <1>2, <1>3, <1>4, <1>5 DEF IInv, AbortsSeen, TypeOK
<1> QED BY <1>7, <1>8, <1>9, <1>10, <1>11 DEF IInv

LEMMA DrainEndsStep ==
  ASSUME IInv, TypeOK', DrainEnds
  PROVE  IInv'
<1>1. /\ UNCHANGED <<active, queue, phase, aborted>> /\ ~draining'
      /\ ~MayDrain
  BY DEF DrainEnds
<1>2. Holding' = Holding /\ Queued' = Queued
  BY <1>1 DEF Holding, Queued
<1>3. Slots' /\ Waiting' /\ AbortsSeen'
  BY <1>1, <1>2 DEF IInv, Slots, Waiting, AbortsSeen
<1>4. active \in Nat /\ queue \in Seq(Jobs) /\ MaxConcurrent \in Nat
  BY ExecutorAssumption DEF IInv, TypeOK, ExecutorAssumption
<1>5. Drained'
  BY <1>1, <1>4 DEF IInv, Slots, Drained, MayDrain
<1>6. Length'
  <2>1. CASE Len(queue) <= MaxQueue
    BY <1>1, <2>1 DEF Length
  <2>2. CASE active < MaxConcurrent /\ Len(queue) = 1
    <3>1. queue # <<>>
      BY <2>2, EmptySeq
    <3> QED BY <1>1, <2>2, <3>1 DEF MayDrain
  <2> QED BY <2>1, <2>2 DEF IInv, Length
<1> QED BY <1>3, <1>5, <1>6 DEF IInv

(* The slot is given back: the count was not 0, and the queue is drained.  *)
LEMMA FreeSlotStep ==
  ASSUME IInv, TypeOK', NEW j \in Jobs, FreeSlot(j)
  PROVE  IInv'
<1>1. /\ phase' = [phase EXCEPT ![j] = "over"] /\ phase[j] = "freeing"
      /\ active' = IF active > 0 THEN active - 1 ELSE 0
      /\ ~draining /\ draining' /\ UNCHANGED <<queue, aborted>>
  BY DEF FreeSlot
<1>2. Holding' = Holding \ {j} /\ Queued' = Queued \ {j}
  BY <1>1, PhaseMoves DEF IInv, Phases, HoldingPhases
<1>3. j \in Holding /\ j \notin Queued
  BY <1>1 DEF Holding, Queued
<1>4. Queued' = Queued
  BY <1>2, <1>3
<1>5. Cardinality(Holding) # 0
  BY <1>3, Counting, FS_EmptySet
<1>6. Slots'
  BY <1>1, <1>2, <1>3, <1>5, Counting, ExecutorAssumption
     DEF IInv, Slots, TypeOK, ExecutorAssumption
<1>7. Waiting'
  BY <1>1, <1>4 DEF IInv, Waiting
<1>8. Length' /\ Drained'
  BY <1>1 DEF IInv, Length, Drained
<1>9. AbortsSeen'
  BY <1>1 DEF IInv, AbortsSeen, TypeOK
<1> QED BY <1>6, <1>7, <1>8, <1>9 DEF IInv

(* An aborted call leaves the queue from wherever it stands.               *)
LEMMA AbortQueuedStep ==
  ASSUME IInv, TypeOK', NEW j \in Jobs, Abort(j), AbortQueued(j)
  PROVE  IInv'
<1>1. /\ phase' = [phase EXCEPT ![j] = "over"] /\ phase[j] = "queued"
      /\ UNCHANGED <<active, draining>> /\ ~draining
      /\ aborted' = [aborted EXCEPT ![j] = TRUE]
  BY DEF Abort, AbortQueued, Busy
<1>2. PICK at \in 1..Len(queue) : queue[at] = j /\ queue' = RemoveAt(queue, at)
  BY DEF AbortQueued
<1>3. queue \in Seq(Jobs) /\ Len(queue) \in Nat
  BY LenProperties DEF IInv, TypeOK
<1>4. /\ Len(queue') = Len(queue) - 1
      /\ \A k \in 1..(Len(queue) - 1) :
           queue'[k] = IF k < at THEN queue[k] ELSE queue[k + 1]
  BY <1>2, <1>3, RemoveAtFacts
<1>5. Holding' = Holding \ {j} /\ Queued' = Queued \ {j}
  BY <1>1, PhaseMoves DEF IInv, Phases, HoldingPhases
<1>6. j \notin Holding /\ j \in Queued
  BY <1>1 DEF Holding, Queued
<1>7. Slots'
  BY <1>1, <1>5, <1>6 DEF IInv, Slots
<1>8. Waiting'
  <2> DEFINE old(k) == IF k < at THEN k ELSE k + 1
  <2>1. \A k \in 1..Len(queue') : old(k) \in 1..Len(queue) /\ old(k) # at
    BY <1>3, <1>4
  <2>2. \A i, k \in 1..Len(queue') : old(i) = old(k) => i = k
    BY <1>3, <1>4
  <2>3. \A k \in 1..Len(queue') : queue'[k] = queue[old(k)]
    BY <1>3, <1>4
  <2> HIDE DEF old
  <2>4. \A k \in 1..Len(queue') : queue'[k] \in Queued'
    <3> SUFFICES ASSUME NEW k \in 1..Len(queue') PROVE queue'[k] \in Queued'
      OBVIOUS
    <3>1. queue[old(k)] \in Queued
      BY <2>1 DEF IInv, Waiting
    <3>2. queue[old(k)] # queue[at]
      BY <2>1, <1>2 DEF IInv, Waiting
    <3> QED BY <1>2, <1>5, <2>3, <3>1, <3>2
  <2>5. \A i, k \in 1..Len(queue') : queue'[i] = queue'[k] => i = k
    <3> SUFFICES ASSUME NEW i \in 1..Len(queue'), NEW k \in 1..Len(queue'),
                        queue'[i] = queue'[k]
                 PROVE  i = k
      OBVIOUS
    <3>1. old(i) = old(k)
      BY <2>1, <2>3 DEF IInv, Waiting
    <3> QED BY <2>2, <3>1
  <2>6. Len(queue') = Cardinality(Queued')
    BY <1>4, <1>5, <1>6, Counting DEF IInv, Waiting
  <2> QED BY <2>4, <2>5, <2>6 DEF Waiting
<1>9. Length'
  <2>1. Len(queue) <= MaxQueue
    BY <1>1 DEF IInv, Length
  <2>2. Len(queue') <= MaxQueue
    BY <1>3, <1>4, <2>1, ExecutorAssumption DEF ExecutorAssumption
  <2> QED BY <2>2 DEF Length
<1>10. Drained'
  <2>1. queue # <<>>
    BY <1>2, <1>3, EmptySeq
  <2> QED BY <1>1, <2>1 DEF IInv, Drained
<1>11. AbortsSeen'
  BY <1>1 DEF IInv, AbortsSeen, TypeOK
<1> QED BY <1>7, <1>8, <1>9, <1>10, <1>11 DEF IInv

(* Moves of a call that neither waits nor, before or after, holds a slot,  *)
(* and moves that keep its slot.                                           *)
LEMMA SideStep ==
  ASSUME IInv, TypeOK', UNCHANGED <<active, queue, draining, aborted>>,
         NEW j \in Jobs,
         \/ phase[j] = "new" /\ phase' = [phase EXCEPT ![j] = "over"]
         \/ phase[j] = "settled" /\ phase' = [phase EXCEPT ![j] = "freeing"]
  PROVE  IInv'
<1>1. Holding' = Holding /\ Queued' = Queued
  <2>1. CASE phase[j] = "new" /\ phase' = [phase EXCEPT ![j] = "over"]
    BY <2>1 DEF IInv, TypeOK, Holding, Queued
  <2>2. CASE phase[j] = "settled" /\ phase' = [phase EXCEPT ![j] = "freeing"]
    BY <2>2 DEF IInv, TypeOK, Holding, Queued
  <2> QED BY <2>1, <2>2
<1>2. AbortsSeen'
  BY DEF IInv, AbortsSeen, TypeOK
<1> QED BY <1>1, <1>2, Quiescent DEF control

(* A callback or a step of the child either finishes its run or leaves     *)
(* every phase alone.                                                      *)
LEMMA CallbackStep ==
  ASSUME IInv, TypeOK', NEW j \in Jobs, Callback(j) \/ ChildStep(j)
  PROVE  IInv'
<1>1. CASE OnTimeout(j) \/ OnStdioLimit(j) \/ OnSpawnError(j)
  <2>1. /\ phase[j] = "running" /\ Finish(j, "failed")
        /\ UNCHANGED <<active, queue, draining, aborted>>
    BY <1>1 DEF OnTimeout, OnStdioLimit, OnSpawnError, control
  <2> QED BY <2>1, FinishStep DEF Outcomes
<1>2. CASE OnMessage(j)
  <2>1. UNCHANGED <<active, queue, draining, aborted>>
    BY <1>2 DEF OnMessage, OnMessageIgnored, OnEvent, OnDone, OnReady, OnFailure,
                Take, control
  <2>2. \/ UNCHANGED phase
        \/ phase[j] = "running" /\ Finish(j, "failed")
    BY <1>2 DEF OnMessage, OnMessageIgnored, OnEvent, OnDone, OnReady, OnFailure
  <2> QED BY <2>1, <2>2, FinishStep, PhaseKept DEF Outcomes
<1>3. CASE OnExit(j)
  <2>1. UNCHANGED <<active, queue, draining, aborted>>
    BY <1>3 DEF OnExit, control
  <2>2. \/ UNCHANGED phase
        \/ phase[j] = "running" /\ Finish(j, "ok")
        \/ phase[j] = "running" /\ Finish(j, "failed")
    BY <1>3 DEF OnExit
  <2> QED BY <2>1, <2>2, FinishStep, PhaseKept DEF Outcomes
<1>4. CASE ChildStep(j)
  <2>1. UNCHANGED <<active, queue, draining, phase, aborted>>
    BY <1>4 DEF ChildStep, ChildReady, ChildEvent, ChildDone, ChildError,
                ChildExit, ChildDies, host
  <2> QED BY <2>1, PhaseKept
<1> QED BY <1>1, <1>2, <1>3, <1>4 DEF Callback

(* The invariant is inductive.                                             *)
LEMMA InvariantStep == IInv /\ [Next]_vars => IInv'
<1> SUFFICES ASSUME IInv, [Next]_vars PROVE IInv'
  OBVIOUS
<1>0. TypeOK'
  BY TypeStep DEF IInv
<1>1. CASE UNCHANGED vars
  BY <1>0, <1>1, PhaseKept DEF vars
<1>2. ASSUME NEW j \in Jobs, RunRefused(j) PROVE IInv'
  BY <1>0, <1>2, SideStep DEF RunRefused, control
<1>3. ASSUME NEW j \in Jobs, RunAccepted(j) PROVE IInv'
  BY <1>0, <1>3, RunAcceptedStep
<1>4. CASE DrainOne
  BY <1>0, <1>4, DrainOneStep
<1>5. CASE DrainEnds
  BY <1>0, <1>5, DrainEndsStep
<1>6. ASSUME NEW j \in Jobs, SettleCaller(j) PROVE IInv'
  BY <1>0, <1>6, SideStep DEF SettleCaller, control
<1>7. ASSUME NEW j \in Jobs, FreeSlot(j) PROVE IInv'
  BY <1>0, <1>7, FreeSlotStep
<1>8. ASSUME NEW j \in Jobs, Abort(j) PROVE IInv'
  <2>1. CASE AbortQueued(j)
    BY <1>0, <1>8, <2>1, AbortQueuedStep
  <2>2. CASE AbortRunning(j)
    <3>1. /\ UNCHANGED <<active, queue, draining>>
          /\ phase[j] = "running" /\ Finish(j, "aborted")
          /\ \A k \in Jobs : aborted'[k] => aborted[k] \/ k = j
      BY <1>8, <2>2 DEF Abort, AbortRunning, IInv, TypeOK
    <3> QED BY <1>0, <3>1, FinishStep DEF Outcomes
  <2>3. CASE AbortIgnored(j)
    <3>1. /\ UNCHANGED <<active, queue, draining, phase>>
          /\ phase[j] \in {"new", "over"}
          /\ aborted' = [aborted EXCEPT ![j] = TRUE]
      BY <1>8, <2>3 DEF Abort, AbortIgnored
    <3>2. Holding' = Holding /\ Queued' = Queued
      BY <3>1 DEF Holding, Queued
    <3>3. AbortsSeen'
      BY <3>1 DEF IInv, AbortsSeen, TypeOK
    <3> QED BY <1>0, <3>1, <3>2, <3>3, Quiescent DEF control
  <2> QED BY <1>8, <2>1, <2>2, <2>3 DEF Abort
<1>9. ASSUME NEW j \in Jobs, Callback(j) \/ ChildStep(j) PROVE IInv'
  BY <1>0, <1>9, CallbackStep
<1> QED BY <1>1, <1>2, <1>3, <1>4, <1>5, <1>6, <1>7, <1>8, <1>9
        DEF Next, Internal, Reaction, Run

LEMMA InvariantInit == Init => IInv
<1> SUFFICES ASSUME Init PROVE IInv
  OBVIOUS
<1>1. TypeOK
  BY InitTyped
<1>2. Holding = {} /\ Queued = {}
  BY DEF Init, Holding, Queued
<1>3. Cardinality(Holding) = 0 /\ Cardinality(Queued) = 0
  BY <1>2, FS_EmptySet
<1>4. queue = <<>> /\ Len(queue) = 0 /\ active = 0
  BY EmptySeq DEF Init
<1>5. Slots
  BY <1>3, <1>4, ExecutorAssumption DEF Slots, ExecutorAssumption
<1>6. Waiting /\ Drained
  BY <1>3, <1>4 DEF Waiting, Drained
<1>7. Length
  BY <1>4, ExecutorAssumption DEF Length, ExecutorAssumption
<1>8. AbortsSeen
  BY DEF Init, AbortsSeen
<1> QED BY <1>1, <1>5, <1>6, <1>7, <1>8 DEF IInv

(* The inductive invariant holds in every reachable state.                 *)
THEOREM Invariant == Spec => []IInv
  BY InvariantInit, InvariantStep, PTL DEF Spec

(* For any number of calls and any limit, this.active counts the runs that *)
(* hold a slot and never exceeds maxConcurrent.                            *)
THEOREM SlotsAccounted == Spec => []SlotAccounting
<1>1. IInv => SlotAccounting
  BY DEF IInv, Slots, SlotAccounting
<1> QED BY <1>1, Invariant, PTL

(* The queue holds each waiting call once, no aborted one, and is within   *)
(* maxQueue between two drains.                                            *)
THEOREM QueueAccounted == Spec => []QueueAccounting
<1>1. IInv => QueueAccounting
  <2> SUFFICES ASSUME IInv PROVE QueueAccounting
    OBVIOUS
  <2>1. \A i \in 1..Len(queue) : queue[i] \in Queued /\ ~aborted[queue[i]]
    BY DEF IInv, Waiting, AbortsSeen, Queued
  <2>2. ~draining => Len(queue) <= MaxQueue
    BY DEF IInv, Length
  <2> QED BY <2>1, <2>2 DEF IInv, Waiting, QueueAccounting
<1> QED BY <1>1, Invariant, PTL

(* No call waits while a slot is free.                                     *)
THEOREM NoIdleSlot == Spec => []WorkConserving
<1>1. IInv => WorkConserving
  BY DEF IInv, Drained, WorkConserving, Busy
<1> QED BY <1>1, Invariant, PTL
=============================================================================
