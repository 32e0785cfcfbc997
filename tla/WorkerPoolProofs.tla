--------------------------- MODULE WorkerPoolProofs ---------------------------
(***************************************************************************)
(* The worker pool implements JobService for any number of requests and    *)
(* workers: no job is lost from the queue, run twice or settled twice.     *)
(***************************************************************************)
EXTENDS WorkerPool, SequenceTheorems, FiniteSetTheorems, TLAPS

-----------------------------------------------------------------------------
(* A job is unsent, or in the queue once, or in one slot, or settled; only *)
(* a thread with a job computes or has answered.                           *)
InQueue(j) == \E i \in 1..Len(queue) : queue[i] = j
InSlot(j) == \E s \in Slots : slotJob[s] = j

Apart(j) ==
  /\ request[j] = "unsent" => result[j] = "none" /\ ~InQueue(j) /\ ~InSlot(j)
  /\ InQueue(j) => result[j] = "none" /\ ~InSlot(j)
  /\ InSlot(j) => result[j] = "none"
  /\ \A s, t \in Slots : slotJob[s] = j /\ slotJob[t] = j => s = t

QueuedOnce == \A i, k \in 1..Len(queue) : queue[i] = queue[k] => i = k

Busy == \A s \in Slots : thread[s] \in {"computing", "answered"} => slotJob[s] # NoJob

PoolInv == PoolTypeOK /\ QueuedOnce /\ Busy /\ \A j \in Jobs : Apart(j)

Serving == {slotJob[s] : s \in Slots} \ {NoJob}

LEMMA TypeInit == PoolInit => PoolTypeOK
<1>1. <<>> \in Seq(Jobs)
  BY EmptySeq
<1> QED BY <1>1 DEF PoolInit, PoolTypeOK

LEMMA TypeStep == PoolTypeOK /\ [PoolNext]_poolVars => PoolTypeOK'
<1> SUFFICES ASSUME PoolTypeOK, [PoolNext]_poolVars PROVE PoolTypeOK'
  OBVIOUS
<1> USE DEF PoolTypeOK
<1>1. CASE UNCHANGED poolVars
  BY <1>1 DEF poolVars
<1>2. CASE Dispatch
  <2>1. Head(queue) \in Jobs /\ Tail(queue) \in Seq(Jobs)
    BY <1>2, HeadTailProperties DEF Dispatch
  <2> QED BY <1>2, <2>1 DEF Dispatch
<1>3. CASE DispatchEnds
  BY <1>3 DEF DispatchEnds
<1>4. CASE GeneratorStep
  BY <1>4 DEF GeneratorStep, GeneratorReports, GeneratorBreaks, ConnectionsDrop, pool
<1>5. CASE ProfileStep
  <2>1. CASE ListenFails \/ Load \/ OnReport \/ OnGeneratorError \/ OnTimeout \/ CloseServer
    BY <2>1 DEF ListenFails, Load, OnReport, OnGeneratorError, OnTimeout, CloseServer, pool
  <2>2. CASE ServerClosed
    <3>1. <<>> \in Seq(Jobs)
      BY EmptySeq
    <3> QED BY <2>2, <3>1 DEF ServerClosed, Close
  <2> QED BY <1>5, <2>1, <2>2 DEF ProfileStep
<1>6. ASSUME NEW j \in Jobs, Run(j) PROVE PoolTypeOK'
  <2>1. Append(queue, j) \in Seq(Jobs)
    BY AppendProperties
  <2> QED BY <1>6, <2>1 DEF Run
<1>7. ASSUME NEW s \in Slots, ThreadStep(s) PROVE PoolTypeOK'
  BY <1>7 DEF ThreadStep, ThreadAnswers, ThreadBreaks
<1>8. ASSUME NEW s \in Slots, SlotCallback(s) PROVE PoolTypeOK'
  BY <1>8 DEF SlotCallback, OnResult, OnWorkerError, Settle
<1> QED BY <1>1, <1>2, <1>3, <1>4, <1>5, <1>6, <1>7, <1>8 DEF PoolNext

-----------------------------------------------------------------------------
(* The invariant, step by step.                                            *)
Placed == QueuedOnce /\ Busy /\ \A j \in Jobs : Apart(j)

(* Threads, connections and the profile do not move jobs.                  *)
LEMMA QuietStep ==
  ASSUME PoolInv, UNCHANGED <<queue, slotJob, result>>,
         \A j \in Jobs : request'[j] = "unsent" => request[j] = "unsent",
         \A s \in Slots : thread'[s] \in {"computing", "answered"}
                            => thread[s] \in {"computing", "answered"}
  PROVE  Placed'
  BY DEF PoolInv, Placed, QueuedOnce, Busy, Apart, InQueue, InSlot

LEMMA RunStep ==
  ASSUME PoolInv, NEW j \in Jobs, Run(j)
  PROVE  Placed'
<1> USE DEF PoolInv, PoolTypeOK
<1>1. /\ Len(queue) \in Nat /\ Len(queue') = Len(queue) + 1
      /\ queue'[Len(queue) + 1] = j /\ \A i \in 1..Len(queue) : queue'[i] = queue[i]
  BY AppendProperties, LenProperties DEF Run
<1>2. /\ request[j] = "unsent" /\ request' = [request EXCEPT ![j] = "open"]
      /\ UNCHANGED <<slotJob, result, thread>>
  BY DEF Run
<1>3. \A i \in 1..Len(queue') : i \in 1..Len(queue) \/ i = Len(queue) + 1
  BY <1>1
<1>4. ~InQueue(j) /\ ~InSlot(j) /\ result[j] = "none"
  BY <1>2 DEF Apart
<1>5. QueuedOnce'
  BY <1>1, <1>3, <1>4 DEF QueuedOnce, InQueue
<1>6. Busy'
  BY <1>2 DEF Busy
<1>7. ASSUME NEW k \in Jobs PROVE Apart(k)'
  <2>1. InQueue(k)' => InQueue(k) \/ k = j
    BY <1>1, <1>3 DEF InQueue
  <2>2. InSlot(k)' <=> InSlot(k)
    BY <1>2 DEF InSlot
  <2> QED BY <1>2, <1>4, <2>1, <2>2 DEF Apart
<1> QED BY <1>5, <1>6, <1>7 DEF Placed

LEMMA DispatchStep ==
  ASSUME PoolInv, Dispatch
  PROVE  Placed'
<1> USE DEF PoolInv, PoolTypeOK
<1> DEFINE j == Head(queue)
<1>1. /\ queue # <<>> /\ Len(queue) \in Nat /\ queue' = Tail(queue)
      /\ UNCHANGED <<result, request>>
  BY LenProperties DEF Dispatch
<1>2. /\ j \in Jobs /\ j = queue[1] /\ Len(queue') = Len(queue) - 1
      /\ 1 \in 1..Len(queue) /\ \A i \in 1..Len(queue') : queue'[i] = queue[i + 1]
  BY <1>1, HeadTailProperties
<1>3. PICK s \in Slots : /\ slotJob[s] = NoJob
                         /\ slotJob' = [slotJob EXCEPT ![s] = j]
                         /\ \/ thread' = thread
                            \/ thread' = [thread EXCEPT ![s] = "computing"]
  BY DEF Dispatch, Idle
<1>4. InQueue(j) /\ j # NoJob
  BY <1>2, PoolAssumption DEF InQueue
<1> HIDE DEF j
<1>5. \A i \in 1..Len(queue') : i + 1 \in 1..Len(queue) /\ i + 1 # 1
  BY <1>1, <1>2
<1>6. QueuedOnce'
  <2> SUFFICES ASSUME NEW i \in 1..Len(queue'), NEW k \in 1..Len(queue'),
                      queue'[i] = queue'[k]
               PROVE  i = k
    BY DEF QueuedOnce
  <2>1. i + 1 = k + 1
    BY <1>2, <1>5 DEF QueuedOnce
  <2> QED BY <2>1
<1>7. Busy'
  BY <1>3, <1>4 DEF Busy
<1>8. ASSUME NEW k \in Jobs PROVE Apart(k)'
  <2>1. InQueue(k)' => InQueue(k) /\ k # j
    BY <1>2, <1>5 DEF InQueue, QueuedOnce
  <2>2. InSlot(k)' => InSlot(k) \/ k = j
    BY <1>3 DEF InSlot
  <2>3. ASSUME NEW u \in Slots, NEW t \in Slots, slotJob'[u] = k, slotJob'[t] = k
        PROVE  u = t
    <3>1. CASE k = j
      <4>1. ~InSlot(k)
        BY <1>4, <3>1 DEF Apart
      <4> QED BY <1>3, <2>3, <4>1 DEF InSlot
    <3>2. CASE k # j
      BY <1>3, <2>3, <3>2 DEF Apart
    <3> QED BY <3>1, <3>2
  <2> QED BY <1>1, <1>4, <2>1, <2>2, <2>3 DEF Apart
<1> QED BY <1>6, <1>7, <1>8 DEF Placed

(* A slot gives its job up, which is settled if there is one.              *)
LEMMA SlotStep ==
  ASSUME PoolInv, NEW s \in Slots, SlotCallback(s)
  PROVE  Placed'
<1> USE DEF PoolInv, PoolTypeOK
<1>1. /\ UNCHANGED queue /\ slotJob' = [slotJob EXCEPT ![s] = NoJob]
      /\ \E how \in {"ready", "gone"} : thread' = [thread EXCEPT ![s] = how]
  BY DEF SlotCallback, OnResult, OnWorkerError
<1>2. \/ /\ slotJob[s] \in Jobs
         /\ \E how \in {"ok", "failed"} : result' = [result EXCEPT ![slotJob[s]] = how]
         /\ \A k \in Jobs : request'[k] = "unsent" => request[k] = "unsent"
      \/ slotJob[s] = NoJob /\ UNCHANGED <<result, request>>
  <2>1. CASE OnResult(s)
    BY <2>1 DEF OnResult, Settle, Busy
  <2>2. CASE OnWorkerError(s)
    BY <2>2 DEF OnWorkerError, Settle
  <2> QED BY <2>1, <2>2 DEF SlotCallback
<1>3. QueuedOnce' /\ Busy'
  BY <1>1 DEF QueuedOnce, Busy
<1>4. ASSUME NEW k \in Jobs PROVE Apart(k)'
  <2>1. InQueue(k)' <=> InQueue(k)
    BY <1>1 DEF InQueue
  <2>2. InSlot(k)' => InSlot(k) /\ slotJob[s] # k
    BY <1>1, PoolAssumption DEF InSlot, Apart
  <2>3. \A u \in Slots : slotJob'[u] = k => slotJob[u] = k
    BY <1>1, PoolAssumption
  <2>4. slotJob[s] = k => InSlot(k)
    BY DEF InSlot
  <2> QED BY <1>2, <2>1, <2>2, <2>3, <2>4 DEF Apart
<1> QED BY <1>3, <1>4 DEF Placed

LEMMA CloseStep ==
  ASSUME PoolInv, ServerClosed
  PROVE  Placed'
<1> USE DEF PoolInv, PoolTypeOK
<1>1. queue' = <<>> /\ Len(queue') = 0 /\ UNCHANGED <<slotJob, request>>
  BY EmptySeq DEF ServerClosed, Close
<1>2. \A k \in Jobs : result'[k] = IF InQueue(k) THEN "failed" ELSE result[k]
  BY DEF ServerClosed, Close, InQueue
<1>3. \A s \in Slots : thread'[s] = "gone"
  BY DEF ServerClosed, Close
<1>4. QueuedOnce' /\ Busy'
  BY <1>1, <1>3 DEF QueuedOnce, Busy
<1>5. ASSUME NEW k \in Jobs PROVE Apart(k)'
  BY <1>1, <1>2 DEF Apart, InQueue, InSlot
<1> QED BY <1>4, <1>5 DEF Placed

LEMMA PoolInvStep == PoolInv /\ [PoolNext]_poolVars => PoolInv'
<1> SUFFICES ASSUME PoolInv, [PoolNext]_poolVars PROVE Placed'
  BY TypeStep DEF PoolInv, Placed
<1> USE DEF PoolInv, PoolTypeOK
<1>1. CASE UNCHANGED poolVars
  BY <1>1, QuietStep DEF poolVars
<1>2. CASE Dispatch
  BY <1>2, DispatchStep
<1>3. CASE DispatchEnds
  BY <1>3, QuietStep DEF DispatchEnds
<1>4. CASE GeneratorStep
  BY <1>4, QuietStep DEF GeneratorStep, GeneratorReports, GeneratorBreaks, ConnectionsDrop, pool
<1>5. CASE ProfileStep
  <2>1. CASE ListenFails \/ Load \/ OnReport \/ OnGeneratorError \/ OnTimeout \/ CloseServer
    <3>1. UNCHANGED <<pool, request>>
      BY <2>1 DEF ListenFails, Load, OnReport, OnGeneratorError, OnTimeout, CloseServer
    <3> QED BY <3>1, QuietStep DEF pool
  <2> QED BY <1>5, <2>1, CloseStep DEF ProfileStep
<1>6. ASSUME NEW j \in Jobs, Run(j) PROVE Placed'
  BY <1>6, RunStep
<1>7. ASSUME NEW s \in Slots, ThreadStep(s) PROVE Placed'
  BY <1>7, QuietStep DEF ThreadStep, ThreadAnswers, ThreadBreaks
<1>8. ASSUME NEW s \in Slots, SlotCallback(s) PROVE Placed'
  BY <1>8, SlotStep
<1> QED BY <1>1, <1>2, <1>3, <1>4, <1>5, <1>6, <1>7, <1>8 DEF PoolNext

LEMMA PoolInvInit == PoolInit => PoolInv
<1> SUFFICES ASSUME PoolInit PROVE PoolInv
  OBVIOUS
<1>1. Len(queue) = 0
  BY EmptySeq DEF PoolInit
<1> QED BY <1>1, TypeInit, PoolAssumption
        DEF PoolInit, PoolInv, QueuedOnce, Busy, Apart, InQueue, InSlot

(* The inductive invariant: jobs are in one place at a time.               *)
THEOREM PoolInvariant == PoolSpec => []PoolInv
  BY PoolInvInit, PoolInvStep, PTL DEF PoolSpec

(* For any number of requests and workers no job waits beside an idle one. *)
THEOREM NoneIdle == PoolSpec => []NoIdleWorker
<1>1. PoolInit => NoIdleWorker
  BY DEF PoolInit, NoIdleWorker
<1>2. NoIdleWorker /\ [PoolNext]_poolVars => NoIdleWorker'
  <2> SUFFICES ASSUME NoIdleWorker, [PoolNext]_poolVars PROVE NoIdleWorker'
    OBVIOUS
  <2>1. CASE UNCHANGED <<queue, dispatching, slotJob, slotFailed>>
    BY <2>1 DEF NoIdleWorker, Idle
  <2>2. CASE Dispatch \/ (\E j \in Jobs : Run(j)) \/ (\E s \in Slots : SlotCallback(s))
    BY <2>2 DEF NoIdleWorker, Dispatch, Run, SlotCallback, OnResult, OnWorkerError
  <2>3. CASE DispatchEnds
    BY <2>3 DEF DispatchEnds, NoIdleWorker, Idle
  <2>4. CASE ServerClosed
    BY <2>4 DEF ServerClosed, Close, NoIdleWorker
  <2> QED BY <2>1, <2>2, <2>3, <2>4
          DEF PoolNext, poolVars, GeneratorStep, GeneratorReports, GeneratorBreaks,
              ConnectionsDrop, ProfileStep, ListenFails, Load, OnReport, OnGeneratorError,
              OnTimeout, CloseServer, ThreadStep, ThreadAnswers, ThreadBreaks, pool
<1> QED BY <1>1, <1>2, PTL DEF PoolSpec

-----------------------------------------------------------------------------
(* The refinement.                                                         *)
LEMMA RunRefines ==
  ASSUME PoolInv, NEW j \in Jobs, Run(j)
  PROVE  Board!Accept(j)
<1>1. result[j] = "none" /\ ~InQueue(j) /\ ~InSlot(j)
  BY DEF PoolInv, Apart, Run
<1>2. Board!Fresh(j)
  BY <1>1 DEF Board!Fresh, Board!Waiting, InQueue, InSlot
<1> QED BY <1>2 DEF Board!Accept, Run

(* An idle slot leaves a place.                                            *)
LEMMA PlaceLeft ==
  ASSUME PoolInv, NEW s \in Slots, slotJob[s] = NoJob
  PROVE  Board!Cardinality(Serving) < Size
<1>1. Size \in Nat /\ IsFiniteSet(Slots) /\ Cardinality(Slots) = Size
  BY PoolAssumption, FS_Interval DEF Slots
<1>2. IsFiniteSet(Slots \ {s}) /\ Cardinality(Slots \ {s}) = Size - 1
  BY <1>1, FS_RemoveElement
<1> DEFINE image == {slotJob[t] : t \in Slots \ {s}}
<1>3. IsFiniteSet(image) /\ Cardinality(image) <= Cardinality(Slots \ {s})
  <2> DEFINE f == [t \in Slots \ {s} |-> slotJob[t]]
  <2>1. f \in Surjection(Slots \ {s}, image)
    BY DEF Surjection
  <2> QED BY <1>2, <2>1, FS_Surjection
<1>4. Serving \subseteq image
  BY DEF Serving
<1>5. IsFiniteSet(Serving) /\ Cardinality(Serving) <= Cardinality(image)
  <2> HIDE DEF image
  <2> QED BY <1>3, <1>4, FS_Subset
<1>6. Cardinality(Serving) \in Nat /\ Cardinality(image) \in Nat
  <2> HIDE DEF image
  <2> QED BY <1>3, <1>5, FS_CardinalityType
<1>7. Cardinality(Serving) < Size
  <2> HIDE DEF image
  <2> QED BY <1>1, <1>2, <1>3, <1>5, <1>6
<1>8. Board!Cardinality(Serving) = Cardinality(Serving)
  BY DEF Cardinality, Board!Cardinality
<1> QED BY <1>7, <1>8

LEMMA DispatchRefines ==
  ASSUME PoolInv, Dispatch
  PROVE  Board!Start
<1> DEFINE j == Head(queue)
<1>1. queue # <<>> /\ queue' = Tail(queue) /\ UNCHANGED result
  BY DEF Dispatch
<1>2. j \in Jobs
  BY <1>1, HeadTailProperties DEF PoolInv, PoolTypeOK
<1>3. PICK s \in Slots : slotJob[s] = NoJob /\ slotJob' = [slotJob EXCEPT ![s] = j]
  BY DEF Dispatch, Idle
<1> HIDE DEF j
<1>4. Serving' = Serving \cup {j}
  BY <1>2, <1>3, PoolAssumption DEF Serving, PoolInv, PoolTypeOK
<1> QED BY <1>1, <1>3, <1>4, PlaceLeft DEF Board!Start, Serving, j

LEMMA SlotRefines ==
  ASSUME PoolInv, NEW s \in Slots, SlotCallback(s)
  PROVE  (\E j \in Jobs : Board!Answer(j)) \/ UNCHANGED Board!service
<1>1. UNCHANGED queue /\ slotJob' = [slotJob EXCEPT ![s] = NoJob]
  BY DEF SlotCallback, OnResult, OnWorkerError
<1>2. \/ slotJob[s] \in Jobs
         /\ \E how \in {"ok", "failed"} : result' = [result EXCEPT ![slotJob[s]] = how]
      \/ slotJob[s] = NoJob /\ UNCHANGED result
  BY DEF SlotCallback, OnResult, OnWorkerError, Settle, PoolInv, PoolTypeOK, Busy
<1>3. CASE slotJob[s] = NoJob /\ UNCHANGED result
  <2>1. slotJob' = slotJob
    BY <1>1, <1>3 DEF PoolInv, PoolTypeOK
  <2> QED BY <1>1, <1>3, <2>1 DEF Board!service
<1>4. CASE /\ slotJob[s] \in Jobs
           /\ \E how \in {"ok", "failed"} : result' = [result EXCEPT ![slotJob[s]] = how]
  <2>1. PICK j \in Jobs : j = slotJob[s]
    BY <1>4
  <2>2. result[j] = "none" /\ j \in Serving
    BY <2>1, PoolAssumption DEF PoolInv, Apart, InSlot, Serving
  <2>3. Serving' = Serving \ {j}
    BY <1>1, <2>1, PoolAssumption DEF Serving, PoolInv, PoolTypeOK, Apart
  <2> QED BY <1>1, <1>4, <2>1, <2>2, <2>3 DEF Board!Answer, Serving
<1> QED BY <1>2, <1>3, <1>4

LEMMA CloseRefines ==
  ASSUME PoolInv, ServerClosed
  PROVE  Board!Withdraw \/ UNCHANGED Board!service
<1>1. queue \in Seq(Jobs) /\ Len(queue) \in Nat /\ queue' = <<>> /\ UNCHANGED slotJob
  BY LenProperties DEF PoolInv, PoolTypeOK, ServerClosed, Close
<1>2. result' = [j \in Jobs |-> IF j \in {queue[i] : i \in 1..Len(queue)} THEN "failed"
                                ELSE result[j]]
  BY DEF ServerClosed, Close
<1>3. CASE queue = <<>>
  <2>1. Len(queue) = 0
    BY <1>3, EmptySeq
  <2>2. result' = result
    BY <1>2, <2>1 DEF PoolInv, PoolTypeOK
  <2> QED BY <1>1, <1>3, <2>2 DEF Board!service
<1>4. CASE queue # <<>>
  <2> DEFINE kept == [k \in 1..0 |-> 1]
             gone == {queue[i] : i \in (1..Len(queue)) \ {kept[k] : k \in 1..0}}
  <2>1. 0 \in 0..(Len(queue) - 1) /\ kept \in [1..0 -> 1..Len(queue)]
    BY <1>1, <1>4, EmptySeq
  <2>2. gone = {queue[i] : i \in 1..Len(queue)}
    OBVIOUS
  <2>3. queue' = [i \in 1..0 |-> queue[kept[i]]]
    BY <1>1
  <2>4. result' = [j \in Jobs |-> IF j \in gone THEN "failed" ELSE result[j]]
    BY <1>2, <2>2
  <2>5. \A i, k \in 1..0 : i < k => kept[i] < kept[k]
    OBVIOUS
  <2> HIDE DEF kept
  <2> QED BY <1>1, <2>1, <2>3, <2>4, <2>5 DEF Board!Withdraw
<1> QED BY <1>3, <1>4

LEMMA StepRefines == PoolInv /\ [PoolNext]_poolVars => [Board!Next]_(Board!service)
<1> SUFFICES ASSUME PoolInv, [PoolNext]_poolVars PROVE Board!Next \/ UNCHANGED Board!service
  OBVIOUS
<1>1. CASE UNCHANGED <<queue, slotJob, result>>
  BY <1>1 DEF Board!service
<1>2. CASE Dispatch
  BY <1>2, DispatchRefines DEF Board!Next
<1>3. ASSUME NEW j \in Jobs, Run(j) PROVE Board!Next
  BY <1>3, RunRefines DEF Board!Next
<1>4. ASSUME NEW s \in Slots, SlotCallback(s) PROVE Board!Next \/ UNCHANGED Board!service
  BY <1>4, SlotRefines DEF Board!Next
<1>5. CASE ServerClosed
  BY <1>5, CloseRefines DEF Board!Next
<1>6. CASE DispatchEnds \/ GeneratorStep \/ \E s \in Slots : ThreadStep(s)
  <2>1. UNCHANGED <<queue, slotJob, result>>
    BY <1>6 DEF DispatchEnds, GeneratorStep, GeneratorReports, GeneratorBreaks,
       ConnectionsDrop, ThreadStep, ThreadAnswers, ThreadBreaks, pool
  <2> QED BY <1>1, <2>1
<1>7. CASE ProfileStep
  <2>1. UNCHANGED <<queue, slotJob, result>> \/ ServerClosed
    BY <1>7 DEF ProfileStep, ListenFails, Load, OnReport, OnGeneratorError, OnTimeout,
       CloseServer, pool
  <2> QED BY <1>1, <1>5, <2>1
<1>8. CASE UNCHANGED poolVars
  <2>1. UNCHANGED <<queue, slotJob, result>>
    BY <1>8 DEF poolVars
  <2> QED BY <1>1, <2>1
<1>9. CASE PoolNext
  <2>1. \/ Dispatch \/ DispatchEnds \/ GeneratorStep \/ ProfileStep
        \/ (\E j \in Jobs : Run(j))
        \/ (\E s \in Slots : ThreadStep(s))
        \/ (\E s \in Slots : SlotCallback(s))
    BY <1>9 DEF PoolNext
  <2> QED BY <2>1, <1>2, <1>3, <1>4, <1>6, <1>7
<1> QED BY <1>8, <1>9

LEMMA InitRefines == PoolInit => Board!Init
  BY DEF PoolInit, Board!Init

(* For any number of requests and workers the pool is a JobService, however *)
(* results, failures and the closing of the pool interleave.               *)
THEOREM PoolRefinesJobService == PoolSpec => PoolImplementsJobService
  BY InitRefines, StepRefines, PoolInvariant, PTL
     DEF PoolSpec, PoolImplementsJobService, Board!Spec
=============================================================================
