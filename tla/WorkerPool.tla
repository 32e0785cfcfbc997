------------------------------ MODULE WorkerPool ------------------------------
(***************************************************************************)
(* The "worker" profile of the load comparison (src/load-lab.js): the      *)
(* temporary HTTP server, whose /cpu handler runs its work in a            *)
(* BoundedWorkerPool, the CPU workers (src/load-cpu-worker.js) and the     *)
(* load generator (src/load-generator-worker.js).                          *)
(*                                                                         *)
(* A job is one /cpu request; /fast requests are answered by the handler   *)
(* itself and do not touch the pool.  A callback of the server is followed *)
(* by the loop of dispatch(), one Dispatch per assigned job; no other      *)
(* callback runs meanwhile.  Latencies and counters are left out.          *)
(***************************************************************************)
EXTENDS Integers, Sequences, FiniteSets

CONSTANTS
  Jobs,   \* the /cpu requests the generator can send before its deadline
  Size    \* the number of workers, new BoundedWorkerPool(2)

Slots == 1..Size
NoJob == "none"

ASSUME PoolAssumption == IsFiniteSet(Jobs) /\ NoJob \notin Jobs /\ Size \in Nat \ {0}

VARIABLES
  queue,       \* this.queue
  slotJob,     \* slot.job
  slotFailed,  \* slot.failed
  dispatching, \* the loop of dispatch() is running
  thread,      \* the worker thread of a slot and its event under way
  result,      \* how the promise of run() was settled
  request,     \* the HTTP request of a job, as its connection sees it
  generator,   \* the load generator thread
  profile      \* how far runProfile() is

pool == <<queue, slotJob, slotFailed, dispatching, thread, result>>
poolVars == <<queue, slotJob, slotFailed, dispatching, thread, result, request,
              generator, profile>>

PoolTypeOK ==
  /\ queue \in Seq(Jobs)
  /\ slotJob \in [Slots -> Jobs \cup {NoJob}]
  /\ slotFailed \in [Slots -> BOOLEAN]
  /\ dispatching \in BOOLEAN
  /\ thread \in [Slots -> {"ready", "computing", "answered", "broken", "gone"}]
  /\ result \in [Jobs -> {"none", "ok", "failed"}]
  /\ request \in [Jobs -> {"unsent", "open", "answered", "lost"}]
  /\ generator \in {"none", "running", "reported", "dying", "gone"}
  /\ profile \in {"starting", "loading", "closing", "draining", "over", "refused"}

PoolInit ==
  /\ queue = <<>>
  /\ slotJob = [s \in Slots |-> NoJob]
  /\ slotFailed = [s \in Slots |-> FALSE]
  /\ dispatching = FALSE
  /\ thread = [s \in Slots |-> "ready"]
  /\ result = [j \in Jobs |-> "none"]
  /\ request = [j \in Jobs |-> "unsent"]
  /\ generator = "none"
  /\ profile = "starting"

-----------------------------------------------------------------------------
(* BoundedWorkerPool.                                                      *)

Idle(s) == ~slotFailed[s] /\ slotJob[s] = NoJob

(* The promise of a job is settled and the handler answers, with 200 or    *)
(* 500, if its connection is still there.                                  *)
Settle(j, how) ==
  /\ result' = [result EXCEPT ![j] = how]
  /\ request' = IF request[j] = "open" THEN [request EXCEPT ![j] = "answered"]
                ELSE request

(* A request reaches the handler, which calls run().                       *)
Run(j) ==
  /\ ~dispatching
  /\ generator = "running"
  /\ request[j] = "unsent"
  /\ request' = [request EXCEPT ![j] = "open"]
  /\ queue' = Append(queue, j)
  /\ dispatching' = TRUE
  /\ UNCHANGED <<slotJob, slotFailed, thread, result, generator, profile>>

(* One turn of the loop that finds a slot.  A message to a worker that has *)
(* just broken is lost; its 'error' event is still to come.                *)
DispatchPeek == \* mutant: queue[0] for queue.shift()
  /\ dispatching
  /\ queue # <<>>
  /\ \E s \in Slots :
       /\ Idle(s) /\ \A t \in 1..(s - 1) : ~Idle(t)
       /\ slotJob' = [slotJob EXCEPT ![s] = Head(queue)]
       /\ thread' = IF thread[s] = "ready" THEN [thread EXCEPT ![s] = "computing"] ELSE thread
  /\ UNCHANGED <<queue, slotFailed, dispatching, result, request, generator, profile>>

Dispatch ==
  /\ dispatching
  /\ queue # <<>>
  /\ \E s \in Slots :
       /\ Idle(s) /\ \A t \in 1..(s - 1) : ~Idle(t)
       /\ slotJob' = [slotJob EXCEPT ![s] = Head(queue)]
       /\ thread' = IF thread[s] = "ready" THEN [thread EXCEPT ![s] = "computing"] ELSE thread
  /\ queue' = Tail(queue)
  /\ UNCHANGED <<slotFailed, dispatching, result, request, generator, profile>>

DispatchEnds ==
  /\ dispatching
  /\ queue = <<>> \/ \A s \in Slots : ~Idle(s)
  /\ dispatching' = FALSE
  /\ UNCHANGED <<queue, slotJob, slotFailed, thread, result, request, generator, profile>>

(* worker.on('message')                                                    *)
OnResultUndispatched(s) == \* mutant: no dispatch()
  /\ ~dispatching
  /\ thread[s] = "answered"
  /\ thread' = [thread EXCEPT ![s] = "ready"]
  /\ slotJob' = [slotJob EXCEPT ![s] = NoJob]
  /\ Settle(slotJob[s], "ok")
  /\ UNCHANGED <<queue, slotFailed, dispatching, generator, profile>>

OnResult(s) ==
  /\ ~dispatching
  /\ thread[s] = "answered"
  /\ thread' = [thread EXCEPT ![s] = "ready"]
  /\ slotJob' = [slotJob EXCEPT ![s] = NoJob]
  /\ Settle(slotJob[s], "ok")
  /\ dispatching' = TRUE
  /\ UNCHANGED <<queue, slotFailed, generator, profile>>

(* worker.on('error')                                                      *)
OnWorkerError(s) ==
  /\ ~dispatching
  /\ thread[s] = "broken"
  /\ thread' = [thread EXCEPT ![s] = "gone"]
  /\ slotFailed' = [slotFailed EXCEPT ![s] = TRUE]
  /\ slotJob' = [slotJob EXCEPT ![s] = NoJob]
  /\ IF slotJob[s] = NoJob THEN UNCHANGED <<result, request>> ELSE Settle(slotJob[s], "failed")
  /\ dispatching' = TRUE
  /\ UNCHANGED <<queue, generator, profile>>

(* close(): what is queued is rejected, what is in a slot never answered.  *)
Close ==
  LET queued == {queue[i] : i \in 1..Len(queue)} IN
    /\ queue' = <<>>
    /\ result' = [j \in Jobs |-> IF j \in queued THEN "failed" ELSE result[j]]
    /\ thread' = [s \in Slots |-> "gone"]
    /\ UNCHANGED <<slotJob, slotFailed, dispatching>>

-----------------------------------------------------------------------------
(* A worker thread answers its job, or fails: at its start, for want of    *)
(* memory, or while it computes.                                           *)
ThreadAnswers(s) ==
  /\ thread[s] = "computing"
  /\ thread' = [thread EXCEPT ![s] = "answered"]
  /\ UNCHANGED <<queue, slotJob, slotFailed, dispatching, result, request, generator, profile>>

ThreadBreaks(s) ==
  /\ thread[s] \in {"ready", "computing"}
  /\ thread' = [thread EXCEPT ![s] = "broken"]
  /\ UNCHANGED <<queue, slotJob, slotFailed, dispatching, result, request, generator, profile>>

(* The virtual clients stop at the deadline; the generator reports when    *)
(* all of them have the answer to their last request.                      *)
GeneratorReports ==
  /\ generator = "running"
  /\ \A j \in Jobs : request[j] # "open"
  /\ generator' = "reported"
  /\ UNCHANGED <<pool, request, profile>>

GeneratorBreaks ==
  /\ generator = "running"
  /\ generator' = "dying"
  /\ UNCHANGED <<pool, request, profile>>

(* A thread that ends takes its sockets with it.                           *)
ConnectionsDrop ==
  /\ generator = "dying"
  /\ generator' = "gone"
  /\ request' = [j \in Jobs |-> IF request[j] = "open" THEN "lost" ELSE request[j]]
  /\ UNCHANGED <<pool, profile>>

-----------------------------------------------------------------------------
(* runProfile.  The pool exists before the server listens; a server that   *)
(* cannot listen leaves it as it is.                                       *)
ListenFails ==
  /\ profile = "starting"
  /\ profile' = "refused"
  /\ UNCHANGED <<pool, request, generator>>

(* Listening, warmed up, the generator started; or the warm-up failed.     *)
Load ==
  /\ profile = "starting"
  /\ \/ profile' = "loading" /\ generator' = "running"
     \/ profile' = "closing" /\ UNCHANGED generator
  /\ UNCHANGED <<pool, request>>

(* startGenerator: the first of message, error and timeout settles it.     *)
OnReport ==
  /\ ~dispatching
  /\ profile = "loading" /\ generator = "reported"
  /\ profile' = "closing"
  /\ generator' = "dying"
  /\ UNCHANGED <<pool, request>>

OnGeneratorError ==
  /\ ~dispatching
  /\ profile = "loading" /\ generator \in {"dying", "gone"}
  /\ profile' = "closing"
  /\ UNCHANGED <<pool, request, generator>>

OnTimeoutKept == \* mutant: the timeout rejects, but leaves the thread alone
  /\ ~dispatching
  /\ profile = "loading"
  /\ profile' = "closing"
  /\ UNCHANGED <<pool, request, generator>>

OnTimeout ==
  /\ ~dispatching
  /\ profile = "loading"
  /\ profile' = "closing"
  /\ generator' = IF generator = "gone" THEN "gone" ELSE "dying"
  /\ UNCHANGED <<pool, request>>

(* closeServer(): no new connection, and it waits for the open ones.       *)
CloseServer ==
  /\ ~dispatching
  /\ profile = "closing"
  /\ profile' = "draining"
  /\ UNCHANGED <<pool, request, generator>>

ServerClosed ==
  /\ ~dispatching
  /\ profile = "draining"
  /\ \A j \in Jobs : request[j] # "open"
  /\ profile' = "over"
  /\ Close
  /\ UNCHANGED <<request, generator>>

-----------------------------------------------------------------------------
ThreadStep(s) == ThreadAnswers(s) \/ ThreadBreaks(s)
SlotCallback(s) == OnResult(s) \/ OnWorkerError(s)
GeneratorStep == GeneratorReports \/ GeneratorBreaks \/ ConnectionsDrop
ProfileStep ==
  \/ ListenFails \/ Load \/ OnReport \/ OnGeneratorError \/ OnTimeout
  \/ CloseServer \/ ServerClosed

PoolNext ==
  \/ Dispatch \/ DispatchEnds \/ GeneratorStep \/ ProfileStep
  \/ \E j \in Jobs : Run(j)
  \/ \E s \in Slots : ThreadStep(s) \/ SlotCallback(s)

PoolSpec == PoolInit /\ [][PoolNext]_poolVars

(* The event loop handles what is pending and sockets of a dead thread     *)
(* close; workers and generator owe nothing.                               *)
PoolFairness ==
  /\ WF_poolVars(Dispatch) /\ WF_poolVars(DispatchEnds)
  /\ WF_poolVars(ConnectionsDrop) /\ WF_poolVars(ProfileStep)

-----------------------------------------------------------------------------
(* The pool as a JobService: its places are its workers.                   *)
Board == INSTANCE JobService WITH
  Places <- Size,
  waiting <- queue,
  serving <- {slotJob[s] : s \in Slots} \ {NoJob},
  answer <- result

(* The pool is a JobService with one place per worker, also where it stays *)
(* idle: a job is settled at most once, in the order of arrival, with a    *)
(* result only from a worker, however results, failures and the closing of *)
(* the pool interleave (src/load-lab.js:38, :44, :71, :82).                *)
PoolImplementsJobService == Board!Spec

(* No job waits beside an idle worker: results and failures both dispatch. *)
NoIdleWorker ==
  ~dispatching /\ queue # <<>> => \A s \in Slots : ~Idle(s)

(* A profile that ended has no worker left, and no request hanging.        *)
NothingLeft ==
  profile = "over" =>
    /\ \A s \in Slots : thread[s] = "gone"
    /\ \A j \in Jobs : request[j] # "open"
=============================================================================
