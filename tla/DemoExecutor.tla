---------------------------- MODULE DemoExecutor ----------------------------
(***************************************************************************)
(* The disposable executor of CPU-blocking demos                           *)
(* (src/disposable-demo-executor.js) and the child process it forks for    *)
(* every run (src/disposable-demo-child.js).                               *)
(*                                                                         *)
(* The server is single threaded: a request, an IPC message, a timer or an *)
(* event is handled to its end, and so are the promise reactions it        *)
(* triggered, before the next one.  Those reactions, and the loop of       *)
(* drain(), are actions of their own here; while one of them is pending    *)
(* (Busy) no callback runs.  The children run in parallel with all this.   *)
(***************************************************************************)
EXTENDS Integers, Sequences, FiniteSets, SequencesExt

CONSTANTS
  Jobs,            \* the calls of run()
  MaxConcurrent,   \* config.maxConcurrent
  MaxQueue,        \* config.maxQueue
  MaxEvents,       \* config.maxEvents
  SpawnMayFail,    \* fork() may throw or end in an 'error' event
  DrainBeforeExit, \* 'exit' is emitted after the channel is drained
  MaxChan          \* bound: messages of one child not yet handled

ASSUME ExecutorAssumption ==
  /\ IsFiniteSet(Jobs)
  /\ MaxConcurrent \in Nat \ {0}
  /\ MaxQueue \in Nat
  /\ MaxEvents \in Nat
  /\ SpawnMayFail \in BOOLEAN
  /\ DrainBeforeExit \in BOOLEAN
  /\ MaxChan \in Nat

VARIABLES
  active,         \* this.active
  queue,          \* this.queue
  draining,       \* the loop of drain() is running
  phase,          \* how far the call of run() is
  outcome,        \* how its promise is or will be settled
  aborted,        \* signal.aborted
  timer,          \* the timeout of executeDemoChild is armed
  events,         \* eventCount
  receivedDone,   \* receivedDone
  activeChildren, \* the set the exit hook of the server kills
  child,          \* the process
  killed,         \* a kill signal is on its way to it
  chan            \* its messages not yet handled

control == <<active, queue, draining>>
host == <<active, queue, draining, phase, outcome, aborted, timer, events,
          receivedDone, activeChildren>>
vars == <<active, queue, draining, phase, outcome, aborted, timer, events,
          receivedDone, activeChildren, child, killed, chan>>

(* "settled": the promise of executeDemoChild is settled, the caller's not *)
(* yet; "freeing": the caller's is, the slot is not free yet.              *)
Phases == {"new", "queued", "running", "settled", "freeing", "over"}
Outcomes == {"none", "ok", "failed", "aborted", "full"}
Live == {"booting", "working", "done", "failed"}
Processes == Live \cup {"none", "exited", "crashed", "reaped"}
Messages == {"ready", "event", "oversized", "done", "error"}

TypeOK ==
  /\ active \in Nat
  /\ queue \in Seq(Jobs)
  /\ draining \in BOOLEAN
  /\ phase \in [Jobs -> Phases]
  /\ outcome \in [Jobs -> Outcomes]
  /\ aborted \in [Jobs -> BOOLEAN]
  /\ timer \in [Jobs -> BOOLEAN]
  /\ events \in [Jobs -> Nat]
  /\ receivedDone \in [Jobs -> BOOLEAN]
  /\ activeChildren \subseteq Jobs
  /\ child \in [Jobs -> Processes]
  /\ killed \in [Jobs -> BOOLEAN]
  /\ chan \in [Jobs -> Seq(Messages)]

Init ==
  /\ active = 0
  /\ queue = <<>>
  /\ draining = FALSE
  /\ phase = [j \in Jobs |-> "new"]
  /\ outcome = [j \in Jobs |-> "none"]
  /\ aborted = [j \in Jobs |-> FALSE]
  /\ timer = [j \in Jobs |-> FALSE]
  /\ events = [j \in Jobs |-> 0]
  /\ receivedDone = [j \in Jobs |-> FALSE]
  /\ activeChildren = {}
  /\ child = [j \in Jobs |-> "none"]
  /\ killed = [j \in Jobs |-> FALSE]
  /\ chan = [j \in Jobs |-> <<>>]

(* A promise reaction or the drain loop is to run before any callback.     *)
Busy == draining \/ \E j \in Jobs : phase[j] \in {"settled", "freeing"}

-----------------------------------------------------------------------------
(* DisposableDemoExecutor.                                                 *)

Saturated == active >= MaxConcurrent /\ Len(queue) >= MaxQueue

RunRefused(j) ==
  /\ ~Busy
  /\ phase[j] = "new"
  /\ aborted[j] \/ Saturated
  /\ phase' = [phase EXCEPT ![j] = "over"]
  /\ outcome' = [outcome EXCEPT ![j] = IF aborted[j] THEN "aborted" ELSE "full"]
  /\ UNCHANGED <<control, aborted, timer, events, receivedDone, activeChildren,
                 child, killed, chan>>

RunAccepted(j) ==
  /\ ~Busy
  /\ phase[j] = "new"
  /\ ~aborted[j] /\ ~Saturated
  /\ phase' = [phase EXCEPT ![j] = "queued"]
  /\ queue' = Append(queue, j)
  /\ draining' = TRUE
  /\ UNCHANGED <<active, outcome, aborted, timer, events, receivedDone,
                 activeChildren, child, killed, chan>>

Run(j) == RunRefused(j) \/ RunAccepted(j)

MayDrain == active < MaxConcurrent /\ queue # <<>>

(* executeDemoChild up to the return of its promise.  A failed spawn is    *)
(* reported by an 'error' event (no process); or fork() throws, or leaves  *)
(* no stdout to listen to, and the promise is rejected at once.            *)
Fork(j) ==
  \/ /\ phase' = [phase EXCEPT ![j] = "running"]
     /\ timer' = [timer EXCEPT ![j] = TRUE]
     /\ activeChildren' = activeChildren \cup {j}
     /\ child' \in {[child EXCEPT ![j] = "booting"]} \cup (IF SpawnMayFail THEN {child} ELSE {})
     /\ UNCHANGED outcome
  \/ /\ SpawnMayFail
     /\ phase' = [phase EXCEPT ![j] = "settled"]
     /\ outcome' = [outcome EXCEPT ![j] = "failed"]
     /\ activeChildren' \in {activeChildren, activeChildren \cup {j}}
     /\ UNCHANGED <<timer, child>>

DrainOne ==
  /\ draining
  /\ MayDrain
  /\ queue' = Tail(queue)
  /\ LET j == Head(queue) IN
       IF aborted[j]
       THEN /\ phase' = [phase EXCEPT ![j] = "over"]
            /\ outcome' = [outcome EXCEPT ![j] = "aborted"]
            /\ UNCHANGED <<active, timer, activeChildren, child>>
       ELSE /\ active' = active + 1
            /\ Fork(j)
  /\ UNCHANGED <<draining, aborted, events, receivedDone, killed, chan>>

DrainEnds ==
  /\ draining
  /\ ~MayDrain
  /\ draining' = FALSE
  /\ UNCHANGED <<active, queue, phase, outcome, aborted, timer, events,
                 receivedDone, activeChildren, child, killed, chan>>

(* .then(job.resolve, job.reject)                                          *)
SettleCaller(j) ==
  /\ ~draining
  /\ phase[j] = "settled"
  /\ phase' = [phase EXCEPT ![j] = "freeing"]
  /\ UNCHANGED <<control, outcome, aborted, timer, events, receivedDone,
                 activeChildren, child, killed, chan>>

(* .finally(...)                                                           *)
FreeSlotAgain(j) == \* mutant: .finally runs again and again, without Math.max
  /\ ~draining
  /\ phase[j] = "freeing"
  /\ active' = active - 1
  /\ UNCHANGED <<queue, draining, phase, outcome, aborted, timer, events,
                 receivedDone, activeChildren, child, killed, chan>>

FreeSlotKept(j) == \* mutant: .then instead of .finally
  /\ ~draining
  /\ phase[j] = "freeing"
  /\ phase' = [phase EXCEPT ![j] = "over"]
  /\ active' = IF outcome[j] = "ok" THEN active - 1 ELSE active
  /\ draining' = TRUE
  /\ UNCHANGED <<queue, outcome, aborted, timer, events, receivedDone,
                 activeChildren, child, killed, chan>>

FreeSlotUndrained(j) == \* mutant: no drain()
  /\ ~draining
  /\ phase[j] = "freeing"
  /\ phase' = [phase EXCEPT ![j] = "over"]
  /\ active' = IF active > 0 THEN active - 1 ELSE 0
  /\ UNCHANGED <<queue, draining, outcome, aborted, timer, events, receivedDone,
                 activeChildren, child, killed, chan>>

FreeSlot(j) ==
  /\ ~draining
  /\ phase[j] = "freeing"
  /\ phase' = [phase EXCEPT ![j] = "over"]
  /\ active' = IF active > 0 THEN active - 1 ELSE 0
  /\ draining' = TRUE
  /\ UNCHANGED <<queue, outcome, aborted, timer, events, receivedDone,
                 activeChildren, child, killed, chan>>

-----------------------------------------------------------------------------
(* executeDemoChild.                                                       *)

(* finish(error), which does nothing once settled.                         *)
FinishUnkilled(j, result) == \* mutant: no kill()
  /\ phase' = [phase EXCEPT ![j] = "settled"]
  /\ outcome' = [outcome EXCEPT ![j] = result]
  /\ timer' = [timer EXCEPT ![j] = FALSE]
  /\ UNCHANGED killed

Finish(j, result) ==
  /\ phase' = [phase EXCEPT ![j] = "settled"]
  /\ outcome' = [outcome EXCEPT ![j] = result]
  /\ timer' = [timer EXCEPT ![j] = FALSE]
  /\ killed' = IF child[j] \in Live THEN [killed EXCEPT ![j] = TRUE] ELSE killed

(* The signal of the caller: job.onAbort while queued, onAbort of          *)
(* executeDemoChild while running.                                         *)
AbortQueuedInPlace(j) == \* mutant: no splice
  /\ phase[j] = "queued"
  /\ phase' = [phase EXCEPT ![j] = "over"]
  /\ outcome' = [outcome EXCEPT ![j] = "aborted"]
  /\ UNCHANGED <<queue, timer, killed>>

AbortQueued(j) ==
  /\ phase[j] = "queued"
  /\ \E i \in 1..Len(queue) : queue[i] = j /\ queue' = RemoveAt(queue, i)
  /\ phase' = [phase EXCEPT ![j] = "over"]
  /\ outcome' = [outcome EXCEPT ![j] = "aborted"]
  /\ UNCHANGED <<timer, killed>>

AbortRunning(j) ==
  /\ phase[j] = "running"
  /\ Finish(j, "aborted")
  /\ UNCHANGED queue

AbortIgnored(j) ==
  /\ phase[j] \in {"new", "over"}
  /\ UNCHANGED <<queue, phase, outcome, timer, killed>>

Abort(j) ==
  /\ ~Busy
  /\ ~aborted[j]
  /\ aborted' = [aborted EXCEPT ![j] = TRUE]
  /\ AbortQueued(j) \/ AbortRunning(j) \/ AbortIgnored(j)
  /\ UNCHANGED <<active, draining, events, receivedDone, activeChildren, child, chan>>

OnTimeoutUntilDone(j) == \* mutant: the timeout is cleared by "done"
  /\ ~Busy
  /\ timer[j] /\ phase[j] = "running" /\ ~receivedDone[j]
  /\ Finish(j, "failed")
  /\ UNCHANGED <<control, aborted, events, receivedDone, activeChildren, child, chan>>

OnTimeout(j) ==
  /\ ~Busy
  /\ timer[j] /\ phase[j] = "running"
  /\ Finish(j, "failed")
  /\ UNCHANGED <<control, aborted, events, receivedDone, activeChildren, child, chan>>

(* collectStdio above maxStdioBytes.                                       *)
OnStdioLimit(j) ==
  /\ ~Busy
  /\ phase[j] = "running" /\ child[j] \in Live
  /\ Finish(j, "failed")
  /\ UNCHANGED <<control, aborted, events, receivedDone, activeChildren, child, chan>>

OnSpawnError(j) ==
  /\ ~Busy
  /\ phase[j] = "running" /\ child[j] = "none"
  /\ Finish(j, "failed")
  /\ UNCHANGED <<control, aborted, events, receivedDone, activeChildren, child, chan>>

Take(j) ==
  /\ ~Busy
  /\ chan[j] # <<>>
  /\ chan' = [chan EXCEPT ![j] = Tail(@)]
  /\ UNCHANGED <<control, aborted, activeChildren, child>>

OnMessageIgnored(j) ==
  /\ Take(j)
  /\ phase[j] # "running"
  /\ UNCHANGED <<phase, outcome, timer, killed, events, receivedDone>>

OnEventLate(j) == \* mutant: no look at settled
  /\ Take(j)
  /\ Head(chan[j]) = "event"
  /\ events' = [events EXCEPT ![j] = @ + 1]
  /\ UNCHANGED <<phase, outcome, timer, killed, receivedDone>>

OnEvent(j) ==
  /\ Take(j)
  /\ phase[j] = "running"
  /\ Head(chan[j]) = "event"
  /\ events' = [events EXCEPT ![j] = @ + 1]
  /\ IF events[j] + 1 > MaxEvents
     THEN Finish(j, "failed")
     ELSE UNCHANGED <<phase, outcome, timer, killed>>
  /\ UNCHANGED receivedDone

OnDoneFinishes(j) == \* mutant: "done" is taken for the end of the child
  /\ Take(j)
  /\ phase[j] = "running"
  /\ Head(chan[j]) = "done"
  /\ receivedDone' = [receivedDone EXCEPT ![j] = TRUE]
  /\ Finish(j, "ok")
  /\ UNCHANGED events

OnDoneForgotten(j) == \* mutant: receivedDone is not set
  /\ Take(j)
  /\ phase[j] = "running"
  /\ Head(chan[j]) = "done"
  /\ UNCHANGED <<phase, outcome, timer, killed, events, receivedDone>>

OnDone(j) ==
  /\ Take(j)
  /\ phase[j] = "running"
  /\ Head(chan[j]) = "done"
  /\ receivedDone' = [receivedDone EXCEPT ![j] = TRUE]
  /\ UNCHANGED <<phase, outcome, timer, killed, events>>

OnReady(j) ==
  /\ Take(j)
  /\ phase[j] = "running"
  /\ Head(chan[j]) = "ready"
  /\ UNCHANGED <<phase, outcome, timer, killed, events, receivedDone>>

(* An error message, a malformed one, or more than maxIpcBytes in all.     *)
OnFailure(j) ==
  /\ Take(j)
  /\ phase[j] = "running"
  /\ Head(chan[j]) \in {"error", "oversized"}
  /\ Finish(j, "failed")
  /\ UNCHANGED <<events, receivedDone>>

OnMessage(j) ==
  OnMessageIgnored(j) \/ OnEvent(j) \/ OnDone(j) \/ OnReady(j) \/ OnFailure(j)

OnExit(j) ==
  /\ ~Busy
  /\ child[j] \in {"exited", "crashed"}
  /\ DrainBeforeExit => chan[j] = <<>>
  /\ child' = [child EXCEPT ![j] = "reaped"]
  /\ activeChildren' = activeChildren \ {j}
  /\ IF phase[j] # "running" THEN UNCHANGED <<phase, outcome, timer, killed>>
     ELSE Finish(j, IF child[j] = "exited" /\ receivedDone[j] THEN "ok" ELSE "failed")
  /\ UNCHANGED <<control, aborted, events, receivedDone, chan>>

-----------------------------------------------------------------------------
(* The child process.                                                      *)

(* process.send: nothing arrives once the parent has disconnected.         *)
Send(j, message) ==
  /\ Len(chan[j]) < MaxChan
  /\ chan' = IF phase[j] = "running" THEN [chan EXCEPT ![j] = Append(@, message)]
             ELSE chan

ChildReady(j) ==
  /\ child[j] = "booting"
  /\ Send(j, "ready")
  /\ child' = [child EXCEPT ![j] = "working"]
  /\ UNCHANGED <<host, killed>>

ChildEvent(j) ==
  /\ child[j] = "working"
  /\ \E message \in {"event", "oversized"} : Send(j, message)
  /\ UNCHANGED <<host, child, killed>>

ChildDone(j) ==
  /\ child[j] = "working"
  /\ Send(j, "done")
  /\ child' = [child EXCEPT ![j] = "done"]
  /\ UNCHANGED <<host, killed>>

ChildError(j) ==
  /\ child[j] \in {"booting", "working"}
  /\ Send(j, "error")
  /\ child' = [child EXCEPT ![j] = "failed"]
  /\ UNCHANGED <<host, killed>>

ChildExit(j) ==
  /\ child[j] \in {"done", "failed"}
  /\ child' = [child EXCEPT ![j] = IF child[j] = "done" THEN "exited" ELSE "crashed"]
  /\ UNCHANGED <<host, killed, chan>>

(* Killed by the parent, aborted by V8 at its heap limit, or by the kernel.*)
ChildDies(j) ==
  /\ child[j] \in Live
  /\ child' = [child EXCEPT ![j] = "crashed"]
  /\ UNCHANGED <<host, killed, chan>>

-----------------------------------------------------------------------------
Reaction == DrainOne \/ DrainEnds \/ \E j \in Jobs : SettleCaller(j) \/ FreeSlot(j)

Callback(j) ==
  OnTimeout(j) \/ OnStdioLimit(j) \/ OnSpawnError(j) \/ OnMessage(j) \/ OnExit(j)

ChildStep(j) ==
  \/ ChildReady(j) \/ ChildEvent(j) \/ ChildDone(j) \/ ChildError(j)
  \/ ChildExit(j) \/ ChildDies(j)

Internal == Reaction \/ \E j \in Jobs : Callback(j) \/ ChildStep(j)

Next == Internal \/ \E j \in Jobs : Run(j) \/ Abort(j)

Spec == Init /\ [][Next]_vars

-----------------------------------------------------------------------------
(* Safety.                                                                 *)

Queued == {j \in Jobs : phase[j] = "queued"}
Holding == {j \in Jobs : phase[j] \in {"running", "settled", "freeing"}}

(* this.active counts exactly the runs that hold a slot, and never exceeds *)
(* maxConcurrent: no path through timeout, abort, exit and spawn failure   *)
(* frees a slot twice or keeps one.                                        *)
SlotAccounting == active = Cardinality(Holding) /\ active <= MaxConcurrent

(* The queue holds each waiting run once, none that was aborted, and stays *)
(* within maxQueue whenever a caller can look at it.                       *)
QueueAccounting ==
  /\ \A i \in 1..Len(queue) : queue[i] \in Queued /\ ~aborted[queue[i]]
  /\ Len(queue) = Cardinality(Queued)
  /\ ~draining => Len(queue) <= MaxQueue

(* No run waits while a slot is free: every path that frees a slot drains  *)
(* the queue.                                                              *)
WorkConserving == ~Busy /\ queue # <<>> => active = MaxConcurrent

(* A run succeeds only when its child reported the end of the demo and has *)
(* exited with code 0.                                                     *)
SuccessNeedsExit ==
  \A j \in Jobs : outcome[j] = "ok" => receivedDone[j] /\ child[j] = "reaped"

(* A run whose child finished the demo and exited with code 0, before any   *)
(* abort or limit, succeeds (when 'exit' does not overtake the last         *)
(* message).                                                                *)
CompletedRunSucceeds ==
  [][\A j \in Jobs :
       child[j] = "exited" /\ child'[j] = "reaped" /\ phase[j] = "running"
         => outcome'[j] = "ok"]_vars

(* A process that still runs belongs to a run still under way, or is being *)
(* killed; and the exit hook of the server knows it.                       *)
NoOrphan ==
  \A j \in Jobs : child[j] \in Live =>
    /\ phase[j] # "running" => killed[j]
    /\ j \in activeChildren

(* An outcome is final, and no event of the child is forwarded to the      *)
(* caller once there is one.                                               *)
FinalOutcome ==
  [][\A j \in Jobs : outcome[j] # "none" =>
       outcome'[j] = outcome[j] /\ events'[j] = events[j]]_vars

(* The executor is a JobService with maxConcurrent places: the runs start  *)
(* in the order in which they arrived, aborts notwithstanding, and each is *)
(* answered once, with success only from a slot that it gives up for good, *)
(* however exits, messages, timeouts and aborts interleave.                *)
Service == INSTANCE JobService WITH
  Places <- MaxConcurrent,
  waiting <- queue,
  serving <- Holding,
  answer <- [j \in Jobs |-> IF outcome[j] \in {"none", "ok"} THEN outcome[j] ELSE "failed"]

ImplementsJobService == Service!Spec
=============================================================================
