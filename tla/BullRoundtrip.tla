----------------------------- MODULE BullRoundtrip -----------------------------
(***************************************************************************)
(* runBullMqRoundtrip of src/demos.js: a BullMQ queue with one job, its    *)
(* worker and its events, each with a connection to Redis of its own, and  *)
(* the cleanup of all of them.                                             *)
(*                                                                         *)
(* Any of the calls may fail, and Redis may go away at any moment.  The    *)
(* worker runs beside the script: the 5 s of waitUntilFinished may end     *)
(* while it works.                                                         *)
(***************************************************************************)
EXTENDS FiniteSets

BullClients == {"queue", "events", "worker"}

VARIABLES
  bullAt,   \* where the script is
  made,     \* the clients that were constructed
  shut,     \* the clients that were closed
  job,      \* the job in Redis
  keys,     \* the keys of the queue exist in Redis
  forgiven  \* obliterate() failed, and its error was ignored

bullVars == <<bullAt, made, shut, job, keys, forgiven>>

BullTypeOK ==
  /\ bullAt \in {"queue", "events", "worker", "connecting", "adding", "awaiting", "closing",
                 "obliterating", "closingQueue", "over"}
  /\ made \subseteq BullClients /\ shut \subseteq made
  /\ job \in {"none", "waiting", "active", "finished"}
  /\ keys \in BOOLEAN /\ forgiven \in BOOLEAN

BullInit ==
  /\ bullAt = "queue"
  /\ made = {}
  /\ shut = {}
  /\ job = "none"
  /\ keys = FALSE
  /\ forgiven = FALSE

-----------------------------------------------------------------------------
(* try: the constructors, in this order, the connections and the job.      *)
After == [queue |-> "events", events |-> "worker", worker |-> "connecting"]

Construct ==
  /\ bullAt \in BullClients
  /\ \/ bullAt' = After[bullAt] /\ made' = made \cup {bullAt}
     \/ bullAt' = "closing" /\ UNCHANGED made
  /\ UNCHANGED <<shut, job, keys, forgiven>>

WaitUntilReady ==
  /\ bullAt = "connecting"
  /\ bullAt' \in {"adding", "closing"}
  /\ UNCHANGED <<made, shut, job, keys, forgiven>>

(* An add that fails may have reached Redis.                               *)
Add ==
  /\ bullAt = "adding"
  /\ \/ bullAt' \in {"awaiting", "closing"} /\ job' = "waiting" /\ keys' = TRUE
     \/ bullAt' = "closing" /\ UNCHANGED <<job, keys>>
  /\ UNCHANGED <<made, shut, forgiven>>

(* waitUntilFinished: the event, the timeout or an error; only the event   *)
(* needs the job to be finished.                                           *)
WaitUntilFinished ==
  /\ bullAt = "awaiting"
  /\ bullAt' = "closing"
  /\ UNCHANGED <<made, shut, job, keys, forgiven>>

(* finally: worker and events close together; a worker that closes waits   *)
(* for its job.                                                            *)
Close(c) ==
  /\ bullAt = "closing"
  /\ c \in (made \ shut) \ {"queue"}
  /\ c = "worker" => job # "active"
  /\ shut' = shut \cup {c}
  /\ UNCHANGED <<bullAt, made, job, keys, forgiven>>

ClosedSoFar ==
  /\ bullAt = "closing"
  /\ made \ shut \subseteq {"queue"}
  /\ bullAt' = IF "queue" \in made THEN "obliterating" ELSE "over"
  /\ UNCHANGED <<made, shut, job, keys, forgiven>>

Obliterate ==
  /\ bullAt = "obliterating"
  /\ bullAt' = "closingQueue"
  /\ \/ keys' = FALSE /\ job' = (IF job = "waiting" THEN "none" ELSE job) /\ UNCHANGED forgiven
     \/ forgiven' = TRUE /\ UNCHANGED <<job, keys>>
  /\ UNCHANGED <<made, shut>>

CloseQueue ==
  /\ bullAt = "closingQueue"
  /\ bullAt' = "over"
  /\ shut' = shut \cup {"queue"}
  /\ UNCHANGED <<made, job, keys, forgiven>>

-----------------------------------------------------------------------------
(* The worker: takes the job unless it is closed; the job takes 35 ms, and *)
(* its result is written to Redis.                                         *)
TakeJob ==
  /\ "worker" \in made \ shut
  /\ job = "waiting"
  /\ job' = "active"
  /\ UNCHANGED <<bullAt, made, shut, keys, forgiven>>

FinishJob ==
  /\ job = "active"
  /\ job' = "finished"
  /\ keys' \in {TRUE, keys}
  /\ UNCHANGED <<bullAt, made, shut, forgiven>>

BullStep ==
  \/ Construct \/ WaitUntilReady \/ Add \/ WaitUntilFinished \/ ClosedSoFar
  \/ Obliterate \/ CloseQueue
  \/ \E c \in BullClients : Close(c)

BullNext == BullStep \/ TakeJob \/ FinishJob

(* Calls are answered or time out; the job ends.                           *)
BullFairness == WF_bullVars(BullStep) /\ WF_bullVars(FinishJob)

-----------------------------------------------------------------------------
(* Whichever call failed, no connection is left, and nothing of the queue  *)
(* is in Redis (README.md:376-378) if Redis obeyed: a worker that is still *)
(* busy after a timeout does not write after the queue was removed.        *)
NothingOfQueueLeft ==
  bullAt = "over" => shut = made /\ (keys => forgiven)
=============================================================================
