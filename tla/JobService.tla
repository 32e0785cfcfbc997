------------------------------ MODULE JobService ------------------------------
(***************************************************************************)
(* What the bounded services of Node Loop Lab promise their callers,       *)
(* whatever they run the jobs on: worker threads (WorkerPool) or a child   *)
(* process per job (DemoExecutor).                                         *)
(*                                                                         *)
(* A job is refused at once, or waits in a first-come first-served queue,  *)
(* from which it may be withdrawn, until one of a fixed number of places   *)
(* is free.  It is answered at most once, with success only from a place,  *)
(* and a place is given up for good.                                       *)
(***************************************************************************)
EXTENDS Naturals, Sequences, FiniteSets

CONSTANTS Jobs, Places

VARIABLES
  waiting, \* the jobs accepted and not started, in order of arrival
  serving, \* the jobs that hold a place
  answer   \* what the caller was told: "none" so far, "ok" or "failed"

service == <<waiting, serving, answer>>

Waiting == {waiting[i] : i \in 1..Len(waiting)}
Fresh(j) == answer[j] = "none" /\ j \notin Waiting \cup serving

Init ==
  /\ waiting = <<>>
  /\ serving = {}
  /\ answer = [j \in Jobs |-> "none"]

Refuse(j) ==
  /\ Fresh(j)
  /\ answer' = [answer EXCEPT ![j] = "failed"]
  /\ UNCHANGED <<waiting, serving>>

Accept(j) ==
  /\ Fresh(j)
  /\ waiting' = Append(waiting, j)
  /\ UNCHANGED <<serving, answer>>

(* The job at the head gets a place; it may fail on the spot.              *)
Start ==
  /\ waiting # <<>>
  /\ Cardinality(serving) < Places
  /\ waiting' = Tail(waiting)
  /\ serving' = serving \cup {Head(waiting)}
  /\ \/ UNCHANGED answer
     \/ answer' = [answer EXCEPT ![Head(waiting)] = "failed"]

(* Waiting jobs, one of them or all, are told that they will not run; the  *)
(* others, at the positions kept, stay in their order.                     *)
Withdraw ==
  \E n \in 0..(Len(waiting) - 1) : \E kept \in [1..n -> 1..Len(waiting)] :
    LET gone == {waiting[i] : i \in (1..Len(waiting)) \ {kept[k] : k \in 1..n}} IN
      /\ \A i, k \in 1..n : i < k => kept[i] < kept[k]
      /\ waiting' = [i \in 1..n |-> waiting[kept[i]]]
      /\ answer' = [j \in Jobs |-> IF j \in gone THEN "failed" ELSE answer[j]]
      /\ UNCHANGED serving

Answer(j) ==
  /\ j \in serving
  /\ answer[j] = "none"
  /\ \E result \in {"ok", "failed"} : answer' = [answer EXCEPT ![j] = result]
  /\ serving' \in {serving, serving \ {j}}
  /\ UNCHANGED waiting

Leave(j) ==
  /\ j \in serving
  /\ answer[j] # "none"
  /\ serving' = serving \ {j}
  /\ UNCHANGED <<waiting, answer>>

Next ==
  \/ Start \/ Withdraw
  \/ \E j \in Jobs : Refuse(j) \/ Accept(j) \/ Answer(j) \/ Leave(j)

Spec == Init /\ [][Next]_service
=============================================================================
