------------------------------ MODULE PythonLab ------------------------------
(***************************************************************************)
(* The Python demos (src/python-lab.js): runPythonScenario tries one       *)
(* interpreter after the other until one of them prints the whole trace of *)
(* its scenario and exits with code 0.                                     *)
(*                                                                         *)
(* An interpreter may be missing, fail, print what is no event, print too  *)
(* much or hang, at any time.  One that was killed ends when the signal    *)
(* reaches it, and what it had written is still in its pipe.               *)
(***************************************************************************)
EXTENDS Integers, Sequences

CONSTANTS
  Candidates, \* the number of commands to try: PYTHON_BIN, python3, python
  TraceLines, \* the number of events of the scenario
  MaxPipe     \* bound: lines written and not read

Attempts == 1..Candidates
Garbage == 0                  \* a line JSON.parse refuses
Flood == TraceLines + 1       \* a line that takes outputBytes over the limit

VARIABLES
  attempt,     \* the candidate of the loop
  interpreter, \* the process of each attempt
  written,     \* the events it has written
  pipe,        \* the lines in its stdout
  reading,     \* the readline interface is open
  settled,     \* settled of runWithExecutable
  killed,      \* child.kill() was called
  emitted,     \* the events passed to emit: attempt and number
  scenario     \* runPythonScenario

pythonVars == <<attempt, interpreter, written, pipe, reading, settled, killed,
                emitted, scenario>>
process == <<interpreter, written>>

PythonTypeOK ==
  /\ attempt \in Attempts
  /\ interpreter \in [Attempts -> {"none", "missing", "running", "exited", "failed", "closed"}]
  /\ written \in [Attempts -> 0..TraceLines]
  /\ pipe \in [Attempts -> Seq(Garbage..Flood)]
  /\ reading \in [Attempts -> BOOLEAN]
  /\ settled \in [Attempts -> {"no", "ok", "failed"}]
  /\ killed \in [Attempts -> BOOLEAN]
  /\ emitted \in Seq(Attempts \X (1..TraceLines))
  /\ scenario \in {"spawning", "waiting", "done", "skipped", "rejected"}

PythonInit ==
  /\ attempt = 1
  /\ interpreter = [a \in Attempts |-> "none"]
  /\ written = [a \in Attempts |-> 0]
  /\ pipe = [a \in Attempts |-> <<>>]
  /\ reading = [a \in Attempts |-> FALSE]
  /\ settled = [a \in Attempts |-> "no"]
  /\ killed = [a \in Attempts |-> FALSE]
  /\ emitted = <<>>
  /\ scenario = "spawning"

-----------------------------------------------------------------------------
(* runWithExecutable.  A spawn that throws rejects the whole scenario.     *)
Spawn ==
  /\ scenario = "spawning"
  /\ \/ /\ scenario' = "waiting"
        /\ \E how \in {"missing", "running"} :
             interpreter' = [interpreter EXCEPT ![attempt] = how]
        /\ reading' = [reading EXCEPT ![attempt] = TRUE]
     \/ scenario' = "rejected" /\ UNCHANGED <<interpreter, reading>>
  /\ UNCHANGED <<attempt, written, pipe, settled, killed, emitted>>

FinishPastLast(a, how) == \* mutant: <= candidates.length
  /\ settled[a] = "no"
  /\ settled' = [settled EXCEPT ![a] = how]
  /\ IF how = "ok" THEN scenario' = "done" /\ UNCHANGED attempt
     ELSE IF a <= Candidates THEN scenario' = "spawning" /\ attempt' = a + 1
     ELSE scenario' = "skipped" /\ UNCHANGED attempt

(* finish(), and the loop of runPythonScenario when its promise resolves.  *)
Finish(a, how) ==
  /\ settled[a] = "no"
  /\ settled' = [settled EXCEPT ![a] = how]
  /\ IF how = "ok" THEN scenario' = "done" /\ UNCHANGED attempt
     ELSE IF a < Candidates THEN scenario' = "spawning" /\ attempt' = a + 1
     ELSE scenario' = "skipped" /\ UNCHANGED attempt

FinishReading(a, how) == \* mutant: no lines.close()
  Finish(a, how) /\ UNCHANGED reading

FinishClosing(a, how) ==
  Finish(a, how) /\ reading' = [reading EXCEPT ![a] = FALSE]

KillIfLive(a) ==
  killed' = IF interpreter[a] = "running" THEN [killed EXCEPT ![a] = TRUE] ELSE killed

OnTimeout(a) ==
  /\ interpreter[a] # "none"
  /\ FinishClosing(a, "failed")
  /\ KillIfLive(a)
  /\ UNCHANGED <<process, pipe, emitted>>

OnLine(a) ==
  /\ reading[a]
  /\ pipe[a] # <<>>
  /\ pipe' = [pipe EXCEPT ![a] = Tail(@)]
  /\ LET line == Head(pipe[a]) IN
       \/ /\ line = Flood
          /\ FinishClosing(a, "failed")
          /\ KillIfLive(a)
          /\ UNCHANGED emitted
       \/ /\ line = Garbage
          /\ UNCHANGED <<attempt, reading, settled, killed, emitted, scenario>>
       \/ /\ line \in 1..TraceLines
          /\ emitted' = Append(emitted, <<a, line>>)
          /\ UNCHANGED <<attempt, reading, settled, killed, scenario>>
  /\ UNCHANGED process

OnError(a) ==
  /\ interpreter[a] = "missing"
  /\ FinishClosing(a, "failed")
  /\ UNCHANGED <<process, pipe, killed, emitted>>

(* 'close' follows the end of the streams.                                 *)
OnClose(a) ==
  /\ interpreter[a] \in {"exited", "failed"}
  /\ pipe[a] = <<>>
  /\ interpreter' = [interpreter EXCEPT ![a] = "closed"]
  /\ FinishClosing(a, IF interpreter[a] = "exited" THEN "ok" ELSE "failed")
  /\ UNCHANGED <<written, pipe, killed, emitted>>

-----------------------------------------------------------------------------
(* An interpreter.                                                         *)
Write(a) ==
  /\ interpreter[a] = "running"
  /\ Len(pipe[a]) < MaxPipe
  /\ \/ /\ written[a] < TraceLines
        /\ written' = [written EXCEPT ![a] = @ + 1]
        /\ pipe' = [pipe EXCEPT ![a] = Append(@, written[a] + 1)]
     \/ /\ \E line \in {Garbage, Flood} : pipe' = [pipe EXCEPT ![a] = Append(@, line)]
        /\ UNCHANGED written
  /\ UNCHANGED <<attempt, interpreter, reading, settled, killed, emitted, scenario>>

(* The scenario ends; or an exception, a signal or a wrong version ends it.*)
Exit(a) ==
  /\ interpreter[a] = "running"
  /\ \/ written[a] = TraceLines /\ interpreter' = [interpreter EXCEPT ![a] = "exited"]
     \/ interpreter' = [interpreter EXCEPT ![a] = "failed"]
  /\ UNCHANGED <<attempt, written, pipe, reading, settled, killed, emitted, scenario>>

-----------------------------------------------------------------------------
PythonNext ==
  \/ Spawn
  \/ \E a \in Attempts :
       OnTimeout(a) \/ OnLine(a) \/ OnError(a) \/ OnClose(a) \/ Write(a) \/ Exit(a)

(* The server goes on and its timers fire; no interpreter has to end.      *)
PythonFairness ==
  WF_pythonVars(Spawn) /\ \A a \in Attempts : WF_pythonVars(OnTimeout(a))

-----------------------------------------------------------------------------
(* A demo that is reported as done showed the whole trace, in order, from  *)
(* the interpreter that ran last, whatever failed attempts printed before: *)
(* its events are all of that interpreter's and the last ones shown.       *)
DoneShowsTrace ==
  scenario = "done" =>
    LET before == Len(emitted) - TraceLines IN
      /\ before >= 0
      /\ \A i \in 1..before : emitted[i][1] # attempt
      /\ \A n \in 1..TraceLines : emitted[before + n] = <<attempt, n>>

(* The trace of an attempt that was given up never continues in the middle *)
(* of the next one's: no line of a killed interpreter is shown.            *)
TracesNotMixed ==
  \A i, k \in 1..Len(emitted) : i < k => emitted[i][1] <= emitted[k][1]
=============================================================================
