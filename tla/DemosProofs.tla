------------------------------ MODULE DemosProofs ------------------------------
(***************************************************************************)
(* The demos of Demos, for any number of interpreters, trace lines,        *)
(* concurrent reads, jobs and workers.                                     *)
(***************************************************************************)
EXTENDS Demos, WorkerPoolProofs

LEMMA Profile ==
  /\ Candidates \in Nat /\ Candidates > 0
  /\ TraceLines \in Nat /\ TraceLines > 0
  /\ Burst \in Nat /\ Burst > 0
  BY DemosAssumption DEF DemosAssumption

-----------------------------------------------------------------------------
(* Python demos.  At most one attempt is open: those before it are settled *)
(* and no longer read, those after it have not begun.                      *)
AttemptOk(a) ==
  /\ interpreter[a] = "none" => written[a] = 0 /\ pipe[a] = <<>> /\ ~reading[a]
  /\ a < attempt => settled[a] # "no"
  /\ attempt < a => interpreter[a] = "none"
  /\ settled[a] # "no" => ~reading[a] /\ interpreter[a] # "none"
  /\ settled[a] # "no" /\ interpreter[a] = "running" => killed[a]
  /\ interpreter[a] = "exited" => written[a] = TraceLines

OneAttempt ==
  /\ \A a \in Python!Attempts : AttemptOk(a)
  /\ scenario \in {"spawning", "rejected"} => interpreter[attempt] = "none"
  /\ scenario = "done" => settled[attempt] = "ok"
  /\ scenario = "skipped" => settled[attempt] # "no"

(* The attempt under way has shown the first n lines of its trace, last    *)
(* and without a gap, ...                                                  *)
Shows(n) ==
  /\ n \in Nat /\ n <= Len(emitted) /\ n <= written[attempt]
  /\ \A i \in 1..(Len(emitted) - n) : emitted[i][1] < attempt
  /\ \A k \in 1..n : emitted[Len(emitted) - n + k] = <<attempt, k>>
  /\ settled[attempt] = "ok" => n = TraceLines

(* ... and the rest of what it has written is in its pipe, in order, among *)
(* lines that are no events.                                               *)
IsEvent(line) == line \in 1..TraceLines
Rest(p, w, n) ==
  /\ \A m \in (n + 1)..w : \E i \in 1..Len(p) : p[i] = m
  /\ \A i \in 1..Len(p) : IsEvent(p[i]) => n < p[i] /\ p[i] <= w
  /\ \A i, k \in 1..Len(p) : i < k /\ IsEvent(p[i]) /\ IsEvent(p[k]) => p[i] < p[k]
Comes(n) == Rest(pipe[attempt], written[attempt], n)

PythonInv ==
  /\ Python!PythonTypeOK
  /\ OneAttempt
  /\ Python!TracesNotMixed
  /\ \E n \in Nat : Shows(n) /\ Comes(n)

LEMMA PythonBegins == Python!PythonInit => PythonInv
<1> SUFFICES ASSUME Python!PythonInit PROVE PythonInv
  OBVIOUS
<1> USE Profile DEF Python!PythonInit, Python!Attempts
<1>1. Python!PythonTypeOK
  BY DEF Python!PythonTypeOK, Python!Garbage, Python!Flood
<1>2. OneAttempt
  BY DEF OneAttempt, AttemptOk
<1>3. Len(emitted) = 0 /\ Len(pipe[attempt]) = 0 /\ written[attempt] = 0
  OBVIOUS
<1>4. Shows(0)
  BY <1>3 DEF Shows
<1>5. Comes(0)
  BY <1>3 DEF Comes, Rest
<1>6. Python!TracesNotMixed
  BY <1>3 DEF Python!TracesNotMixed
<1> QED BY <1>1, <1>2, <1>4, <1>5, <1>6 DEF PythonInv

LEMMA PythonTyped == Python!PythonTypeOK /\ [Python!PythonNext]_(Python!pythonVars)
                       => Python!PythonTypeOK'
<1> SUFFICES ASSUME Python!PythonTypeOK, [Python!PythonNext]_(Python!pythonVars)
             PROVE  Python!PythonTypeOK'
  OBVIOUS
<1> USE Profile DEF Python!PythonTypeOK, Python!Attempts, Python!Garbage, Python!Flood
<1>1. CASE UNCHANGED Python!pythonVars
  BY <1>1 DEF Python!pythonVars
<1>2. CASE Python!Spawn
  BY <1>2 DEF Python!Spawn
<1>3. ASSUME NEW a \in Python!Attempts, NEW how \in {"ok", "failed"}, Python!FinishClosing(a, how)
      PROVE  /\ attempt' \in Python!Attempts
             /\ settled' \in [Python!Attempts -> {"no", "ok", "failed"}]
             /\ reading' \in [Python!Attempts -> BOOLEAN]
             /\ scenario' \in {"spawning", "waiting", "done", "skipped", "rejected"}
  BY <1>3 DEF Python!FinishClosing, Python!Finish
<1>4. ASSUME NEW a \in Python!Attempts, Python!KillIfLive(a)
      PROVE  killed' \in [Python!Attempts -> BOOLEAN]
  BY <1>4 DEF Python!KillIfLive
<1>5. ASSUME NEW a \in Python!Attempts, Python!OnTimeout(a) PROVE Python!PythonTypeOK'
  BY <1>3, <1>4, <1>5 DEF Python!OnTimeout, Python!process
<1>6. ASSUME NEW a \in Python!Attempts, Python!OnLine(a) PROVE Python!PythonTypeOK'
  <2>1. pipe' \in [Python!Attempts -> Seq(0..(TraceLines + 1))]
    BY <1>6 DEF Python!OnLine
  <2>2. UNCHANGED <<interpreter, written>>
    BY <1>6 DEF Python!OnLine, Python!process
  <2>3. CASE Python!FinishClosing(a, "failed") /\ Python!KillIfLive(a) /\ UNCHANGED emitted
    BY <1>3, <1>4, <2>1, <2>2, <2>3
  <2>4. CASE UNCHANGED <<attempt, reading, settled, killed, emitted, scenario>>
    BY <2>1, <2>2, <2>4
  <2>5. ASSUME NEW line \in 1..TraceLines, emitted' = Append(emitted, <<a, line>>),
               UNCHANGED <<attempt, reading, settled, killed, scenario>>
        PROVE  Python!PythonTypeOK'
    BY <2>1, <2>2, <2>5
  <2> QED BY <1>6, <2>3, <2>4, <2>5 DEF Python!OnLine
<1>7. ASSUME NEW a \in Python!Attempts, Python!OnError(a) PROVE Python!PythonTypeOK'
  BY <1>3, <1>7 DEF Python!OnError, Python!process
<1>8. ASSUME NEW a \in Python!Attempts, Python!OnClose(a) PROVE Python!PythonTypeOK'
  BY <1>3, <1>8 DEF Python!OnClose
<1>9. ASSUME NEW a \in Python!Attempts, Python!Write(a) PROVE Python!PythonTypeOK'
  <2>1. CASE /\ written[a] < TraceLines
             /\ written' = [written EXCEPT ![a] = @ + 1]
             /\ pipe' = [pipe EXCEPT ![a] = Append(@, written[a] + 1)]
    BY <1>9, <2>1 DEF Python!Write
  <2>2. CASE /\ \E line \in {Python!Garbage, Python!Flood} :
                  pipe' = [pipe EXCEPT ![a] = Append(@, line)]
             /\ UNCHANGED written
    <3>1. PICK line \in {Python!Garbage, Python!Flood} :
            pipe' = [pipe EXCEPT ![a] = Append(@, line)]
      BY <2>2
    <3>2. line \in 0..(TraceLines + 1)
      OBVIOUS
    <3>3. pipe' \in [Python!Attempts -> Seq(0..(TraceLines + 1))]
      BY <3>1, <3>2
    <3> QED BY <1>9, <2>2, <3>3 DEF Python!Write
  <2>3. \/ /\ written[a] < TraceLines
           /\ written' = [written EXCEPT ![a] = @ + 1]
           /\ pipe' = [pipe EXCEPT ![a] = Append(@, written[a] + 1)]
        \/ /\ \E line \in {Python!Garbage, Python!Flood} :
                pipe' = [pipe EXCEPT ![a] = Append(@, line)]
           /\ UNCHANGED written
    BY <1>9 DEF Python!Write
  <2> QED BY <2>1, <2>2, <2>3
<1>10. ASSUME NEW a \in Python!Attempts, Python!Exit(a) PROVE Python!PythonTypeOK'
  BY <1>10 DEF Python!Exit
<1> QED BY <1>1, <1>2, <1>5, <1>6, <1>7, <1>8, <1>9, <1>10 DEF Python!PythonNext

(* The attempt that is settled is the one under way.                       *)
LEMMA OnlyThisAttempt ==
  ASSUME PythonInv, NEW a \in Python!Attempts, settled[a] = "no", interpreter[a] # "none"
  PROVE  a = attempt
  BY Profile DEF PythonInv, OneAttempt, AttemptOk, Python!PythonTypeOK, Python!Attempts

LEMMA OneAttemptStep == PythonInv /\ [Python!PythonNext]_(Python!pythonVars) => OneAttempt'
<1> SUFFICES ASSUME PythonInv, [Python!PythonNext]_(Python!pythonVars) PROVE OneAttempt'
  OBVIOUS
<1>0. /\ OneAttempt
      /\ attempt \in 1..Candidates /\ Candidates \in Nat
      /\ interpreter \in [1..Candidates ->
           {"none", "missing", "running", "exited", "failed", "closed"}]
      /\ reading \in [1..Candidates -> BOOLEAN]
      /\ settled \in [1..Candidates -> {"no", "ok", "failed"}]
      /\ killed \in [1..Candidates -> BOOLEAN]
      /\ written \in [1..Candidates -> 0..TraceLines]
      /\ DOMAIN pipe = 1..Candidates
  BY Profile DEF PythonInv, Python!PythonTypeOK, Python!Attempts
<1> USE <1>0 DEF Python!Attempts, OneAttempt, AttemptOk
<1>1. CASE UNCHANGED Python!pythonVars
  BY <1>1 DEF Python!pythonVars
<1>2. CASE Python!Spawn
  BY <1>2 DEF Python!Spawn
<1>3. ASSUME NEW a \in Python!Attempts, interpreter[a] # "none",
             NEW how \in {"ok", "failed"}, Python!FinishClosing(a, how),
             \A b \in Python!Attempts :
               /\ b # a => interpreter'[b] = interpreter[b] /\ killed'[b] = killed[b]
               /\ written'[b] = written[b]
               /\ b # a => pipe'[b] = pipe[b],
             interpreter'[a] # "none",
             interpreter'[a] = "exited" => interpreter[a] = "exited",
             interpreter'[a] = "running" => killed'[a]
      PROVE  OneAttempt'
  <2>1. /\ a = attempt
        /\ settled' = [settled EXCEPT ![a] = how]
        /\ reading' = [reading EXCEPT ![a] = FALSE]
    BY <1>3, OnlyThisAttempt DEF Python!FinishClosing, Python!Finish
  <2>2. \/ how = "ok" /\ scenario' = "done" /\ attempt' = attempt
        \/ a < Candidates /\ scenario' = "spawning" /\ attempt' = a + 1
        \/ scenario' = "skipped" /\ attempt' = attempt
    BY <1>3 DEF Python!FinishClosing, Python!Finish
  <2>3. AttemptOk(a)'
    BY <1>3, <2>1, <2>2
  <2>4. ASSUME NEW b \in Python!Attempts, b # a PROVE AttemptOk(b)'
    BY <1>3, <2>1, <2>2, <2>4
  <2>5. attempt' = a + 1 /\ a < Candidates => interpreter'[attempt'] = "none"
    <3>1. SUFFICES ASSUME attempt' = a + 1, a < Candidates PROVE interpreter'[a + 1] = "none"
      OBVIOUS
    <3>2. a + 1 \in Python!Attempts /\ a + 1 # a /\ attempt < a + 1
      BY <2>1, <3>1
    <3>3. interpreter[a + 1] = "none"
      BY <3>2
    <3> QED BY <1>3, <3>2, <3>3
  <2>6. /\ scenario' \in {"spawning", "rejected"} => interpreter'[attempt'] = "none"
        /\ scenario' = "done" => settled'[attempt'] = "ok"
        /\ scenario' = "skipped" => settled'[attempt'] # "no"
    BY <1>3, <2>1, <2>2, <2>5
  <2> HIDE DEF AttemptOk
  <2> QED BY <2>3, <2>4, <2>6
<1>4. ASSUME NEW a \in Python!Attempts, Python!KillIfLive(a), UNCHANGED interpreter
      PROVE  /\ \A b \in Python!Attempts : b # a => killed'[b] = killed[b]
             /\ interpreter'[a] = "running" => killed'[a]
  BY <1>4 DEF Python!KillIfLive
<1>5. ASSUME NEW a \in Python!Attempts, Python!OnTimeout(a) PROVE OneAttempt'
  <2>1. /\ interpreter[a] # "none" /\ Python!FinishClosing(a, "failed") /\ Python!KillIfLive(a)
        /\ UNCHANGED <<interpreter, written, pipe>>
    BY <1>5 DEF Python!OnTimeout, Python!process
  <2> QED BY <1>3, <1>4, <2>1
<1>6. ASSUME NEW a \in Python!Attempts, Python!OnLine(a) PROVE OneAttempt'
  <2>1. /\ UNCHANGED <<interpreter, written>> /\ reading[a]
        /\ pipe' = [pipe EXCEPT ![a] = Tail(@)]
    BY <1>6 DEF Python!OnLine, Python!process
  <2>2. interpreter[a] # "none"
    BY <2>1
  <2>3. CASE Python!FinishClosing(a, "failed") /\ Python!KillIfLive(a)
    BY <1>3, <1>4, <2>1, <2>2, <2>3
  <2>4. CASE UNCHANGED <<attempt, reading, settled, killed, scenario>>
    BY <2>1, <2>2, <2>4
  <2> QED BY <1>6, <2>3, <2>4 DEF Python!OnLine
<1>7. ASSUME NEW a \in Python!Attempts, Python!OnError(a) PROVE OneAttempt'
  <2>1. /\ interpreter[a] = "missing" /\ Python!FinishClosing(a, "failed")
        /\ UNCHANGED <<interpreter, written, pipe, killed>>
    BY <1>7 DEF Python!OnError, Python!process
  <2> QED BY <1>3, <2>1
<1>8. ASSUME NEW a \in Python!Attempts, Python!OnClose(a) PROVE OneAttempt'
  <2>1. /\ interpreter[a] \in {"exited", "failed"}
        /\ interpreter' = [interpreter EXCEPT ![a] = "closed"]
        /\ UNCHANGED <<written, pipe, killed>>
    BY <1>8 DEF Python!OnClose
  <2>2. Python!FinishClosing(a, IF interpreter[a] = "exited" THEN "ok" ELSE "failed")
    BY <1>8 DEF Python!OnClose
  <2> QED BY <1>3, <2>1, <2>2
<1>9. ASSUME NEW a \in Python!Attempts, Python!Write(a) PROVE OneAttempt'
  <2>1. /\ interpreter[a] = "running"
        /\ UNCHANGED <<attempt, interpreter, reading, settled, killed, scenario>>
        /\ \A b \in Python!Attempts : b # a => written'[b] = written[b] /\ pipe'[b] = pipe[b]
    BY <1>9 DEF Python!Write
  <2> QED BY <2>1
<1>10. ASSUME NEW a \in Python!Attempts, Python!Exit(a) PROVE OneAttempt'
  BY <1>10 DEF Python!Exit
<1> QED BY <1>1, <1>2, <1>5, <1>6, <1>7, <1>8, <1>9, <1>10 DEF Python!PythonNext

(* A step that leaves the trace of this attempt alone.                     *)
LEMMA TraceKept ==
  ASSUME NEW n, Shows(n), Comes(n), Python!PythonTypeOK,
         UNCHANGED <<attempt, emitted>>, settled'[attempt] = settled[attempt],
         written'[attempt] = written[attempt], pipe'[attempt] = pipe[attempt]
  PROVE  Shows(n)' /\ Comes(n)'
  BY DEF Shows, Comes, Rest, IsEvent

(* No event is of an attempt that is still to come.                        *)
LEMMA NoneAhead ==
  ASSUME Python!PythonTypeOK, NEW n, Shows(n)
  PROVE  \A i \in 1..Len(emitted) : emitted[i][1] \in Nat /\ emitted[i][1] <= attempt
<1> SUFFICES ASSUME NEW i \in 1..Len(emitted)
             PROVE  emitted[i][1] \in Nat /\ emitted[i][1] <= attempt
  OBVIOUS
<1>1. attempt \in Nat /\ emitted \in Seq(Python!Attempts \X (1..TraceLines))
  BY Profile DEF Python!PythonTypeOK, Python!Attempts
<1>2. n \in Nat /\ n <= Len(emitted) /\ Len(emitted) \in Nat
  BY <1>1 DEF Shows
<1>3. emitted[i] \in Python!Attempts \X (1..TraceLines)
  BY <1>1
<1>4. emitted[i][1] \in Nat
  BY <1>3, Profile DEF Python!Attempts
<1>5. CASE i <= Len(emitted) - n
  BY <1>1, <1>2, <1>4, <1>5 DEF Shows
<1>6. CASE i > Len(emitted) - n
  <2>1. i - (Len(emitted) - n) \in 1..n
    BY <1>2, <1>6
  <2>2. PICK k \in 1..n : i = Len(emitted) - n + k
    BY <1>2, <2>1
  <2>3. emitted[i] = <<attempt, k>>
    BY <2>2 DEF Shows
  <2> QED BY <1>1, <2>3
<1> QED BY <1>2, <1>5, <1>6

(* A failed attempt leaves a trace that the next one follows.              *)
LEMMA NextTrace ==
  ASSUME PythonInv, NEW a \in Python!Attempts, settled[a] = "no", interpreter[a] # "none",
         NEW how \in {"ok", "failed"}, Python!FinishClosing(a, how), UNCHANGED emitted,
         written' = written, \A b \in Python!Attempts : b # a => pipe'[b] = pipe[b],
         attempt' # attempt
  PROVE  Shows(0)' /\ Comes(0)'
<1>1. a = attempt /\ attempt \in Nat
  <2>1. a = attempt
    BY OnlyThisAttempt
  <2> QED BY <2>1, Profile DEF Python!Attempts
<1>2. /\ attempt' = a + 1 /\ a < Candidates
      /\ settled' = [settled EXCEPT ![a] = how]
  BY <1>1 DEF Python!FinishClosing, Python!Finish
<1>3. a + 1 \in Python!Attempts /\ a + 1 # a /\ a < a + 1
  BY <1>1, <1>2, Profile DEF Python!Attempts
<1>4. interpreter[a + 1] = "none" /\ written[a + 1] = 0 /\ pipe[a + 1] = <<>> /\ settled[a + 1] = "no"
  BY <1>1, <1>3, Profile DEF PythonInv, OneAttempt, AttemptOk, Python!PythonTypeOK,
     Python!Attempts
<1>5. written'[a + 1] = 0 /\ pipe'[a + 1] = <<>> /\ settled'[a + 1] = "no" /\ Len(pipe'[a + 1]) = 0
  BY <1>2, <1>3, <1>4 DEF PythonInv, Python!PythonTypeOK
<1>6. PICK n \in Nat : Shows(n)
  BY DEF PythonInv
<1>7. emitted \in Seq(Python!Attempts \X (1..TraceLines))
  BY DEF PythonInv, Python!PythonTypeOK
<1>8. \A i \in 1..Len(emitted) : emitted[i][1] < a + 1
  BY <1>1, <1>6, NoneAhead DEF PythonInv
<1>9. Shows(0)'
  <2>1. Len(emitted) \in Nat /\ Len(emitted) - 0 = Len(emitted)
    BY <1>7
  <2> QED BY <1>2, <1>5, <1>8, <2>1 DEF Shows
<1>10. Comes(0)'
  BY <1>2, <1>5 DEF Comes, Rest
<1> QED BY <1>9, <1>10

(* The readline interface takes the first line of the pipe.                *)
LEMMA LineTaken ==
  ASSUME NEW n \in Nat, Comes(n), Python!PythonTypeOK, pipe[attempt] # <<>>,
         attempt' = attempt, written' = written,
         pipe' = [pipe EXCEPT ![attempt] = Tail(@)]
  PROVE  /\ ~IsEvent(Head(pipe[attempt])) => Comes(n)'
         /\ IsEvent(Head(pipe[attempt])) =>
              /\ Head(pipe[attempt]) = n + 1 /\ n + 1 <= written[attempt]
              /\ Comes(n + 1)'
<1> PICK p : p = pipe[attempt]
  OBVIOUS
<1> PICK w : w = written[attempt]
  OBVIOUS
<1>1. /\ p \in Seq(Int) /\ p # <<>> /\ w \in 0..TraceLines /\ TraceLines \in Nat
      /\ pipe'[attempt'] = Tail(p) /\ written'[attempt'] = w
  BY Profile DEF Python!PythonTypeOK, Python!Garbage, Python!Flood
<1>2. /\ Len(p) \in Nat \ {0} /\ Head(p) = p[1] /\ Len(Tail(p)) = Len(p) - 1
      /\ \A i \in 1..Len(Tail(p)) : Tail(p)[i] = p[i + 1]
  BY <1>1
<1>3. /\ \A m \in (n + 1)..w : \E i \in 1..Len(p) : p[i] = m
      /\ \A i \in 1..Len(p) : IsEvent(p[i]) => n < p[i] /\ p[i] <= w
      /\ \A i, k \in 1..Len(p) : i < k /\ IsEvent(p[i]) /\ IsEvent(p[k]) => p[i] < p[k]
  BY DEF Comes, Rest
<1>4. \A i \in 1..Len(Tail(p)) : i \in Nat /\ i + 1 \in 1..Len(p) /\ i + 1 > 1
  BY <1>2
<1>5. \A i, k \in 1..Len(Tail(p)) :
        i < k /\ IsEvent(Tail(p)[i]) /\ IsEvent(Tail(p)[k]) => Tail(p)[i] < Tail(p)[k]
  BY <1>2, <1>3, <1>4
<1>6. \A i \in 1..Len(p) : i = 1 \/ (i - 1 \in 1..Len(Tail(p)) /\ Tail(p)[i - 1] = p[i])
  BY <1>2
<1>7. ASSUME ~IsEvent(p[1]) PROVE Comes(n)'
  <2>1. ASSUME NEW m \in (n + 1)..w PROVE \E i \in 1..Len(Tail(p)) : Tail(p)[i] = m
    <3>1. PICK i \in 1..Len(p) : p[i] = m
      BY <1>3
    <3>2. i # 1
      BY <1>1, <1>7, <3>1 DEF IsEvent
    <3> QED BY <1>6, <3>1, <3>2
  <2>2. \A i \in 1..Len(Tail(p)) : IsEvent(Tail(p)[i]) => n < Tail(p)[i] /\ Tail(p)[i] <= w
    BY <1>2, <1>3, <1>4
  <2>3. Rest(Tail(p), w, n)
    BY <1>5, <2>1, <2>2 DEF Rest
  <2>4. pipe'[attempt'] = Tail(p) /\ written'[attempt'] = w
    BY <1>1
  <2> QED BY <2>3, <2>4 DEF Comes
<1>8. ASSUME IsEvent(p[1]) PROVE p[1] = n + 1 /\ n + 1 <= w /\ Comes(n + 1)'
  <2>1. 1 \in 1..Len(p)
    BY <1>2
  <2>2. n < p[1] /\ p[1] <= w /\ p[1] \in Nat
    BY <1>3, <1>8, <2>1, <1>1 DEF IsEvent
  <2>3. PICK i \in 1..Len(p) : p[i] = n + 1
    <3>1. n + 1 \in (n + 1)..w
      BY <1>1, <2>2
    <3> QED BY <1>3, <3>1
  <2>4. IsEvent(p[i])
    BY <1>1, <2>2, <2>3 DEF IsEvent
  <2>5. p[1] = n + 1 /\ n + 1 <= w
    <3>1. i = 1 \/ p[1] < p[i]
      BY <1>2, <1>3, <1>8, <2>1, <2>4
    <3> QED BY <2>2, <2>3, <3>1
  <2>6. ASSUME NEW m \in (n + 1 + 1)..w PROVE \E k \in 1..Len(Tail(p)) : Tail(p)[k] = m
    <3>1. PICK k \in 1..Len(p) : p[k] = m
      BY <1>1, <1>3, <2>6
    <3>2. k # 1
      BY <2>5, <3>1
    <3> QED BY <1>6, <3>1, <3>2
  <2>7. ASSUME NEW k \in 1..Len(Tail(p)), IsEvent(Tail(p)[k])
        PROVE  n + 1 < Tail(p)[k] /\ Tail(p)[k] <= w
    <3>1. IsEvent(p[k + 1]) /\ k + 1 \in 1..Len(p) /\ 1 < k + 1 /\ Tail(p)[k] = p[k + 1]
      BY <1>2, <1>4, <2>7
    <3> QED BY <1>3, <1>8, <2>1, <2>5, <3>1
  <2>8. Rest(Tail(p), w, n + 1)
    BY <1>5, <2>6, <2>7 DEF Rest
  <2> QED BY <1>1, <2>5, <2>8 DEF Comes, Rest
<1> QED BY <1>2, <1>7, <1>8

(* The interpreter writes its next line, or what is no event.              *)
LEMMA LineWritten ==
  ASSUME NEW n \in Nat, Shows(n), Comes(n), Python!PythonTypeOK,
         NEW a \in Python!Attempts, Python!Write(a)
  PROVE  Shows(n)' /\ Comes(n)'
<1>1. UNCHANGED <<attempt, emitted, settled>>
  BY DEF Python!Write
<1>2. CASE a # attempt
  <2>1. written'[attempt] = written[attempt] /\ pipe'[attempt] = pipe[attempt]
    BY <1>2 DEF Python!Write, Python!PythonTypeOK
  <2> QED BY <1>1, <2>1, TraceKept
<1>3. CASE a = attempt
  <2> PICK p : p = pipe[attempt]
    OBVIOUS
  <2> PICK w : w = written[attempt]
    OBVIOUS
  <2>1. /\ p \in Seq(Int) /\ Len(p) \in Nat /\ w \in 0..TraceLines /\ TraceLines \in Nat
    BY Profile DEF Python!PythonTypeOK, Python!Garbage, Python!Flood
  <2>2. PICK line \in Int, new \in Nat :
          /\ pipe'[attempt'] = Append(p, line) /\ written'[attempt'] = new
          /\ \/ line = w + 1 /\ new = w + 1 /\ w < TraceLines
             \/ ~IsEvent(line) /\ new = w
    <3>1. CASE /\ written[a] < TraceLines
               /\ written' = [written EXCEPT ![a] = @ + 1]
               /\ pipe' = [pipe EXCEPT ![a] = Append(@, written[a] + 1)]
      BY <1>1, <1>3, <2>1, <3>1 DEF Python!PythonTypeOK
    <3>2. CASE /\ \E l \in {Python!Garbage, Python!Flood} :
                    pipe' = [pipe EXCEPT ![a] = Append(@, l)]
               /\ UNCHANGED written
      <4>1. PICK l \in {Python!Garbage, Python!Flood} : pipe' = [pipe EXCEPT ![a] = Append(@, l)]
        BY <3>2
      <4>2. l \in Int /\ ~IsEvent(l)
        BY <2>1 DEF IsEvent, Python!Garbage, Python!Flood
      <4> QED BY <1>1, <1>3, <2>1, <3>2, <4>1, <4>2 DEF Python!PythonTypeOK
    <3> QED BY <3>1, <3>2 DEF Python!Write
  <2>3. /\ Len(Append(p, line)) = Len(p) + 1 /\ Append(p, line)[Len(p) + 1] = line
        /\ \A i \in 1..Len(p) : Append(p, line)[i] = p[i]
    BY <2>1
  <2>4. \A i \in 1..(Len(p) + 1) : i \in 1..Len(p) \/ i = Len(p) + 1
    BY <2>1
  <2>5. /\ \A m \in (n + 1)..w : \E i \in 1..Len(p) : p[i] = m
        /\ \A i \in 1..Len(p) : IsEvent(p[i]) => n < p[i] /\ p[i] <= w
        /\ \A i, k \in 1..Len(p) : i < k /\ IsEvent(p[i]) /\ IsEvent(p[k]) => p[i] < p[k]
        /\ n <= w
    BY DEF Comes, Rest, Shows
  <2>6. ASSUME NEW m \in (n + 1)..new
        PROVE  \E i \in 1..(Len(p) + 1) : Append(p, line)[i] = m
    <3>1. CASE m \in (n + 1)..w
      BY <2>1, <2>3, <2>5, <3>1
    <3>2. CASE m = line
      BY <2>1, <2>3, <3>2
    <3>3. m \in (n + 1)..w \/ m = line
      BY <2>1, <2>2
    <3> QED BY <3>1, <3>2, <3>3
  <2>7. ASSUME NEW i \in 1..(Len(p) + 1), IsEvent(Append(p, line)[i])
        PROVE  n < Append(p, line)[i] /\ Append(p, line)[i] <= new
    <3>1. CASE i \in 1..Len(p)
      <4>1. Append(p, line)[i] = p[i] /\ IsEvent(p[i]) /\ p[i] \in Int
        BY <2>1, <2>3, <2>7, <3>1
      <4>2. n < p[i] /\ p[i] <= w /\ w <= new
        BY <2>1, <2>2, <2>5, <3>1, <4>1
      <4> QED BY <2>1, <4>1, <4>2
    <3>2. CASE i = Len(p) + 1
      BY <2>1, <2>2, <2>3, <2>5, <2>7, <3>2
    <3> QED BY <2>4, <3>1, <3>2
  <2>8. ASSUME NEW i \in 1..(Len(p) + 1), NEW k \in 1..(Len(p) + 1), i < k,
               IsEvent(Append(p, line)[i]), IsEvent(Append(p, line)[k])
        PROVE  Append(p, line)[i] < Append(p, line)[k]
    <3>1. i \in 1..Len(p)
      BY <2>1, <2>8
    <3>2. CASE k \in 1..Len(p)
      BY <2>3, <2>5, <2>8, <3>1, <3>2
    <3>3. CASE k = Len(p) + 1
      <4>1. IsEvent(p[i]) /\ IsEvent(line) /\ Append(p, line)[i] = p[i] /\ Append(p, line)[k] = line
        BY <2>3, <2>8, <3>1, <3>3
      <4>2. p[i] <= w /\ line = w + 1 /\ p[i] \in Int
        BY <2>1, <2>2, <2>5, <3>1, <4>1
      <4> QED BY <2>1, <4>1, <4>2
    <3> QED BY <2>4, <3>2, <3>3
  <2>9. Comes(n)'
    <3>1. Rest(Append(p, line), new, n)
      BY <2>3, <2>6, <2>7, <2>8 DEF Rest
    <3> QED BY <2>2, <3>1 DEF Comes, Rest
  <2>10. Shows(n)'
    <3>1. n <= written'[attempt']
      BY <2>1, <2>2, <2>5
    <3> QED BY <1>1, <3>1 DEF Shows
  <2> QED BY <2>9, <2>10
<1> QED BY <1>2, <1>3

(* An attempt that is settled while nothing is shown: it failed, or it     *)
(* ended in good order and its pipe is empty.                              *)
LEMMA SettledShows ==
  ASSUME PythonInv, NEW n \in Nat, Shows(n),
         NEW a \in Python!Attempts, interpreter[a] # "none",
         NEW how \in {"ok", "failed"}, Python!FinishClosing(a, how),
         how = "ok" => n = TraceLines, UNCHANGED <<emitted, written>>,
         attempt' = attempt
  PROVE  Shows(n)'
<1>1. a = attempt /\ settled' = [settled EXCEPT ![a] = how]
  BY OnlyThisAttempt DEF Python!FinishClosing, Python!Finish
<1>2. settled'[attempt'] = how
  BY <1>1 DEF PythonInv, Python!PythonTypeOK
<1> QED BY <1>2 DEF Shows

LEMMA TraceStep ==
  ASSUME PythonInv, [Python!PythonNext]_(Python!pythonVars)
  PROVE  \E n \in Nat : Shows(n)' /\ Comes(n)'
<1>0. Python!PythonTypeOK /\ OneAttempt
  BY DEF PythonInv
<1> PICK n \in Nat : Shows(n) /\ Comes(n)
  BY DEF PythonInv
<1>1. CASE UNCHANGED Python!pythonVars
  BY <1>0, <1>1, TraceKept DEF Python!pythonVars
<1>2. CASE Python!Spawn
  BY <1>0, <1>2, TraceKept DEF Python!Spawn
<1>3. ASSUME NEW a \in Python!Attempts, interpreter[a] # "none",
             NEW how \in {"ok", "failed"}, Python!FinishClosing(a, how),
             UNCHANGED <<emitted, written>>,
             \A b \in Python!Attempts : b # a => pipe'[b] = pipe[b],
             how = "ok" => n = TraceLines,
             attempt' = attempt => Comes(n)'
      PROVE  \E k \in Nat : Shows(k)' /\ Comes(k)'
  <2>1. settled[a] = "no"
    BY <1>3 DEF Python!FinishClosing, Python!Finish
  <2>2. CASE attempt' = attempt
    BY <1>3, <2>2, SettledShows
  <2>3. CASE attempt' # attempt
    <3>1. Shows(0)' /\ Comes(0)'
      BY <1>3, <2>1, <2>3, NextTrace
    <3> QED BY <3>1
  <2> QED BY <2>2, <2>3
<1>4. ASSUME NEW a \in Python!Attempts, UNCHANGED <<written, pipe>>
      PROVE  /\ attempt' = attempt => Comes(n)'
             /\ \A b \in Python!Attempts : b # a => pipe'[b] = pipe[b]
  BY <1>4 DEF Comes, Rest, IsEvent
<1>5. ASSUME NEW a \in Python!Attempts, Python!OnTimeout(a)
      PROVE  \E k \in Nat : Shows(k)' /\ Comes(k)'
  <2>1. /\ interpreter[a] # "none" /\ Python!FinishClosing(a, "failed")
        /\ UNCHANGED <<written, pipe, emitted>>
    BY <1>5 DEF Python!OnTimeout, Python!process
  <2> QED BY <1>3, <1>4, <2>1
<1>6. ASSUME NEW a \in Python!Attempts, Python!OnLine(a)
      PROVE  \E k \in Nat : Shows(k)' /\ Comes(k)'
  <2>1. /\ UNCHANGED <<interpreter, written>> /\ reading[a] /\ pipe[a] # <<>>
        /\ pipe' = [pipe EXCEPT ![a] = Tail(@)]
    BY <1>6 DEF Python!OnLine, Python!process
  <2>2. interpreter[a] # "none" /\ settled[a] = "no"
    BY <1>0, <2>1 DEF OneAttempt, AttemptOk, Python!PythonTypeOK
  <2>3. a = attempt
    BY <2>2, OnlyThisAttempt
  <2>4. PICK line : line = Head(pipe[attempt])
    OBVIOUS
  <2>5. attempt' = attempt /\ ~IsEvent(line) => Comes(n)'
    BY <1>0, <2>1, <2>3, <2>4, LineTaken
  <2>6. CASE line = Python!Flood /\ Python!FinishClosing(a, "failed") /\ UNCHANGED emitted
    <3>1. ~IsEvent(line)
      BY <2>6, Profile DEF IsEvent, Python!Flood
    <3>2. \A b \in Python!Attempts : b # a => pipe'[b] = pipe[b]
      BY <1>0, <2>1 DEF Python!PythonTypeOK
    <3> QED BY <1>3, <2>1, <2>2, <2>5, <2>6, <3>1, <3>2
  <2>7. CASE line = Python!Garbage /\ UNCHANGED <<attempt, settled, emitted>>
    <3>1. ~IsEvent(line)
      BY <2>7 DEF IsEvent, Python!Garbage
    <3>2. Shows(n)'
      BY <2>1, <2>7 DEF Shows
    <3> QED BY <2>5, <2>7, <3>1, <3>2
  <2>8. CASE /\ IsEvent(line) /\ emitted' = Append(emitted, <<a, line>>)
             /\ UNCHANGED <<attempt, settled>>
    <3>1. line = n + 1 /\ n + 1 <= written[attempt] /\ Comes(n + 1)'
      BY <1>0, <2>1, <2>3, <2>4, <2>8, LineTaken
    <3> PICK e : e = emitted
      OBVIOUS
    <3>2. /\ Len(e) \in Nat /\ n <= Len(e) /\ e \in Seq(Python!Attempts \X (1..TraceLines))
          /\ Len(Append(e, <<a, line>>)) = Len(e) + 1
          /\ Append(e, <<a, line>>)[Len(e) + 1] = <<a, line>>
          /\ \A i \in 1..Len(e) : Append(e, <<a, line>>)[i] = e[i]
      BY <1>0 DEF Python!PythonTypeOK, Shows
    <3> PICK f : f = Append(e, <<a, line>>)
      OBVIOUS
    <3>3. /\ \A i \in 1..(Len(e) - n) : e[i][1] < attempt
          /\ \A k \in 1..n : e[Len(e) - n + k] = <<attempt, k>>
      BY DEF Shows
    <3>4. Len(f) - (n + 1) = Len(e) - n /\ n + 1 <= Len(f) /\ Len(f) \in Nat
      BY <3>2
    <3>5. \A i \in 1..(Len(f) - (n + 1)) : f[i][1] < attempt
      <4>1. \A i \in 1..(Len(e) - n) : i \in 1..Len(e)
        BY <3>2
      <4> QED BY <3>2, <3>3, <3>4, <4>1
    <3>6. ASSUME NEW k \in 1..(n + 1) PROVE f[Len(f) - (n + 1) + k] = <<attempt, k>>
      <4>1. CASE k \in 1..n
        <5>1. Len(e) - n + k \in 1..Len(e)
          BY <3>2, <4>1
        <5>2. f[Len(e) - n + k] = e[Len(e) - n + k]
          BY <3>2, <5>1
        <5> QED BY <3>3, <3>4, <4>1, <5>2
      <4>2. CASE k = n + 1
        <5>1. Len(e) - n + k = Len(e) + 1
          BY <3>2, <4>2
        <5> QED BY <2>3, <3>1, <3>2, <3>4, <4>2, <5>1
      <4>3. k \in 1..n \/ k = n + 1
        OBVIOUS
      <4> QED BY <4>1, <4>2, <4>3
    <3>7. settled'[attempt'] # "ok"
      BY <2>2, <2>3, <2>8
    <3>8. emitted' = f /\ attempt' = attempt /\ n + 1 <= written'[attempt']
      BY <2>1, <2>8, <3>1
    <3>9. Shows(n + 1)'
      <4>1. \A i \in 1..(Len(emitted') - (n + 1)) : emitted'[i][1] < attempt'
        BY <3>5, <3>8
      <4>2. \A k \in 1..(n + 1) : emitted'[Len(emitted') - (n + 1) + k] = <<attempt', k>>
        BY <3>6, <3>8
      <4>3. n + 1 \in Nat /\ n + 1 <= Len(emitted') /\ n + 1 <= written'[attempt']
        BY <3>4, <3>8
      <4> QED BY <3>7, <4>1, <4>2, <4>3 DEF Shows
    <3> QED BY <3>1, <3>9
  <2>9. \/ line = Python!Flood /\ Python!FinishClosing(a, "failed") /\ UNCHANGED emitted
        \/ line = Python!Garbage /\ UNCHANGED <<attempt, settled, emitted>>
        \/ /\ IsEvent(line) /\ emitted' = Append(emitted, <<a, line>>)
           /\ UNCHANGED <<attempt, settled>>
    BY <1>6, <2>3, <2>4 DEF Python!OnLine, IsEvent
  <2> QED BY <2>6, <2>7, <2>8, <2>9
<1>7. ASSUME NEW a \in Python!Attempts, Python!OnError(a)
      PROVE  \E k \in Nat : Shows(k)' /\ Comes(k)'
  <2>1. /\ interpreter[a] # "none" /\ Python!FinishClosing(a, "failed")
        /\ UNCHANGED <<written, pipe, emitted>>
    BY <1>7 DEF Python!OnError, Python!process
  <2> QED BY <1>3, <1>4, <2>1
<1>8. ASSUME NEW a \in Python!Attempts, Python!OnClose(a)
      PROVE  \E k \in Nat : Shows(k)' /\ Comes(k)'
  <2>1. /\ interpreter[a] \in {"exited", "failed"} /\ pipe[a] = <<>>
        /\ UNCHANGED <<written, pipe, emitted>>
    BY <1>8 DEF Python!OnClose
  <2>2. PICK how \in {"ok", "failed"} :
          /\ how = (IF interpreter[a] = "exited" THEN "ok" ELSE "failed")
          /\ Python!FinishClosing(a, how)
    BY <1>8 DEF Python!OnClose
  <2>3. settled[a] = "no" /\ a = attempt
    BY <2>1, <2>2, OnlyThisAttempt DEF Python!FinishClosing, Python!Finish
  <2>4. ASSUME how = "ok" PROVE n = TraceLines
    <3>1. written[attempt] = TraceLines
      BY <1>0, <2>2, <2>3, <2>4 DEF OneAttempt, AttemptOk
    <3>2. n \in Nat /\ n <= TraceLines /\ Len(pipe[attempt]) = 0
      BY <2>1, <2>3, <3>1 DEF Shows
    <3>3. \A m \in (n + 1)..TraceLines : FALSE
      BY <3>1, <3>2 DEF Comes, Rest
    <3>4. n < TraceLines => n + 1 \in (n + 1)..TraceLines
      BY <3>2, Profile
    <3> QED BY <3>2, <3>3, <3>4, Profile
  <2> QED BY <1>3, <1>4, <2>1, <2>2, <2>4
<1>9. ASSUME NEW a \in Python!Attempts, Python!Write(a)
      PROVE  \E k \in Nat : Shows(k)' /\ Comes(k)'
  BY <1>0, <1>9, LineWritten
<1>10. ASSUME NEW a \in Python!Attempts, Python!Exit(a)
       PROVE  \E k \in Nat : Shows(k)' /\ Comes(k)'
  BY <1>0, <1>10, TraceKept DEF Python!Exit
<1> QED BY <1>1, <1>2, <1>5, <1>6, <1>7, <1>8, <1>9, <1>10 DEF Python!PythonNext

LEMMA NotMixedStep ==
  ASSUME PythonInv, [Python!PythonNext]_(Python!pythonVars)
  PROVE  Python!TracesNotMixed'
<1>0. Python!PythonTypeOK /\ OneAttempt /\ Python!TracesNotMixed
  BY DEF PythonInv
<1>1. CASE UNCHANGED emitted
  BY <1>0, <1>1 DEF Python!TracesNotMixed
<1>2. ASSUME NEW a \in Python!Attempts, Python!OnLine(a), NEW line, emitted' = Append(emitted, <<a, line>>)
      PROVE  Python!TracesNotMixed'
  <2>1. reading[a]
    BY <1>2 DEF Python!OnLine
  <2>2. interpreter[a] # "none" /\ settled[a] = "no"
    BY <1>0, <2>1 DEF OneAttempt, AttemptOk, Python!PythonTypeOK
  <2>3. a = attempt
    BY <2>2, OnlyThisAttempt
  <2>4. \A i \in 1..Len(emitted) : emitted[i][1] \in Nat /\ emitted[i][1] <= a
    BY <1>0, <2>3, NoneAhead DEF PythonInv
  <2> PICK e : e = emitted
    OBVIOUS
  <2> PICK f : f = Append(e, <<a, line>>)
    OBVIOUS
  <2>5. /\ Len(e) \in Nat /\ Len(f) = Len(e) + 1 /\ f[Len(e) + 1] = <<a, line>>
        /\ \A i \in 1..Len(e) : f[i] = e[i]
    BY <1>0 DEF Python!PythonTypeOK
  <2>6. \A i, k \in 1..Len(e) : i < k => e[i][1] <= e[k][1]
    BY <1>0 DEF Python!TracesNotMixed
  <2>7. ASSUME NEW i \in 1..Len(f), NEW k \in 1..Len(f), i < k PROVE f[i][1] <= f[k][1]
    <3>1. i \in 1..Len(e)
      BY <2>5, <2>7
    <3>2. CASE k \in 1..Len(e)
      BY <2>5, <2>6, <2>7, <3>1, <3>2
    <3>3. CASE k = Len(e) + 1
      <4>1. f[k][1] = a /\ f[i] = e[i]
        BY <2>5, <3>1, <3>3
      <4> QED BY <2>4, <3>1, <4>1
    <3> QED BY <2>5, <3>2, <3>3
  <2> QED BY <1>2, <2>7 DEF Python!TracesNotMixed
<1>3. UNCHANGED emitted \/ \E a \in Python!Attempts : Python!OnLine(a)
  BY DEF Python!PythonNext, Python!pythonVars, Python!Spawn, Python!OnTimeout, Python!OnError,
     Python!OnClose, Python!Write, Python!Exit
<1>4. ASSUME NEW a \in Python!Attempts, Python!OnLine(a)
      PROVE  UNCHANGED emitted \/ \E line : emitted' = Append(emitted, <<a, line>>)
  BY <1>4 DEF Python!OnLine
<1> QED BY <1>1, <1>2, <1>3, <1>4

LEMMA PythonStep == PythonInv /\ [Python!PythonNext]_(Python!pythonVars) => PythonInv'
<1> SUFFICES ASSUME PythonInv, [Python!PythonNext]_(Python!pythonVars) PROVE PythonInv'
  OBVIOUS
<1>1. Python!PythonTypeOK'
  BY PythonTyped DEF PythonInv
<1>2. OneAttempt'
  BY OneAttemptStep
<1>3. \E n \in Nat : Shows(n)' /\ Comes(n)'
  BY TraceStep
<1>4. Python!TracesNotMixed'
  BY NotMixedStep
<1> QED BY <1>1, <1>2, <1>3, <1>4 DEF PythonInv

LEMMA PythonShown == PythonInv => PythonTrace
<1> SUFFICES ASSUME PythonInv PROVE PythonTrace
  OBVIOUS
<1>1. PICK n \in Nat : Shows(n)
  BY DEF PythonInv
<1>2. n <= Len(emitted) /\ Len(emitted) \in Nat /\ attempt \in Nat
  BY <1>1, Profile DEF Shows, PythonInv, Python!PythonTypeOK, Python!Attempts
<1>3. \A i \in 1..Len(emitted) : emitted[i][1] \in Nat
  BY <1>1, NoneAhead DEF PythonInv
<1>4. ASSUME scenario = "done"
      PROVE  /\ Len(emitted) - TraceLines >= 0
             /\ \A i \in 1..(Len(emitted) - TraceLines) : emitted[i][1] # attempt
             /\ \A k \in 1..TraceLines : emitted[Len(emitted) - TraceLines + k] = <<attempt, k>>
  <2>1. n = TraceLines
    BY <1>1, <1>4 DEF Shows, PythonInv, OneAttempt
  <2>2. Len(emitted) - TraceLines >= 0
    BY <1>2, <2>1, Profile
  <2>3. \A i \in 1..(Len(emitted) - TraceLines) : i \in 1..Len(emitted)
    BY <1>2, <2>1
  <2>4. \A i \in 1..(Len(emitted) - TraceLines) : emitted[i][1] < attempt
    BY <1>1, <2>1 DEF Shows
  <2>5. \A i \in 1..(Len(emitted) - TraceLines) : emitted[i][1] # attempt
    BY <1>2, <1>3, <2>3, <2>4
  <2>6. \A k \in 1..TraceLines : emitted[Len(emitted) - TraceLines + k] = <<attempt, k>>
    BY <1>1, <2>1 DEF Shows
  <2> QED BY <2>2, <2>5, <2>6
<1>5. Python!DoneShowsTrace
  BY <1>4 DEF Python!DoneShowsTrace
<1> QED BY <1>5 DEF PythonTrace, PythonInv

-----------------------------------------------------------------------------
(* The caching demo.  One load is in flight at most, and whoever waits     *)
(* waits for it; what is stored or returned is the present revision.       *)
Fresh ==
  /\ current # Cache!Nothing
  /\ cached \in {Cache!Nothing, current}
  /\ \A c \in Cache!Callers : caller[c].at \in {"storing", "returned"} => caller[c].value = current

OneFlight ==
  /\ inFlight # Cache!Nothing =>
       caller[inFlight].at \in {"loading", "storing"} /\ loader[inFlight] = inFlight
  /\ \A c \in Cache!Callers :
       /\ caller[c].at \in {"loading", "storing"} => c = inFlight
       /\ caller[c].at = "awaiting" => inFlight # Cache!Nothing /\ loader[c] = inFlight
       /\ caller[c].at \in {"uncalled", "called", "missed"} => loader[c] = Cache!Nothing
  /\ \A c, d \in Cache!Callers :
       caller[c].at = "storing" => caller[d].at \notin {"called", "missed"}

(* No call is under way in a step that makes none.                         *)
CalledOnly ==
  Cache!Doing \notin {"read", "burst"} => \A c \in Cache!Callers : caller[c].at = "uncalled"

(* The burst: before its load, during it, after it.                        *)
BurstStage ==
  Cache!Doing = "burst" =>
    \/ /\ inFlight = Cache!Nothing /\ reads = 0 /\ cached = Cache!Nothing
       /\ \A c \in Cache!Callers : caller[c].at \in {"called", "missed"}
    \/ /\ inFlight # Cache!Nothing /\ reads = 1 /\ cached = Cache!Nothing
       /\ \A c \in Cache!Callers : caller[c].at \notin {"uncalled", "returned"}
    \/ /\ inFlight = Cache!Nothing /\ reads = 1
       /\ \A c \in Cache!Callers : caller[c].at = "returned"

CacheInv == Cache!CacheTypeOK /\ Fresh /\ OneFlight /\ CalledOnly /\ BurstStage

LEMMA ScriptSteps ==
  /\ Len(Cache!Script) = 9
  /\ \A i \in 1..9 : Cache!Script[i] = "burst" <=> i = 7
  /\ Cache!Script[6] = "delete" /\ Cache!Script[1] = "read"
  BY DEF Cache!Script

LEMMA CacheBegins == Cache!CacheInit => CacheInv
<1> SUFFICES ASSUME Cache!CacheInit PROVE CacheInv
  OBVIOUS
<1> USE Profile DEF Cache!CacheInit, Cache!Callers, Cache!Nothing, Cache!Uncalled
<1>1. Cache!CacheTypeOK
  BY ScriptSteps DEF Cache!CacheTypeOK, Cache!Revisions
<1>2. \A c \in Cache!Callers : caller[c].at \in {"called", "uncalled"}
  OBVIOUS
<1>3. Cache!Doing = "read"
  BY ScriptSteps DEF Cache!Doing
<1>4. Fresh /\ OneFlight
  BY <1>2 DEF Fresh, OneFlight
<1>5. CalledOnly /\ BurstStage
  BY <1>3 DEF CalledOnly, BurstStage
<1> QED BY <1>1, <1>4, <1>5 DEF CacheInv

(* The steps of the script begin with no load in flight.                   *)
LEMMA ScriptGoesOn ==
  ASSUME CacheInv, Cache!ScriptStep
  PROVE  CacheInv'
<1> USE Profile DEF Cache!Callers, Cache!Nothing
<1>0. Cache!CacheTypeOK /\ Fresh /\ OneFlight /\ CalledOnly
  BY DEF CacheInv
<1>1. inFlight = 0 /\ Cache!Doing # "over"
  <2>1. CASE Cache!ReadsReturn
    BY <1>0, <2>1 DEF Cache!ReadsReturn, Cache!AllReturned, OneFlight, Cache!CacheTypeOK
  <2>2. CASE Cache!WaitForExpiry \/ Cache!Delete \/ Cache!UpdatePrice
    BY <1>0, <2>2 DEF Cache!WaitForExpiry, Cache!Delete, Cache!UpdatePrice, CalledOnly,
       OneFlight,
       Cache!CacheTypeOK
  <2> QED BY <2>1, <2>2 DEF Cache!ScriptStep
<1>2. step \in 1..9
  BY <1>0, <1>1, ScriptSteps DEF Cache!Doing, Cache!CacheTypeOK
<1>3. Cache!Proceed
  BY DEF Cache!ScriptStep, Cache!ReadsReturn, Cache!WaitForExpiry, Cache!Delete,
     Cache!UpdatePrice
<1> PICK next : next = IF step < 9 THEN Cache!Script[step + 1] ELSE "over"
  OBVIOUS
<1>4. /\ step' = step + 1 /\ reads' = 0 /\ inFlight' = 0
      /\ loader' = [c \in 1..Burst |-> 0]
      /\ caller' = [c \in 1..Burst |-> IF c \in Cache!Calls(next)
                                       THEN [at |-> "called", value |-> 0]
                                       ELSE [at |-> "uncalled", value |-> 0]]
  BY <1>1, <1>3, ScriptSteps DEF Cache!Proceed, Cache!Uncalled
<1>5. Cache!Doing' = next
  BY <1>2, <1>4, ScriptSteps DEF Cache!Doing
<1>6. /\ current' \in Nat \ {0} /\ cached' \in {0, current'}
      /\ Cache!Doing = "delete" => cached' = 0
  BY <1>0 DEF Cache!ScriptStep, Cache!ReadsReturn, Cache!WaitForExpiry, Cache!Delete,
     Cache!UpdatePrice, Fresh, Cache!CacheTypeOK, Cache!Revisions
<1>7. Cache!CacheTypeOK'
  BY <1>2, <1>4, <1>6, ScriptSteps DEF Cache!CacheTypeOK, Cache!Revisions
<1>8. \A c \in 1..Burst : caller'[c].at \in {"called", "uncalled"} /\ loader'[c] = 0
  BY <1>4
<1>9. Fresh'
  BY <1>6, <1>8 DEF Fresh
<1>10. OneFlight'
  BY <1>4, <1>8 DEF OneFlight
<1>11. CalledOnly'
  BY <1>4, <1>5 DEF CalledOnly, Cache!Calls
<1>12. BurstStage'
  <2>1. SUFFICES ASSUME next = "burst"
                 PROVE  /\ inFlight' = 0 /\ reads' = 0 /\ cached' = 0
                        /\ \A c \in 1..Burst : caller'[c].at \in {"called", "missed"}
    BY <1>5 DEF BurstStage
  <2>2. step = 6
    BY <1>2, <2>1, ScriptSteps
  <2>3. cached' = 0
    BY <1>6, <2>2, ScriptSteps DEF Cache!Doing
  <2> QED BY <1>4, <2>1, <2>3 DEF Cache!Calls
<1> QED BY <1>7, <1>9, <1>10, <1>11, <1>12 DEF CacheInv

(* A callback of a call, or the end of the TTL, within a step.             *)
LEMMA CallbackTyped ==
  ASSUME Cache!CacheTypeOK, NEW c \in Cache!Callers, Cache!CacheCallback(c) \/ Cache!Expire
  PROVE  Cache!CacheTypeOK'
<1> USE Profile DEF Cache!CacheTypeOK, Cache!Callers, Cache!Nothing, Cache!Revisions, Cache!At
<1>1. CASE Cache!Stored(c)
  <2>1. caller[c].value \in Nat
    OBVIOUS
  <2>2. caller' \in [1..Burst ->
          [at : {"uncalled", "called", "missed", "loading", "storing", "awaiting", "returned"},
           value : Nat]]
    BY <1>1, <2>1 DEF Cache!Stored, Cache!Return
  <2> QED BY <1>1, <2>1, <2>2 DEF Cache!Stored
<1>2. CASE Cache!Hit(c) \/ Cache!Miss(c) \/ Cache!Found(c)
  <2>1. PICK place \in {"returned", "missed", "storing"}, value \in Nat :
          Cache!At(c, place, value)
    BY <1>2 DEF Cache!Hit, Cache!Miss, Cache!Found
  <2>2. UNCHANGED <<step, loader, inFlight, cached, current, reads>>
    BY <1>2 DEF Cache!Hit, Cache!Miss, Cache!Found
  <2> QED BY <2>1, <2>2
<1>3. CASE Cache!Join(c)
  BY <1>3 DEF Cache!Join
<1>4. CASE Cache!Load(c)
  BY <1>4 DEF Cache!Load
<1>5. CASE Cache!Expire
  BY <1>5 DEF Cache!Expire
<1> QED BY <1>1, <1>2, <1>3, <1>4, <1>5 DEF Cache!CacheCallback

LEMMA CallbackKeeps ==
  ASSUME CacheInv, NEW c \in Cache!Callers, Cache!CacheCallback(c) \/ Cache!Expire
  PROVE  CacheInv'
<1> USE Profile DEF Cache!Callers, Cache!Nothing
<1>0. /\ Fresh /\ OneFlight /\ CalledOnly /\ BurstStage
      /\ DOMAIN caller = 1..Burst /\ DOMAIN loader = 1..Burst /\ reads \in Nat
      /\ caller = [d \in 1..Burst |-> caller[d]]
      /\ inFlight \in 0..Burst
      /\ \A d \in 1..Burst : loader[d] \in 0..Burst
      /\ \A d \in 1..Burst : caller[d].at \in
           {"uncalled", "called", "missed", "loading", "storing", "awaiting", "returned"}
  BY DEF CacheInv, Cache!CacheTypeOK
<1>1. step' = step /\ current' = current /\ Cache!Doing' = Cache!Doing
  BY DEF Cache!CacheCallback, Cache!Hit, Cache!Miss, Cache!Join, Cache!Load, Cache!Found,
     Cache!Stored, Cache!Expire, Cache!Doing
<1>2. \A d \in 1..Burst : caller[d].at = "uncalled" => caller'[d].at = "uncalled"
  BY <1>0 DEF Cache!CacheCallback, Cache!Hit, Cache!Miss, Cache!Join, Cache!Load, Cache!Found,
     Cache!Stored, Cache!Expire, Cache!At, Cache!Return, OneFlight
<1>3. CalledOnly'
  BY <1>0, <1>1, <1>2 DEF CalledOnly
<1>4. ASSUME NEW place, NEW value, Cache!At(c, place, value)
      PROVE  /\ caller'[c].at = place /\ caller'[c].value = value
             /\ \A d \in 1..Burst : d # c => caller'[d] = caller[d]
  BY <1>0, <1>4 DEF Cache!At
<1>5. ASSUME Cache!Expire PROVE Fresh' /\ OneFlight' /\ BurstStage'
  <2>1. UNCHANGED <<caller, loader, inFlight, reads>> /\ cached' = 0 /\ cached # 0
    BY <1>5 DEF Cache!Expire
  <2>7. Fresh'
    BY <1>0, <1>1, <2>1 DEF Fresh
  <2>8. OneFlight'
    BY <1>0, <1>1, <2>1 DEF OneFlight
  <2>9. BurstStage'
    BY <1>0, <1>1, <2>1 DEF BurstStage, OneFlight
  <2> QED BY <2>7, <2>8, <2>9
<1>6. ASSUME Cache!Hit(c) PROVE Fresh' /\ OneFlight' /\ BurstStage'
  <2>1. /\ UNCHANGED <<loader, inFlight, reads, cached>> /\ caller[c].at = "called"
        /\ cached # 0 /\ Cache!At(c, "returned", cached)
    BY <1>6 DEF Cache!Hit
  <2>7. Fresh'
    BY <1>0, <1>1, <1>4, <2>1 DEF Fresh
  <2>8. OneFlight'
    <3>1. inFlight' # 0 =>
            caller'[inFlight'].at \in {"loading", "storing"} /\ loader'[inFlight'] = inFlight'
      BY <1>0, <1>1, <1>4, <2>1 DEF OneFlight
    <3>2. ASSUME NEW d \in 1..Burst
          PROVE  /\ caller'[d].at \in {"loading", "storing"} => d = inFlight'
                 /\ caller'[d].at = "awaiting" => inFlight' # 0 /\ loader'[d] = inFlight'
                 /\ caller'[d].at \in {"uncalled", "called", "missed"} => loader'[d] = 0
      BY <1>0, <1>1, <1>4, <2>1 DEF OneFlight
    <3>3. ASSUME NEW d \in 1..Burst, NEW e \in 1..Burst, caller'[d].at = "storing"
          PROVE  caller'[e].at \notin {"called", "missed"}
      BY <1>0, <1>1, <1>4, <2>1, <3>3 DEF OneFlight
    <3> QED BY <3>1, <3>2, <3>3 DEF OneFlight
  <2>9. BurstStage'
    BY <1>0, <1>1, <1>4, <2>1 DEF BurstStage, OneFlight
  <2> QED BY <2>7, <2>8, <2>9
<1>7. ASSUME Cache!Miss(c) PROVE Fresh' /\ OneFlight' /\ BurstStage'
  <2>1. /\ UNCHANGED <<loader, inFlight, reads, cached>> /\ caller[c].at = "called"
        /\ Cache!At(c, "missed", 0)
    BY <1>7 DEF Cache!Miss
  <2>7. Fresh'
    BY <1>0, <1>1, <1>4, <2>1 DEF Fresh
  <2>8. OneFlight'
    <3>1. inFlight' # 0 =>
            caller'[inFlight'].at \in {"loading", "storing"} /\ loader'[inFlight'] = inFlight'
      BY <1>0, <1>1, <1>4, <2>1 DEF OneFlight
    <3>2. ASSUME NEW d \in 1..Burst
          PROVE  /\ caller'[d].at \in {"loading", "storing"} => d = inFlight'
                 /\ caller'[d].at = "awaiting" => inFlight' # 0 /\ loader'[d] = inFlight'
                 /\ caller'[d].at \in {"uncalled", "called", "missed"} => loader'[d] = 0
      BY <1>0, <1>1, <1>4, <2>1 DEF OneFlight
    <3>3. ASSUME NEW d \in 1..Burst, NEW e \in 1..Burst, caller'[d].at = "storing"
          PROVE  caller'[e].at \notin {"called", "missed"}
      BY <1>0, <1>1, <1>4, <2>1, <3>3 DEF OneFlight
    <3> QED BY <3>1, <3>2, <3>3 DEF OneFlight
  <2>9. BurstStage'
    BY <1>0, <1>1, <1>4, <2>1 DEF BurstStage, OneFlight
  <2> QED BY <2>7, <2>8, <2>9
<1>8. ASSUME Cache!Join(c) PROVE Fresh' /\ OneFlight' /\ BurstStage'
  <2>1. /\ UNCHANGED <<inFlight, reads, cached>> /\ caller[c].at = "missed" /\ inFlight # 0
        /\ Cache!At(c, "awaiting", 0) /\ loader' = [loader EXCEPT ![c] = inFlight]
    BY <1>8 DEF Cache!Join
  <2>2. loader'[c] = inFlight /\ \A d \in 1..Burst : d # c => loader'[d] = loader[d]
    BY <1>0, <2>1
  <2>7. Fresh'
    BY <1>0, <1>1, <1>4, <2>1, <2>2 DEF Fresh
  <2>8. OneFlight'
    <3>1. inFlight' # 0 =>
            caller'[inFlight'].at \in {"loading", "storing"} /\ loader'[inFlight'] = inFlight'
      BY <1>0, <1>1, <1>4, <2>1, <2>2 DEF OneFlight
    <3>2. ASSUME NEW d \in 1..Burst
          PROVE  /\ caller'[d].at \in {"loading", "storing"} => d = inFlight'
                 /\ caller'[d].at = "awaiting" => inFlight' # 0 /\ loader'[d] = inFlight'
                 /\ caller'[d].at \in {"uncalled", "called", "missed"} => loader'[d] = 0
      <4>1. CASE d = c
        BY <1>0, <1>1, <1>4, <2>1, <2>2, <4>1 DEF OneFlight
      <4>2. CASE d # c
        <5>1. caller'[d] = caller[d] /\ loader'[d] = loader[d]
          BY <1>4, <2>1, <2>2, <4>2
        <5> QED BY <1>0, <2>1, <5>1 DEF OneFlight
      <4> QED BY <4>1, <4>2
    <3>3. ASSUME NEW d \in 1..Burst, NEW e \in 1..Burst, caller'[d].at = "storing"
          PROVE  caller'[e].at \notin {"called", "missed"}
      BY <1>0, <1>1, <1>4, <2>1, <2>2, <3>3 DEF OneFlight
    <3> QED BY <3>1, <3>2, <3>3 DEF OneFlight
  <2>9. BurstStage'
    BY <1>0, <1>1, <1>4, <2>1, <2>2 DEF BurstStage, OneFlight
  <2> QED BY <2>7, <2>8, <2>9
<1>9. ASSUME Cache!Load(c) PROVE Fresh' /\ OneFlight' /\ BurstStage'
  <2>1. /\ UNCHANGED cached /\ inFlight' = c /\ reads' = reads + 1
        /\ caller[c].at = "missed" /\ inFlight = 0
        /\ Cache!At(c, "loading", 0) /\ loader' = [loader EXCEPT ![c] = c]
    BY <1>9 DEF Cache!Load
  <2>2. loader'[c] = c /\ \A d \in 1..Burst : d # c => loader'[d] = loader[d]
    BY <1>0, <2>1
  <2>7. Fresh'
    BY <1>0, <1>1, <1>4, <2>1, <2>2 DEF Fresh
  <2>8. OneFlight'
    <3>1. inFlight' # 0 =>
            caller'[inFlight'].at \in {"loading", "storing"} /\ loader'[inFlight'] = inFlight'
      BY <1>0, <1>1, <1>4, <2>1, <2>2 DEF OneFlight
    <3>2. ASSUME NEW d \in 1..Burst
          PROVE  /\ caller'[d].at \in {"loading", "storing"} => d = inFlight'
                 /\ caller'[d].at = "awaiting" => inFlight' # 0 /\ loader'[d] = inFlight'
                 /\ caller'[d].at \in {"uncalled", "called", "missed"} => loader'[d] = 0
      BY <1>0, <1>1, <1>4, <2>1, <2>2 DEF OneFlight
    <3>3. ASSUME NEW d \in 1..Burst, NEW e \in 1..Burst, caller'[d].at = "storing"
          PROVE  caller'[e].at \notin {"called", "missed"}
      BY <1>0, <1>1, <1>4, <2>1, <2>2, <3>3 DEF OneFlight
    <3> QED BY <3>1, <3>2, <3>3 DEF OneFlight
  <2>9. BurstStage'
    BY <1>0, <1>1, <1>4, <2>1, <2>2 DEF BurstStage, OneFlight
  <2> QED BY <2>7, <2>8, <2>9
<1>10. ASSUME Cache!Found(c) PROVE Fresh' /\ OneFlight' /\ BurstStage'
  <2>1. /\ UNCHANGED <<loader, inFlight, reads, cached>> /\ caller[c].at = "loading"
        /\ Cache!At(c, "storing", current)
        /\ \A d \in 1..Burst : caller[d].at \notin {"called", "missed"}
    BY <1>10 DEF Cache!Found
  <2>7. Fresh'
    BY <1>0, <1>1, <1>4, <2>1 DEF Fresh
  <2>8. OneFlight'
    <3>1. inFlight' # 0 =>
            caller'[inFlight'].at \in {"loading", "storing"} /\ loader'[inFlight'] = inFlight'
      BY <1>0, <1>1, <1>4, <2>1 DEF OneFlight
    <3>2. ASSUME NEW d \in 1..Burst
          PROVE  /\ caller'[d].at \in {"loading", "storing"} => d = inFlight'
                 /\ caller'[d].at = "awaiting" => inFlight' # 0 /\ loader'[d] = inFlight'
                 /\ caller'[d].at \in {"uncalled", "called", "missed"} => loader'[d] = 0
      BY <1>0, <1>1, <1>4, <2>1 DEF OneFlight
    <3>3. ASSUME NEW d \in 1..Burst, NEW e \in 1..Burst, caller'[d].at = "storing"
          PROVE  caller'[e].at \notin {"called", "missed"}
      BY <1>0, <1>1, <1>4, <2>1, <3>3 DEF OneFlight
    <3> QED BY <3>1, <3>2, <3>3 DEF OneFlight
  <2>9. BurstStage'
    BY <1>0, <1>1, <1>4, <2>1 DEF BurstStage, OneFlight
  <2> QED BY <2>7, <2>8, <2>9
<1>11. ASSUME Cache!Stored(c) PROVE Fresh' /\ OneFlight' /\ BurstStage'
  <2>1. /\ caller[c].at = "storing" /\ cached' = current /\ inFlight' = 0
        /\ UNCHANGED <<loader, reads>> /\ inFlight = c
    BY <1>0, <1>11 DEF Cache!Stored, Fresh, OneFlight
  <2>2. caller' = [d \in 1..Burst |-> IF loader[d] = c /\ caller[d].at # "returned"
                                    THEN [at |-> "returned", value |-> current] ELSE caller[d]]
    BY <1>0, <1>11 DEF Cache!Stored, Cache!Return, Fresh
  <2>3. \A d \in 1..Burst :
          IF caller[d].at \in {"loading", "storing", "awaiting", "returned"}
          THEN caller'[d].at = "returned" /\ caller'[d].value = current
          ELSE caller'[d] = caller[d] /\ caller[d].at = "uncalled"
    BY <1>0, <2>1, <2>2 DEF Fresh, OneFlight
  <2>7. Fresh'
    BY <1>0, <1>1, <2>1, <2>3 DEF Fresh
  <2>8. OneFlight'
    BY <1>0, <1>1, <2>1, <2>3 DEF OneFlight
  <2>9. BurstStage'
    BY <1>0, <1>1, <2>1, <2>3 DEF BurstStage, OneFlight
  <2> QED BY <2>7, <2>8, <2>9
<1>12. Fresh' /\ OneFlight' /\ BurstStage'
  BY <1>5, <1>6, <1>7, <1>8, <1>9, <1>10, <1>11 DEF Cache!CacheCallback
<1> QED BY <1>3, <1>12, CallbackTyped DEF CacheInv

LEMMA CacheStep == CacheInv /\ [Cache!CacheNext]_(Cache!cacheVars) => CacheInv'
<1> SUFFICES ASSUME CacheInv, [Cache!CacheNext]_(Cache!cacheVars) PROVE CacheInv'
  OBVIOUS
<1>1. CASE UNCHANGED Cache!cacheVars
  BY <1>1 DEF Cache!cacheVars, CacheInv, Cache!CacheTypeOK, Fresh, OneFlight, CalledOnly,
     BurstStage, Cache!Doing
<1>2. 1 \in Cache!Callers
  BY Profile DEF Cache!Callers
<1> QED BY <1>1, <1>2, ScriptGoesOn, CallbackKeeps DEF Cache!CacheNext

LEMMA CacheReports == CacheInv => Cache!BurstLoadsOnce /\ Cache!NoStaleAnswer
<1> SUFFICES ASSUME CacheInv PROVE Cache!BurstLoadsOnce /\ Cache!NoStaleAnswer
  OBVIOUS
<1>1. Cache!NoStaleAnswer
  BY DEF CacheInv, Fresh, Cache!NoStaleAnswer
<1>2. 1 \in Cache!Callers
  BY Profile DEF Cache!Callers
<1>3. ASSUME Cache!Doing = "burst", Cache!AllReturned
      PROVE  reads = 1 /\ \A c \in Cache!Callers : caller[c].value = current
  BY <1>2, <1>3 DEF CacheInv, Fresh, OneFlight, BurstStage, Cache!AllReturned, Cache!CacheTypeOK
<1> QED BY <1>1, <1>3 DEF Cache!BurstLoadsOnce

-----------------------------------------------------------------------------
(* The microservices demo.  The wire keeps the order of the messages, so   *)
(* the service handles the repetition after the first message.             *)
Reserved == reservations = <<42>>
FirstBefore(i) == Reserved \/ \E k \in 1..(i - 1) : wire[k] = 1

InOrderHandled ==
  /\ reservations \in {<<>>, <<42>>}
  /\ sent >= 1 /\ boundary # "closed" => FirstBefore(Len(wire) + 1)
  /\ \A i \in 1..Len(wire) : wire[i] = 2 => FirstBefore(i)
  /\ \A i \in 1..Len(replies) : replies[i][1] = 2 => replies[i][2] = "reused"
  /\ answered[2] \in {"none", "reused", "timeout"}

MessagesInv == Messages!MessagesTypeOK /\ InOrderHandled

LEMMA MessageList ==
  /\ Len(Messages!Messages) = 4 /\ Messages!Numbers = 1..4
  /\ Messages!Messages[1].kind = "reserve" /\ Messages!Messages[2].kind = "reserve"
  /\ Messages!Messages[3].kind = "event" /\ Messages!Messages[4].kind = "reserve"
  /\ Messages!Messages[1].operationId = 42 /\ Messages!Messages[2].operationId = 42
  /\ Messages!Messages[4].operationId = 43
  /\ Messages!Messages[1].sku # "sold-out" /\ Messages!Messages[4].sku = "sold-out"
  BY DEF Messages!Messages, Messages!Numbers

LEMMA MessagesBegin == Messages!MessagesInit => MessagesInv
<1> SUFFICES ASSUME Messages!MessagesInit PROVE MessagesInv
  OBVIOUS
<1> USE MessageList DEF Messages!MessagesInit
<1>1. Messages!MessagesTypeOK
  BY DEF Messages!MessagesTypeOK, Messages!Answers
<1>2. Len(wire) = 0 /\ Len(replies) = 0 /\ reservations = <<>> /\ sent = 0 /\ answered[2] = "none"
  OBVIOUS
<1>3. InOrderHandled
  BY <1>2 DEF InOrderHandled
<1> QED BY <1>1, <1>3 DEF MessagesInv

LEMMA CreatedIds ==
  ASSUME InOrderHandled
  PROVE  /\ Messages!Created = (IF Reserved THEN {42} ELSE {})
         /\ ~Reserved => reservations = <<>>
<1>1. CASE reservations = <<>>
  <2>1. Len(reservations) = 0 /\ ~Reserved
    BY <1>1 DEF Reserved
  <2> QED BY <1>1, <2>1 DEF Messages!Created
<1>2. CASE reservations = <<42>>
  <2>1. Len(reservations) = 1 /\ reservations[1] = 42 /\ Reserved
    BY <1>2 DEF Reserved
  <2> QED BY <2>1 DEF Messages!Created
<1> QED BY <1>1, <1>2 DEF InOrderHandled

(* What the service does with the message at the head of the wire.         *)
LEMMA CommandHandled ==
  ASSUME MessagesInv, wire # <<>>, Messages!Messages[Head(wire)].kind = "reserve",
         NEW how \in Messages!Answers, Messages!Reserve(Head(wire), how)
  PROVE  /\ reservations' \in {<<>>, <<42>>} /\ (Reserved => Reserved')
         /\ Head(wire) = 1 => Reserved'
         /\ Head(wire) = 2 => how = "reused"
<1>0. Messages!MessagesTypeOK /\ InOrderHandled
  BY DEF MessagesInv
<1> PICK h : h = Head(wire)
  OBVIOUS
<1>1. h \in {1, 2, 4} /\ h = wire[1] /\ 1 \in 1..Len(wire)
  <2>1. h \in 1..4 /\ h = wire[1] /\ 1 \in 1..Len(wire)
    BY <1>0, MessageList DEF Messages!MessagesTypeOK
  <2> QED BY <2>1, MessageList
<1>2. \/ UNCHANGED reservations /\ how \in {"reused", "refused"}
      \/ /\ Messages!Messages[h].sku # "sold-out" /\ Messages!Messages[h].operationId \notin Messages!Created
         /\ reservations' = Append(reservations, Messages!Messages[h].operationId)
  BY DEF Messages!Reserve
<1>3. h = 2 => Reserved
  BY <1>0, <1>1 DEF InOrderHandled, FirstBefore
<1>4. CASE h = 4
  <2>1. UNCHANGED reservations
    BY <1>2, <1>4, MessageList
  <2> QED BY <1>0, <1>4, <2>1 DEF InOrderHandled, Reserved
<1>5. CASE h \in {1, 2} /\ Reserved
  <2>1. UNCHANGED reservations /\ how = "reused"
    BY <1>0, <1>5, CreatedIds, MessageList DEF Messages!Reserve
  <2> QED BY <1>5, <2>1 DEF Reserved
<1>6. CASE h = 1 /\ ~Reserved
  <2>1. reservations = <<>> /\ Messages!Created = {}
    BY <1>0, <1>6, CreatedIds
  <2>2. reservations' = Append(<<>>, 42)
    BY <1>6, <2>1, MessageList DEF Messages!Reserve
  <2>3. reservations' = <<42>>
    BY <2>2
  <2> QED BY <1>6, <2>3 DEF Reserved
<1> QED BY <1>1, <1>3, <1>4, <1>5, <1>6

(* ... and what that leaves of the order on the wire.                      *)
LEMMA WireTaken ==
  ASSUME MessagesInv, wire # <<>>, wire' = Tail(wire), Reserved => Reserved',
         Head(wire) = 1 => Reserved', UNCHANGED <<sent, boundary>>
  PROVE  /\ sent' >= 1 /\ boundary' # "closed" => FirstBefore(Len(wire) + 1)'
         /\ \A i \in 1..Len(wire') : wire'[i] = 2 => FirstBefore(i)'
<1> PICK w : w = wire
  OBVIOUS
<1>1. /\ w \in Seq(1..4) /\ w # <<>> /\ Len(w) \in Nat \ {0} /\ Head(w) = w[1]
      /\ Len(Tail(w)) = Len(w) - 1 /\ \A i \in 1..Len(Tail(w)) : Tail(w)[i] = w[i + 1]
  BY MessageList DEF MessagesInv, Messages!MessagesTypeOK
<1>2. ASSUME NEW i \in 2..(Len(w) + 1), FirstBefore(i) PROVE FirstBefore(i - 1)'
  <2>1. CASE Reserved
    BY <2>1 DEF FirstBefore
  <2>2. CASE \E k \in 1..(i - 1) : w[k] = 1
    <3>1. PICK k \in 1..(i - 1) : w[k] = 1
      BY <2>2
    <3>2. CASE k = 1
      BY <1>1, <3>1, <3>2 DEF FirstBefore
    <3>3. CASE k # 1
      <4>1. k - 1 \in 1..(i - 1 - 1) /\ k - 1 \in 1..Len(Tail(w)) /\ Tail(w)[k - 1] = 1
        BY <1>1, <3>1, <3>3
      <4> QED BY <4>1 DEF FirstBefore
    <3> QED BY <3>2, <3>3
  <2> QED BY <1>2, <2>1, <2>2 DEF FirstBefore
<1>3. ASSUME sent' >= 1, boundary' # "closed" PROVE FirstBefore(Len(wire) + 1)'
  <2>1. FirstBefore(Len(w) + 1) /\ Len(w) + 1 \in 2..(Len(w) + 1)
    BY <1>1, <1>3 DEF MessagesInv, InOrderHandled
  <2>2. FirstBefore(Len(w) + 1 - 1)'
    BY <1>2, <2>1
  <2>3. Len(wire') + 1 = Len(w) + 1 - 1
    BY <1>1
  <2> QED BY <2>2, <2>3 DEF FirstBefore
<1>4. ASSUME NEW i \in 1..Len(wire'), wire'[i] = 2 PROVE FirstBefore(i)'
  <2>1. i + 1 \in 1..Len(w) /\ w[i + 1] = 2 /\ i + 1 \in 2..(Len(w) + 1) /\ i + 1 - 1 = i
    BY <1>1, <1>4
  <2>2. FirstBefore(i + 1)
    BY <2>1 DEF MessagesInv, InOrderHandled
  <2>3. FirstBefore(i + 1 - 1)'
    BY <1>2, <2>1, <2>2
  <2> QED BY <2>1, <2>3
<1> QED BY <1>3, <1>4

LEMMA MessagesTyped ==
  ASSUME MessagesInv, [Messages!MessagesNext]_(Messages!messageVars)
  PROVE  Messages!MessagesTypeOK'
<1>0. Messages!MessagesTypeOK /\ InOrderHandled
  BY DEF MessagesInv
<1> USE <1>0, MessageList DEF Messages!MessagesTypeOK, Messages!Answers
<1>1. CASE UNCHANGED Messages!messageVars
  BY <1>1 DEF Messages!messageVars
<1>2. CASE Messages!Open \/ Messages!EmitFails \/ Messages!Finished \/ Messages!CloseBoth
  <2>1. CASE Messages!Open
    BY <2>1 DEF Messages!Open
  <2>2. CASE Messages!EmitFails \/ Messages!Finished
    BY <2>2 DEF Messages!EmitFails, Messages!Finished
  <2>3. CASE Messages!CloseBoth
    <3>1. /\ wire' = <<>> /\ replies' = <<>> /\ boundary' = "closed"
          /\ UNCHANGED <<sent, answered, reservations>>
      BY <2>3 DEF Messages!CloseBoth
    <3>2. wire' \in Seq(1..4)
      BY <3>1
    <3>3. replies' \in Seq((1..4) \X {"none", "reserved", "reused", "refused", "timeout"})
      BY <3>1
    <3> QED BY <3>1, <3>2, <3>3
  <2> QED BY <1>2, <2>1, <2>2, <2>3
<1>3. CASE Messages!Send
  BY <1>3 DEF Messages!Send
<1>4. CASE Messages!Receive
  <2>1. Head(replies) \in (1..4) \X {"none", "reserved", "reused", "refused", "timeout"}
    BY <1>4 DEF Messages!Receive
  <2>2. answered' \in [1..4 -> {"none", "reserved", "reused", "refused", "timeout"}]
    BY <1>4, <2>1 DEF Messages!Receive
  <2> QED BY <1>4, <2>2 DEF Messages!Receive
<1>5. ASSUME NEW n \in Messages!Numbers, Messages!Timeout(n) PROVE Messages!MessagesTypeOK'
  BY <1>5 DEF Messages!Timeout
<1>6. CASE Messages!OnCommand
  <2>1. PICK how \in Messages!Answers :
          Messages!Reserve(Head(wire), how) /\ replies' = Append(replies, <<Head(wire), how>>)
    BY <1>6 DEF Messages!OnCommand
  <2>2. /\ wire # <<>> /\ wire' = Tail(wire) /\ UNCHANGED <<sent, answered, boundary>>
        /\ Messages!Messages[Head(wire)].kind = "reserve"
    BY <1>6 DEF Messages!OnCommand
  <2>3. reservations' \in {<<>>, <<42>>}
    BY <1>0, <2>1, <2>2, CommandHandled
  <2>4. reservations' \in Seq({42, 43})
    <3>1. <<42>> \in Seq({42, 43}) /\ <<>> \in Seq({42, 43})
      OBVIOUS
    <3> QED BY <2>3, <3>1
  <2>5. Head(wire) \in 1..4 /\ wire' \in Seq(1..4)
    BY <2>2
  <2>6. replies' \in Seq((1..4) \X {"none", "reserved", "reused", "refused", "timeout"})
    BY <2>1, <2>5
  <2> QED BY <2>2, <2>4, <2>5, <2>6
<1>7. CASE Messages!OrderCreated
  BY <1>7 DEF Messages!OrderCreated
<1> QED BY <1>1, <1>2, <1>3, <1>4, <1>5, <1>6, <1>7 DEF Messages!MessagesNext

LEMMA HandledStep ==
  ASSUME MessagesInv, [Messages!MessagesNext]_(Messages!messageVars)
  PROVE  InOrderHandled'
<1>0. Messages!MessagesTypeOK /\ InOrderHandled
  BY DEF MessagesInv
<1>1. /\ DOMAIN answered = 1..4 /\ wire \in Seq(1..4) /\ sent \in 0..4
      /\ replies \in Seq((1..4) \X Messages!Answers)
  BY <1>0, MessageList DEF Messages!MessagesTypeOK
<1>2. CASE UNCHANGED <<wire, replies, reservations, sent, boundary>>
           /\ answered'[2] \in {"none", "reused", "timeout"}
  BY <1>0, <1>2 DEF InOrderHandled, FirstBefore, Reserved
<1>3. CASE UNCHANGED Messages!messageVars
  BY <1>0, <1>2, <1>3 DEF Messages!messageVars, InOrderHandled
<1>4. CASE Messages!Open
  BY <1>0, <1>4 DEF Messages!Open, InOrderHandled, FirstBefore, Reserved
<1>5. CASE Messages!EmitFails \/ Messages!Finished
  BY <1>0, <1>5 DEF Messages!EmitFails, Messages!Finished, InOrderHandled, FirstBefore, Reserved
<1>6. CASE Messages!CloseBoth
  <2>1. Len(wire') = 0 /\ Len(replies') = 0 /\ boundary' = "closed" /\ UNCHANGED <<reservations, answered>>
    BY <1>6 DEF Messages!CloseBoth
  <2> QED BY <1>0, <2>1 DEF InOrderHandled
<1>7. CASE Messages!Send
  <2> PICK w : w = wire
    OBVIOUS
  <2> PICK m : m = sent + 1
    OBVIOUS
  <2>1. /\ wire' = Append(w, m) /\ sent' = m /\ boundary = "open"
        /\ UNCHANGED <<answered, replies, reservations, boundary>>
    BY <1>7 DEF Messages!Send
  <2>2. /\ Len(w) \in Nat /\ m \in Nat /\ Len(Append(w, m)) = Len(w) + 1
        /\ Append(w, m)[Len(w) + 1] = m /\ \A i \in 1..Len(w) : Append(w, m)[i] = w[i]
    BY <1>1
  <2>3. ASSUME NEW i \in 1..(Len(w) + 1), FirstBefore(i) PROVE FirstBefore(i)'
    <3>1. \A k \in 1..(i - 1) : k \in 1..Len(w)
      BY <2>2
    <3> QED BY <2>1, <2>2, <2>3, <3>1 DEF FirstBefore, Reserved
  <2>4. m = 1 \/ FirstBefore(Len(w) + 1)
    BY <1>0, <1>1, <2>1 DEF InOrderHandled
  <2>5. FirstBefore(Len(wire) + 1)'
    <3>1. CASE m = 1
      BY <2>1, <2>2, <3>1 DEF FirstBefore
    <3>2. CASE FirstBefore(Len(w) + 1)
      <4>1. FirstBefore(Len(w) + 1)'
        BY <2>2, <2>3, <3>2
      <4>2. \A k \in 1..(Len(w) + 1 - 1) : k \in 1..(Len(wire') + 1 - 1)
        BY <2>1, <2>2
      <4> QED BY <4>1, <4>2 DEF FirstBefore
    <3> QED BY <2>4, <3>1, <3>2
  <2>6. ASSUME NEW i \in 1..Len(wire'), wire'[i] = 2 PROVE FirstBefore(i)'
    <3>1. i \in 1..(Len(w) + 1)
      BY <2>1, <2>2
    <3>2. CASE i \in 1..Len(w)
      <4>1. w[i] = 2
        BY <2>1, <2>2, <2>6, <3>2
      <4> QED BY <1>0, <2>3, <3>1, <3>2, <4>1 DEF InOrderHandled
    <3>3. CASE i = Len(w) + 1
      <4>1. m = 2
        BY <2>1, <2>2, <2>6, <3>3
      <4> QED BY <2>3, <2>4, <3>1, <3>3, <4>1
    <3> QED BY <2>2, <3>1, <3>2, <3>3
  <2>7. /\ reservations' \in {<<>>, <<42>>} /\ answered'[2] \in {"none", "reused", "timeout"}
        /\ \A i \in 1..Len(replies') : replies'[i][1] = 2 => replies'[i][2] = "reused"
    BY <1>0, <2>1 DEF InOrderHandled
  <2> QED BY <2>5, <2>6, <2>7 DEF InOrderHandled
<1>8. CASE Messages!Receive
  <2>1. /\ replies # <<>> /\ replies' = Tail(replies)
        /\ UNCHANGED <<sent, wire, reservations, boundary>>
    BY <1>8 DEF Messages!Receive
  <2> PICK r : r = replies
    OBVIOUS
  <2>2. /\ Len(r) \in Nat \ {0} /\ Head(r) = r[1] /\ 1 \in 1..Len(r)
        /\ Len(Tail(r)) = Len(r) - 1 /\ \A i \in 1..Len(Tail(r)) : Tail(r)[i] = r[i + 1]
    BY <1>1, <2>1
  <2>3. \A i \in 1..Len(r) : r[i][1] = 2 => r[i][2] = "reused"
    BY <1>0 DEF InOrderHandled
  <2>4. \A i \in 1..Len(replies') : replies'[i][1] = 2 => replies'[i][2] = "reused"
    <3>1. \A i \in 1..Len(Tail(r)) : i + 1 \in 1..Len(r)
      BY <2>2
    <3> QED BY <2>1, <2>2, <2>3, <3>1
  <2>5. \/ answered' = answered
        \/ answered' = [answered EXCEPT ![r[1][1]] = r[1][2]]
    BY <1>8, <2>2 DEF Messages!Receive
  <2>6. answered'[2] \in {"none", "reused", "timeout"}
    <3>1. answered[2] \in {"none", "reused", "timeout"}
      BY <1>0 DEF InOrderHandled
    <3>2. r[1][1] = 2 => r[1][2] = "reused"
      BY <2>2, <2>3
    <3> QED BY <1>1, <2>5, <3>1, <3>2
  <2> QED BY <1>0, <2>1, <2>4, <2>6 DEF InOrderHandled, FirstBefore, Reserved
<1>9. ASSUME NEW n \in Messages!Numbers, Messages!Timeout(n) PROVE InOrderHandled'
  <2>1. /\ answered' = [answered EXCEPT ![n] = "timeout"] /\ boundary = "open"
        /\ UNCHANGED <<sent, wire, replies, reservations>>
    BY <1>9 DEF Messages!Timeout
  <2>2. answered'[2] \in {"none", "reused", "timeout"}
    BY <1>0, <1>1, <2>1 DEF InOrderHandled
  <2> QED BY <1>0, <2>1, <2>2 DEF InOrderHandled, FirstBefore, Reserved
<1>10. CASE Messages!OnCommand
  <2>1. PICK how \in Messages!Answers :
          Messages!Reserve(Head(wire), how) /\ replies' = Append(replies, <<Head(wire), how>>)
    BY <1>10 DEF Messages!OnCommand
  <2>2. /\ wire # <<>> /\ wire' = Tail(wire) /\ UNCHANGED <<sent, answered, boundary>>
        /\ Messages!Messages[Head(wire)].kind = "reserve"
    BY <1>10 DEF Messages!OnCommand
  <2>3. /\ reservations' \in {<<>>, <<42>>} /\ (Reserved => Reserved')
        /\ (Head(wire) = 1 => Reserved') /\ (Head(wire) = 2 => how = "reused")
    BY <2>1, <2>2, CommandHandled
  <2>4. /\ sent' >= 1 /\ boundary' # "closed" => FirstBefore(Len(wire) + 1)'
        /\ \A i \in 1..Len(wire') : wire'[i] = 2 => FirstBefore(i)'
    BY <2>2, <2>3, WireTaken
  <2> PICK h : h = Head(wire)
    OBVIOUS
  <2> PICK r : r = replies
    OBVIOUS
  <2>5. /\ Len(r) \in Nat /\ Len(Append(r, <<h, how>>)) = Len(r) + 1
        /\ Append(r, <<h, how>>)[Len(r) + 1] = <<h, how>>
        /\ \A i \in 1..Len(r) : Append(r, <<h, how>>)[i] = r[i]
    BY <1>1, <2>2
  <2>6. ASSUME NEW i \in 1..Len(replies'), replies'[i][1] = 2 PROVE replies'[i][2] = "reused"
    <3>1. i \in 1..Len(r) \/ i = Len(r) + 1
      BY <2>1, <2>5
    <3>2. CASE i \in 1..Len(r)
      BY <1>0, <2>1, <2>5, <2>6, <3>2 DEF InOrderHandled
    <3>3. CASE i = Len(r) + 1
      BY <2>1, <2>3, <2>5, <2>6, <3>3
    <3> QED BY <3>1, <3>2, <3>3
  <2>7. answered'[2] \in {"none", "reused", "timeout"}
    BY <1>0, <2>2 DEF InOrderHandled
  <2> QED BY <2>3, <2>4, <2>6, <2>7 DEF InOrderHandled
<1>11. CASE Messages!OrderCreated
  <2>1. /\ wire # <<>> /\ wire' = Tail(wire) /\ UNCHANGED <<sent, answered, replies, reservations, boundary>>
        /\ Messages!Messages[Head(wire)].kind = "event"
    BY <1>11 DEF Messages!OrderCreated
  <2>2. Head(wire) # 1
    BY <2>1, MessageList
  <2>3. Reserved => Reserved'
    BY <2>1 DEF Reserved
  <2>4. /\ sent' >= 1 /\ boundary' # "closed" => FirstBefore(Len(wire) + 1)'
        /\ \A i \in 1..Len(wire') : wire'[i] = 2 => FirstBefore(i)'
    BY <2>1, <2>2, <2>3, WireTaken
  <2> QED BY <1>0, <2>1, <2>4 DEF InOrderHandled
<1> QED BY <1>3, <1>4, <1>5, <1>6, <1>7, <1>8, <1>9, <1>10, <1>11 DEF Messages!MessagesNext

LEMMA MessagesStep == MessagesInv /\ [Messages!MessagesNext]_(Messages!messageVars) => MessagesInv'
  BY MessagesTyped, HandledStep DEF MessagesInv

LEMMA MessagesReport == MessagesInv => Messages!ReservedOnce
<1> SUFFICES ASSUME MessagesInv PROVE Messages!ReservedOnce
  OBVIOUS
<1>1. InOrderHandled
  BY DEF MessagesInv
<1>2. CASE Reserved
  <2>1. Messages!Created = {42} /\ Len(reservations) = 1
    BY <1>1, <1>2, CreatedIds DEF Reserved
  <2>2. Messages!Cardinality({42}) = 1
    BY FS_Singleton DEF Messages!Cardinality, Cardinality
  <2> QED BY <1>1, <2>1, <2>2 DEF Messages!ReservedOnce, InOrderHandled
<1>3. CASE ~Reserved
  <2>1. Messages!Created = {} /\ Len(reservations) = 0
    BY <1>1, <1>3, CreatedIds
  <2>2. Messages!Cardinality({}) = 0
    BY FS_EmptySet DEF Messages!Cardinality, Cardinality
  <2> QED BY <1>1, <2>1, <2>2 DEF Messages!ReservedOnce, InOrderHandled
<1> QED BY <1>2, <1>3

-----------------------------------------------------------------------------
(* The BullMQ round trip.  Keys need a queue and a busy worker an open     *)
(* connection: once worker and events are closed, nothing writes.          *)
QueueOwned ==
  /\ keys \/ made # {} => "queue" \in made
  /\ job = "active" => "worker" \in made \ shut
  /\ bullAt \in {"adding", "awaiting", "obliterating", "closingQueue"} => "queue" \in made
  /\ bullAt \in {"obliterating", "closingQueue", "over"} => made \ shut \subseteq {"queue"}
  /\ bullAt \in {"closingQueue", "over"} /\ keys => forgiven
  /\ bullAt = "over" => shut = made
  /\ bullAt = "events" => "queue" \in made
  /\ bullAt = "worker" => {"queue", "events"} \subseteq made
  /\ bullAt = "connecting" => {"queue", "events", "worker"} \subseteq made

BullInv == Bull!BullTypeOK /\ QueueOwned

LEMMA BullBegins == Bull!BullInit => BullInv
  BY DEF Bull!BullInit, BullInv, Bull!BullTypeOK, QueueOwned, Bull!BullClients

LEMMA BullStep == BullInv /\ [Bull!BullNext]_(Bull!bullVars) => BullInv'
<1> SUFFICES ASSUME BullInv, [Bull!BullNext]_(Bull!bullVars) PROVE BullInv'
  OBVIOUS
<1> USE DEF BullInv, Bull!BullTypeOK, QueueOwned, Bull!BullClients
<1>1. CASE UNCHANGED Bull!bullVars
  BY <1>1 DEF Bull!bullVars
<1>2. CASE Bull!Construct
  <2>1. UNCHANGED <<shut, job, keys, forgiven>> /\ bullAt \in {"queue", "events", "worker"}
    BY <1>2 DEF Bull!Construct
  <2>2. CASE bullAt' = "closing" /\ made' = made
    BY <2>1, <2>2
  <2>3. CASE bullAt = "queue" /\ bullAt' = "events" /\ made' = made \cup {"queue"}
    BY <2>1, <2>3
  <2>4. CASE bullAt = "events" /\ bullAt' = "worker" /\ made' = made \cup {"events"}
    BY <2>1, <2>4
  <2>5. CASE bullAt = "worker" /\ bullAt' = "connecting" /\ made' = made \cup {"worker"}
    BY <2>1, <2>5
  <2> QED BY <1>2, <2>1, <2>2, <2>3, <2>4, <2>5 DEF Bull!Construct, Bull!After
<1>3. CASE Bull!WaitUntilReady
  BY <1>3 DEF Bull!WaitUntilReady
<1>4. CASE Bull!Add
  BY <1>4 DEF Bull!Add
<1>5. CASE Bull!WaitUntilFinished
  BY <1>5 DEF Bull!WaitUntilFinished
<1>6. ASSUME NEW c \in Bull!BullClients, Bull!Close(c) PROVE BullInv'
  BY <1>6 DEF Bull!Close
<1>7. CASE Bull!ClosedSoFar
  BY <1>7 DEF Bull!ClosedSoFar
<1>8. CASE Bull!Obliterate
  BY <1>8 DEF Bull!Obliterate
<1>9. CASE Bull!CloseQueue
  BY <1>9 DEF Bull!CloseQueue
<1>10. CASE Bull!TakeJob
  BY <1>10 DEF Bull!TakeJob
<1>11. CASE Bull!FinishJob
  <2>1. /\ job = "active" /\ job' = "finished" /\ keys' \in BOOLEAN
        /\ UNCHANGED <<bullAt, made, shut, forgiven>>
    BY <1>11 DEF Bull!FinishJob
  <2>2. bullAt \notin {"obliterating", "closingQueue", "over"} /\ "queue" \in made
    BY <2>1
  <2> QED BY <2>1, <2>2
<1> QED BY <1>1, <1>2, <1>3, <1>4, <1>5, <1>6, <1>7, <1>8, <1>9, <1>10, <1>11
        DEF Bull!BullNext, Bull!BullStep

LEMMA BullCleans == BullInv => Bull!NothingOfQueueLeft
  BY DEF BullInv, QueueOwned, Bull!NothingOfQueueLeft

(* The database demos.  A scenario goes through known states: the row, the *)
(* two transactions and the holder of the lock before statement p.         *)
Said(i, by, do, arg) == Database!TransactionsAndLocks[i] = Database!S(by, do, arg)
Money(balance, version) == [balance |-> balance, version |-> version]
Began(level) == [level |-> level, snapshot |-> Database!Nothing, own |-> Database!Nothing]
Wrote(new) == [level |-> "rc", snapshot |-> Database!Nothing, own |-> new]
Snapped(old) == [level |-> "rr", snapshot |-> old, own |-> Database!Nothing]

ServerIs(theRow, first, second, holder) ==
  /\ row = theRow /\ lockedBy = holder
  /\ tx["first"] = first /\ tx["second"] = second /\ tx["pool"] = Database!NoTx

LocksAt(p) ==
  LET none == Database!NoTx IN
  /\ p \in {1, 2, 3, 9, 15, 27, 28, 29} => ServerIs(Money(10, 0), none, none, "none")
  /\ p \in {4, 5, 16} => ServerIs(Money(10, 0), Began("rc"), none, "none")
  /\ p \in {6, 7} => ServerIs(Money(11, 0), Began("rc"), none, "none")
  /\ p \in {8, 14} => ServerIs(Money(11, 0), none, none, "none")
  /\ p = 10 => ServerIs(Money(10, 0), Began("rr"), none, "none")
  /\ p = 11 => ServerIs(Money(10, 0), Snapped(Money(10, 0)), none, "none")
  /\ p \in {12, 13} => ServerIs(Money(11, 0), Snapped(Money(10, 0)), none, "none")
  /\ p = 17 => ServerIs(Money(10, 0), Began("rc"), none, "first")
  /\ p \in {18, 19, 20} => ServerIs(Money(10, 0), Began("rc"), Began("rc"), "first")
  /\ p = 21 => ServerIs(Money(10, 0), Wrote(Money(9, 0)), Began("rc"), "first")
  /\ p = 22 => ServerIs(Money(9, 0), none, Began("rc"),
                        IF secondLock = "granted" THEN "second" ELSE "none")
  /\ p = 23 => ServerIs(Money(9, 0), none, Began("rc"), "second")
  /\ p = 24 => ServerIs(Money(9, 0), none, Wrote(Money(7, 0)), "second")
  /\ p \in {25, 26} => ServerIs(Money(7, 0), none, none, "none")
  /\ p \in {30, 31} => ServerIs(Money(9, 1), none, none, "none")

(* The promise of the second SELECT FOR UPDATE, and what was read for the  *)
(* two compare-and-sets.                                                   *)
PromiseAt(p) ==
  /\ p <= 18 => secondLock = "none"
  /\ p \in 19..21 => secondLock \in {"waiting", "rejected"}
  /\ p = 22 => secondLock \in {"granted", "rejected"}
  /\ p >= 23 => secondLock = "granted"
  /\ p >= 28 => Database!Returned("A")
  /\ p >= 29 => Database!Returned("B")

AcidAt(p) ==
  LET none == Database!NoTx IN
  /\ secondLock = "none"
  /\ p \in {1, 2, 3, 4, 5, 9, 10} => ServerIs(Money(0, 0), none, none, "none")
  /\ p = 6 => ServerIs(Money(0, 0), Began("rc"), none, "none")
  /\ p \in {7, 8} => ServerIs(Money(0, 0), Wrote(Money(1, 0)), none, "first")

(* What was returned so far.                                               *)
SeenSoFar ==
  /\ Database!IsolationAsReported
  /\ \A label \in {"A", "B"} : Database!Returned(label) => seen[label] = Money(10, 0)

LEMMA LocksScript ==
  /\ Len(Database!TransactionsAndLocks) = 30
  /\ Said(1, "first", "run", 0) /\ Said(2, "second", "run", 0)
  /\ Said(3, "first", "begin", "rc") /\ Said(4, "first", "read", "rcBefore")
  /\ Said(5, "second", "set", 11) /\ Said(6, "first", "read", "rcAfter")
  /\ Said(7, "first", "rollback", 0) /\ Said(8, "pool", "reset", 0)
  /\ Said(9, "first", "begin", "rr") /\ Said(10, "first", "read", "rrBefore")
  /\ Said(11, "second", "set", 11) /\ Said(12, "first", "read", "rrAfter")
  /\ Said(13, "first", "rollback", 0) /\ Said(14, "pool", "reset", 0)
  /\ Said(15, "first", "begin", "rc") /\ Said(16, "first", "lock", 0)
  /\ Said(17, "second", "begin", "rc") /\ Said(18, "second", "lockLater", 0)
  /\ Said(19, "second", "wait", 0) /\ Said(20, "first", "add", -1)
  /\ Said(21, "first", "commit", 0) /\ Said(22, "second", "awaitLock", 0)
  /\ Said(23, "second", "add", -2) /\ Said(24, "second", "commit", 0)
  /\ Said(25, "pool", "read", "pessimistic") /\ Said(26, "pool", "reset", 0)
  /\ Said(27, "first", "read", "A") /\ Said(28, "second", "read", "B")
  /\ Said(29, "first", "compareAndSet", "A") /\ Said(30, "second", "compareAndSet", "B")
  BY DEF Said, Database!TransactionsAndLocks, Database!S

LEMMA AcidScript ==
  /\ Len(Database!ConstraintsAndAcid) = 9
  /\ \A i \in 1..3 : Database!ConstraintsAndAcid[i] = Database!S("first", "run", 0)
  /\ Database!ConstraintsAndAcid[4] = Database!S("first", "caught", 0)
  /\ Database!ConstraintsAndAcid[5] = Database!S("first", "begin", "rc")
  /\ Database!ConstraintsAndAcid[6] = Database!S("first", "add", 1)
  /\ Database!ConstraintsAndAcid[7] = Database!S("first", "read", "inside")
  /\ Database!ConstraintsAndAcid[8] = Database!S("first", "rollback", 0)
  /\ Database!ConstraintsAndAcid[9] = Database!S("first", "read", "after")
  BY DEF Database!ConstraintsAndAcid, Database!Plain, Database!S

OthersKept(label) ==
  /\ DOMAIN seen' = DOMAIN seen \cup {label}
  /\ \A l \in DOMAIN seen \ {label} : seen'[l] = seen[l]

LEMMA Returning ==
  ASSUME NEW label, NEW value, Database!Return(label, value)
  PROVE  seen'[label] = value /\ OthersKept(label)
  BY DEF Database!Return, OthersKept

LEMMA SeenKept ==
  ASSUME SeenSoFar, UNCHANGED seen
  PROVE  SeenSoFar' /\ \A l : Database!Returned(l)' <=> Database!Returned(l)
  BY DEF SeenSoFar, Database!IsolationAsReported, Database!Balance, Database!Returned

(* Each statement of transactionsAndLocks takes its state to the next.     *)
LEMMA LocksStatement ==
  ASSUME NEW p \in 1..30, LocksAt(p), PromiseAt(p), SeenSoFar,
         DOMAIN tx = Database!Sessions,
         NEW q, q = Database!TransactionsAndLocks[p], Database!Effect(q)
  PROVE  LocksAt(p + 1)' /\ PromiseAt(p + 1)' /\ SeenSoFar'
<1> USE DEF Database!Sessions
<1>1. CASE p = 1
  <2>1. q.do = "run" /\ q.by = "first"
    BY <1>1, LocksScript DEF Said, Database!S
  <2> QED BY <1>1, <2>1, SeenKept DEF Database!Effect, Database!server, LocksAt,
             PromiseAt, ServerIs
<1>2. CASE p = 2
  <2>1. q.do = "run" /\ q.by = "second"
    BY <1>2, LocksScript DEF Said, Database!S
  <2> QED BY <1>2, <2>1, SeenKept DEF Database!Effect, Database!server, LocksAt,
             PromiseAt, ServerIs
<1>3. CASE p = 3
  <2>1. q.do = "begin" /\ q.by = "first" /\ q.arg = "rc"
    BY <1>3, LocksScript DEF Said, Database!S
  <2>2. ServerIs(Money(10, 0), Database!NoTx, Database!NoTx, "none")
    BY <1>3 DEF LocksAt
  <2>4. /\ ServerIs(Money(10, 0), Began("rc"), Database!NoTx, "none")'
        /\ UNCHANGED <<secondLock, seen>>
    BY <2>1, <2>2 DEF Database!Effect, ServerIs, Money, Began, Wrote, Snapped,
       Database!NoTx, Database!Nothing
  <2> QED BY <1>3, <2>4, SeenKept DEF LocksAt, PromiseAt
<1>4. CASE p = 4
  <2>1. q.do = "read" /\ q.by = "first" /\ q.arg = "rcBefore"
    BY <1>4, LocksScript DEF Said, Database!S
  <2>2. ServerIs(Money(10, 0), Began("rc"), Database!NoTx, "none")
    BY <1>4 DEF LocksAt
  <2>3. Database!ReadStatement("first", "rcBefore")
    BY <2>1 DEF Database!Effect
  <2>4. ServerIs(Money(10, 0), Began("rc"), Database!NoTx, "none")' /\ UNCHANGED secondLock
    BY <2>2, <2>3 DEF Database!ReadStatement, Database!Observe, ServerIs, Money, Began,
       Wrote, Snapped, Database!NoTx, Database!Nothing
  <2>5. Database!Visible("first") = Money(10, 0)
    BY <2>2 DEF Database!Visible, ServerIs, Money, Began, Wrote, Snapped, Database!NoTx,
       Database!Nothing
  <2>6. Database!Return("rcBefore", Money(10, 0))
    BY <2>3, <2>5 DEF Database!ReadStatement
  <2>7. seen'["rcBefore"] = Money(10, 0) /\ OthersKept("rcBefore")
    BY <2>6, Returning
  <2>8. SeenSoFar' /\ PromiseAt(p + 1)'
    BY <1>4, <2>4, <2>7 DEF PromiseAt, SeenSoFar, Database!IsolationAsReported,
       Database!Balance,
       OthersKept, Money, Database!Returned
  <2> QED BY <1>4, <2>4, <2>8 DEF LocksAt
<1>5. CASE p = 5
  <2>1. q.do = "set" /\ q.by = "second" /\ q.arg = 11
    BY <1>5, LocksScript DEF Said, Database!S
  <2>2. ServerIs(Money(10, 0), Began("rc"), Database!NoTx, "none")
    BY <1>5 DEF LocksAt
  <2>4. /\ ServerIs(Money(11, 0), Began("rc"), Database!NoTx, "none")'
        /\ UNCHANGED <<secondLock, seen>>
    BY <2>1, <2>2 DEF Database!Effect, Database!Write, Database!Visible, ServerIs, Money,
       Began, Wrote, Snapped, Database!NoTx, Database!Nothing
  <2> QED BY <1>5, <2>4, SeenKept DEF LocksAt, PromiseAt
<1>6. CASE p = 6
  <2>1. q.do = "read" /\ q.by = "first" /\ q.arg = "rcAfter"
    BY <1>6, LocksScript DEF Said, Database!S
  <2>2. ServerIs(Money(11, 0), Began("rc"), Database!NoTx, "none")
    BY <1>6 DEF LocksAt
  <2>3. Database!ReadStatement("first", "rcAfter")
    BY <2>1 DEF Database!Effect
  <2>4. ServerIs(Money(11, 0), Began("rc"), Database!NoTx, "none")' /\ UNCHANGED secondLock
    BY <2>2, <2>3 DEF Database!ReadStatement, Database!Observe, ServerIs, Money, Began,
       Wrote, Snapped, Database!NoTx, Database!Nothing
  <2>5. Database!Visible("first") = Money(11, 0)
    BY <2>2 DEF Database!Visible, ServerIs, Money, Began, Wrote, Snapped, Database!NoTx,
       Database!Nothing
  <2>6. Database!Return("rcAfter", Money(11, 0))
    BY <2>3, <2>5 DEF Database!ReadStatement
  <2>7. seen'["rcAfter"] = Money(11, 0) /\ OthersKept("rcAfter")
    BY <2>6, Returning
  <2>8. SeenSoFar' /\ PromiseAt(p + 1)'
    BY <1>6, <2>4, <2>7 DEF PromiseAt, SeenSoFar, Database!IsolationAsReported,
       Database!Balance,
       OthersKept, Money, Database!Returned
  <2> QED BY <1>6, <2>4, <2>8 DEF LocksAt
<1>7. CASE p = 7
  <2>1. q.do = "rollback" /\ q.by = "first"
    BY <1>7, LocksScript DEF Said, Database!S
  <2>2. ServerIs(Money(11, 0), Began("rc"), Database!NoTx, "none")
    BY <1>7 DEF LocksAt
  <2>3. secondLock # "waiting"
    BY <1>7 DEF PromiseAt
  <2>4. /\ ServerIs(Money(11, 0), Database!NoTx, Database!NoTx, "none")'
        /\ UNCHANGED <<secondLock, seen>>
    BY <2>1, <2>2, <2>3 DEF Database!Effect, Database!Rollback, Database!EndTx, ServerIs,
       Money, Began, Wrote, Snapped, Database!NoTx, Database!Nothing
  <2> QED BY <1>7, <2>4, SeenKept DEF LocksAt, PromiseAt
<1>8. CASE p = 8
  <2>1. q.do = "reset" /\ q.by = "pool"
    BY <1>8, LocksScript DEF Said, Database!S
  <2>2. ServerIs(Money(11, 0), Database!NoTx, Database!NoTx, "none")
    BY <1>8 DEF LocksAt
  <2>4. /\ ServerIs(Money(10, 0), Database!NoTx, Database!NoTx, "none")'
        /\ UNCHANGED <<secondLock, seen>>
    BY <2>1, <2>2 DEF Database!Effect, Database!Write, ServerIs, Money, Began, Wrote,
       Snapped, Database!NoTx, Database!Nothing
  <2> QED BY <1>8, <2>4, SeenKept DEF LocksAt, PromiseAt
<1>9. CASE p = 9
  <2>1. q.do = "begin" /\ q.by = "first" /\ q.arg = "rr"
    BY <1>9, LocksScript DEF Said, Database!S
  <2>2. ServerIs(Money(10, 0), Database!NoTx, Database!NoTx, "none")
    BY <1>9 DEF LocksAt
  <2>4. /\ ServerIs(Money(10, 0), Began("rr"), Database!NoTx, "none")'
        /\ UNCHANGED <<secondLock, seen>>
    BY <2>1, <2>2 DEF Database!Effect, ServerIs, Money, Began, Wrote, Snapped,
       Database!NoTx, Database!Nothing
  <2> QED BY <1>9, <2>4, SeenKept DEF LocksAt, PromiseAt
<1>10. CASE p = 10
  <2>1. q.do = "read" /\ q.by = "first" /\ q.arg = "rrBefore"
    BY <1>10, LocksScript DEF Said, Database!S
  <2>2. ServerIs(Money(10, 0), Began("rr"), Database!NoTx, "none")
    BY <1>10 DEF LocksAt
  <2>3. Database!ReadStatement("first", "rrBefore")
    BY <2>1 DEF Database!Effect
  <2>4. /\ ServerIs(Money(10, 0), Snapped(Money(10, 0)), Database!NoTx, "none")'
        /\ UNCHANGED secondLock
    BY <2>2, <2>3 DEF Database!ReadStatement, Database!Observe, ServerIs, Money, Began,
       Wrote, Snapped, Database!NoTx, Database!Nothing
  <2>5. Database!Visible("first") = Money(10, 0)
    BY <2>2 DEF Database!Visible, ServerIs, Money, Began, Wrote, Snapped, Database!NoTx,
       Database!Nothing
  <2>6. Database!Return("rrBefore", Money(10, 0))
    BY <2>3, <2>5 DEF Database!ReadStatement
  <2>7. seen'["rrBefore"] = Money(10, 0) /\ OthersKept("rrBefore")
    BY <2>6, Returning
  <2>8. SeenSoFar' /\ PromiseAt(p + 1)'
    BY <1>10, <2>4, <2>7 DEF PromiseAt, SeenSoFar, Database!IsolationAsReported,
       Database!Balance,
       OthersKept, Money, Database!Returned
  <2> QED BY <1>10, <2>4, <2>8 DEF LocksAt
<1>11. CASE p = 11
  <2>1. q.do = "set" /\ q.by = "second" /\ q.arg = 11
    BY <1>11, LocksScript DEF Said, Database!S
  <2>2. ServerIs(Money(10, 0), Snapped(Money(10, 0)), Database!NoTx, "none")
    BY <1>11 DEF LocksAt
  <2>4. /\ ServerIs(Money(11, 0), Snapped(Money(10, 0)), Database!NoTx, "none")'
        /\ UNCHANGED <<secondLock, seen>>
    BY <2>1, <2>2 DEF Database!Effect, Database!Write, Database!Visible, ServerIs, Money,
       Began, Wrote, Snapped, Database!NoTx, Database!Nothing
  <2> QED BY <1>11, <2>4, SeenKept DEF LocksAt, PromiseAt
<1>12. CASE p = 12
  <2>1. q.do = "read" /\ q.by = "first" /\ q.arg = "rrAfter"
    BY <1>12, LocksScript DEF Said, Database!S
  <2>2. ServerIs(Money(11, 0), Snapped(Money(10, 0)), Database!NoTx, "none")
    BY <1>12 DEF LocksAt
  <2>3. Database!ReadStatement("first", "rrAfter")
    BY <2>1 DEF Database!Effect
  <2>4. /\ ServerIs(Money(11, 0), Snapped(Money(10, 0)), Database!NoTx, "none")'
        /\ UNCHANGED secondLock
    BY <2>2, <2>3 DEF Database!ReadStatement, Database!Observe, ServerIs, Money, Began,
       Wrote, Snapped, Database!NoTx, Database!Nothing
  <2>5. Database!Visible("first") = Money(10, 0)
    BY <2>2 DEF Database!Visible, ServerIs, Money, Began, Wrote, Snapped, Database!NoTx,
       Database!Nothing
  <2>6. Database!Return("rrAfter", Money(10, 0))
    BY <2>3, <2>5 DEF Database!ReadStatement
  <2>7. seen'["rrAfter"] = Money(10, 0) /\ OthersKept("rrAfter")
    BY <2>6, Returning
  <2>8. SeenSoFar' /\ PromiseAt(p + 1)'
    BY <1>12, <2>4, <2>7 DEF PromiseAt, SeenSoFar, Database!IsolationAsReported,
       Database!Balance,
       OthersKept, Money, Database!Returned
  <2> QED BY <1>12, <2>4, <2>8 DEF LocksAt
<1>13. CASE p = 13
  <2>1. q.do = "rollback" /\ q.by = "first"
    BY <1>13, LocksScript DEF Said, Database!S
  <2>2. ServerIs(Money(11, 0), Snapped(Money(10, 0)), Database!NoTx, "none")
    BY <1>13 DEF LocksAt
  <2>3. secondLock # "waiting"
    BY <1>13 DEF PromiseAt
  <2>4. /\ ServerIs(Money(11, 0), Database!NoTx, Database!NoTx, "none")'
        /\ UNCHANGED <<secondLock, seen>>
    BY <2>1, <2>2, <2>3 DEF Database!Effect, Database!Rollback, Database!EndTx, ServerIs,
       Money, Began, Wrote, Snapped, Database!NoTx, Database!Nothing
  <2> QED BY <1>13, <2>4, SeenKept DEF LocksAt, PromiseAt
<1>14. CASE p = 14
  <2>1. q.do = "reset" /\ q.by = "pool"
    BY <1>14, LocksScript DEF Said, Database!S
  <2>2. ServerIs(Money(11, 0), Database!NoTx, Database!NoTx, "none")
    BY <1>14 DEF LocksAt
  <2>4. /\ ServerIs(Money(10, 0), Database!NoTx, Database!NoTx, "none")'
        /\ UNCHANGED <<secondLock, seen>>
    BY <2>1, <2>2 DEF Database!Effect, Database!Write, ServerIs, Money, Began, Wrote,
       Snapped, Database!NoTx, Database!Nothing
  <2> QED BY <1>14, <2>4, SeenKept DEF LocksAt, PromiseAt
<1>15. CASE p = 15
  <2>1. q.do = "begin" /\ q.by = "first" /\ q.arg = "rc"
    BY <1>15, LocksScript DEF Said, Database!S
  <2>2. ServerIs(Money(10, 0), Database!NoTx, Database!NoTx, "none")
    BY <1>15 DEF LocksAt
  <2>4. /\ ServerIs(Money(10, 0), Began("rc"), Database!NoTx, "none")'
        /\ UNCHANGED <<secondLock, seen>>
    BY <2>1, <2>2 DEF Database!Effect, ServerIs, Money, Began, Wrote, Snapped,
       Database!NoTx, Database!Nothing
  <2> QED BY <1>15, <2>4, SeenKept DEF LocksAt, PromiseAt
<1>16. CASE p = 16
  <2>1. q.do = "lock" /\ q.by = "first"
    BY <1>16, LocksScript DEF Said, Database!S
  <2>2. ServerIs(Money(10, 0), Began("rc"), Database!NoTx, "none")
    BY <1>16 DEF LocksAt
  <2>4. /\ ServerIs(Money(10, 0), Began("rc"), Database!NoTx, "first")'
        /\ UNCHANGED <<secondLock, seen>>
    BY <2>1, <2>2 DEF Database!Effect, Database!Lock, ServerIs, Money, Began, Wrote,
       Snapped, Database!NoTx, Database!Nothing
  <2> QED BY <1>16, <2>4, SeenKept DEF LocksAt, PromiseAt
<1>17. CASE p = 17
  <2>1. q.do = "begin" /\ q.by = "second" /\ q.arg = "rc"
    BY <1>17, LocksScript DEF Said, Database!S
  <2>2. ServerIs(Money(10, 0), Began("rc"), Database!NoTx, "first")
    BY <1>17 DEF LocksAt
  <2>4. /\ ServerIs(Money(10, 0), Began("rc"), Began("rc"), "first")'
        /\ UNCHANGED <<secondLock, seen>>
    BY <2>1, <2>2 DEF Database!Effect, ServerIs, Money, Began, Wrote, Snapped,
       Database!NoTx, Database!Nothing
  <2> QED BY <1>17, <2>4, SeenKept DEF LocksAt, PromiseAt
<1>18. CASE p = 18
  <2>1. q.do = "lockLater" /\ q.by = "second"
    BY <1>18, LocksScript DEF Said, Database!S
  <2>2. ServerIs(Money(10, 0), Began("rc"), Began("rc"), "first")
    BY <1>18 DEF LocksAt
  <2>3. /\ ServerIs(Money(10, 0), Began("rc"), Began("rc"), "first")'
        /\ secondLock' = "waiting"
        /\ UNCHANGED seen
    BY <2>1, <2>2 DEF Database!Effect, Database!LockLater, ServerIs
  <2> QED BY <1>18, <2>3, SeenKept DEF LocksAt, PromiseAt
<1>19. CASE p = 19
  <2>1. q.do = "wait" /\ q.by = "second"
    BY <1>19, LocksScript DEF Said, Database!S
  <2>2. Database!Return("waits", secondLock # "granted") /\ UNCHANGED <<row, tx, lockedBy, secondLock>>
    BY <2>1 DEF Database!Effect
  <2>3. SeenSoFar'
    <3>1. secondLock # "granted"
      BY <1>19 DEF PromiseAt
    <3>2. seen'["waits"] /\ OthersKept("waits")
      BY <2>2, <3>1 DEF Database!Return, OthersKept
    <3> QED BY <3>2 DEF SeenSoFar, Database!IsolationAsReported, Database!Balance,
       OthersKept, Database!Returned
  <2> QED BY <1>19, <2>2, <2>3 DEF LocksAt, PromiseAt, ServerIs
<1>20. CASE p = 20
  <2>1. q.do = "add" /\ q.by = "first" /\ q.arg = -1
    BY <1>20, LocksScript DEF Said, Database!S
  <2>2. ServerIs(Money(10, 0), Began("rc"), Began("rc"), "first")
    BY <1>20 DEF LocksAt
  <2>4. /\ ServerIs(Money(10, 0), Wrote(Money(9, 0)), Began("rc"), "first")'
        /\ UNCHANGED <<secondLock, seen>>
    BY <2>1, <2>2 DEF Database!Effect, Database!Write, Database!Visible, ServerIs, Money,
       Began, Wrote, Snapped, Database!NoTx, Database!Nothing
  <2> QED BY <1>20, <2>4, SeenKept DEF LocksAt, PromiseAt
<1>21. CASE p = 21
  <2>1. q.do = "commit" /\ q.by = "first"
    BY <1>21, LocksScript DEF Said, Database!S
  <2>2. /\ ServerIs(Money(10, 0), Wrote(Money(9, 0)), Began("rc"), "first")
        /\ secondLock \in {"waiting", "rejected"}
    BY <1>21 DEF LocksAt, PromiseAt
  <2>3. Database!Commit("first") /\ UNCHANGED seen
    BY <2>1 DEF Database!Effect
  <2>4. /\ secondLock' \in {"granted", "rejected"}
        /\ ServerIs(Money(9, 0), Database!NoTx, Began("rc"), IF secondLock = "granted" THEN "second" ELSE "none")'
    BY <2>2, <2>3 DEF Database!Commit, Database!EndTx, ServerIs, Money, Began, Wrote,
       Snapped, Database!NoTx, Database!Nothing
  <2> QED BY <1>21, <2>3, <2>4, SeenKept DEF LocksAt, PromiseAt
<1>22. CASE p = 22
  <2>1. q.do = "awaitLock" /\ q.by = "second"
    BY <1>22, LocksScript DEF Said, Database!S
  <2>2. secondLock = "granted" /\ UNCHANGED Database!server
    BY <2>1 DEF Database!Effect
  <2> QED BY <1>22, <2>2, SeenKept DEF Database!server, LocksAt, PromiseAt, ServerIs
<1>23. CASE p = 23
  <2>1. q.do = "add" /\ q.by = "second" /\ q.arg = -2
    BY <1>23, LocksScript DEF Said, Database!S
  <2>2. ServerIs(Money(9, 0), Database!NoTx, Began("rc"), "second")
    BY <1>23 DEF LocksAt
  <2>4. /\ ServerIs(Money(9, 0), Database!NoTx, Wrote(Money(7, 0)), "second")'
        /\ UNCHANGED <<secondLock, seen>>
    BY <2>1, <2>2 DEF Database!Effect, Database!Write, Database!Visible, ServerIs, Money,
       Began, Wrote, Snapped, Database!NoTx, Database!Nothing
  <2> QED BY <1>23, <2>4, SeenKept DEF LocksAt, PromiseAt
<1>24. CASE p = 24
  <2>1. q.do = "commit" /\ q.by = "second"
    BY <1>24, LocksScript DEF Said, Database!S
  <2>2. ServerIs(Money(9, 0), Database!NoTx, Wrote(Money(7, 0)), "second")
    BY <1>24 DEF LocksAt
  <2>3. secondLock # "waiting"
    BY <1>24 DEF PromiseAt
  <2>4. /\ ServerIs(Money(7, 0), Database!NoTx, Database!NoTx, "none")'
        /\ UNCHANGED <<secondLock, seen>>
    BY <2>1, <2>2, <2>3 DEF Database!Effect, Database!Commit, Database!EndTx, ServerIs,
       Money, Began, Wrote, Snapped, Database!NoTx, Database!Nothing
  <2> QED BY <1>24, <2>4, SeenKept DEF LocksAt, PromiseAt
<1>25. CASE p = 25
  <2>1. q.do = "read" /\ q.by = "pool" /\ q.arg = "pessimistic"
    BY <1>25, LocksScript DEF Said, Database!S
  <2>2. ServerIs(Money(7, 0), Database!NoTx, Database!NoTx, "none")
    BY <1>25 DEF LocksAt
  <2>3. Database!ReadStatement("pool", "pessimistic")
    BY <2>1 DEF Database!Effect
  <2>4. ServerIs(Money(7, 0), Database!NoTx, Database!NoTx, "none")' /\ UNCHANGED secondLock
    BY <2>2, <2>3 DEF Database!ReadStatement, Database!Observe, ServerIs, Money, Began,
       Wrote, Snapped, Database!NoTx, Database!Nothing
  <2>5. Database!Visible("pool") = Money(7, 0)
    BY <2>2 DEF Database!Visible, ServerIs, Money, Began, Wrote, Snapped, Database!NoTx,
       Database!Nothing
  <2>6. Database!Return("pessimistic", Money(7, 0))
    BY <2>3, <2>5 DEF Database!ReadStatement
  <2>7. seen'["pessimistic"] = Money(7, 0) /\ OthersKept("pessimistic")
    BY <2>6, Returning
  <2>8. SeenSoFar' /\ PromiseAt(p + 1)'
    BY <1>25, <2>4, <2>7 DEF PromiseAt, SeenSoFar, Database!IsolationAsReported,
       Database!Balance,
       OthersKept, Money, Database!Returned
  <2> QED BY <1>25, <2>4, <2>8 DEF LocksAt
<1>26. CASE p = 26
  <2>1. q.do = "reset" /\ q.by = "pool"
    BY <1>26, LocksScript DEF Said, Database!S
  <2>2. ServerIs(Money(7, 0), Database!NoTx, Database!NoTx, "none")
    BY <1>26 DEF LocksAt
  <2>4. /\ ServerIs(Money(10, 0), Database!NoTx, Database!NoTx, "none")'
        /\ UNCHANGED <<secondLock, seen>>
    BY <2>1, <2>2 DEF Database!Effect, Database!Write, ServerIs, Money, Began, Wrote,
       Snapped, Database!NoTx, Database!Nothing
  <2> QED BY <1>26, <2>4, SeenKept DEF LocksAt, PromiseAt
<1>27. CASE p = 27
  <2>1. q.do = "read" /\ q.by = "first" /\ q.arg = "A"
    BY <1>27, LocksScript DEF Said, Database!S
  <2>2. ServerIs(Money(10, 0), Database!NoTx, Database!NoTx, "none")
    BY <1>27 DEF LocksAt
  <2>3. Database!ReadStatement("first", "A")
    BY <2>1 DEF Database!Effect
  <2>4. ServerIs(Money(10, 0), Database!NoTx, Database!NoTx, "none")' /\ UNCHANGED secondLock
    BY <2>2, <2>3 DEF Database!ReadStatement, Database!Observe, ServerIs, Money, Began,
       Wrote, Snapped, Database!NoTx, Database!Nothing
  <2>5. Database!Visible("first") = Money(10, 0)
    BY <2>2 DEF Database!Visible, ServerIs, Money, Began, Wrote, Snapped, Database!NoTx,
       Database!Nothing
  <2>6. Database!Return("A", Money(10, 0))
    BY <2>3, <2>5 DEF Database!ReadStatement
  <2>7. seen'["A"] = Money(10, 0) /\ OthersKept("A")
    BY <2>6, Returning
  <2>8. SeenSoFar' /\ PromiseAt(p + 1)'
    BY <1>27, <2>4, <2>7 DEF PromiseAt, SeenSoFar, Database!IsolationAsReported,
       Database!Balance,
       OthersKept, Money, Database!Returned
  <2> QED BY <1>27, <2>4, <2>8 DEF LocksAt
<1>28. CASE p = 28
  <2>1. q.do = "read" /\ q.by = "second" /\ q.arg = "B"
    BY <1>28, LocksScript DEF Said, Database!S
  <2>2. ServerIs(Money(10, 0), Database!NoTx, Database!NoTx, "none")
    BY <1>28 DEF LocksAt
  <2>3. Database!ReadStatement("second", "B")
    BY <2>1 DEF Database!Effect
  <2>4. ServerIs(Money(10, 0), Database!NoTx, Database!NoTx, "none")' /\ UNCHANGED secondLock
    BY <2>2, <2>3 DEF Database!ReadStatement, Database!Observe, ServerIs, Money, Began,
       Wrote, Snapped, Database!NoTx, Database!Nothing
  <2>5. Database!Visible("second") = Money(10, 0)
    BY <2>2 DEF Database!Visible, ServerIs, Money, Began, Wrote, Snapped, Database!NoTx,
       Database!Nothing
  <2>6. Database!Return("B", Money(10, 0))
    BY <2>3, <2>5 DEF Database!ReadStatement
  <2>7. seen'["B"] = Money(10, 0) /\ OthersKept("B")
    BY <2>6, Returning
  <2>8. SeenSoFar' /\ PromiseAt(p + 1)'
    BY <1>28, <2>4, <2>7 DEF PromiseAt, SeenSoFar, Database!IsolationAsReported,
       Database!Balance,
       OthersKept, Money, Database!Returned
  <2> QED BY <1>28, <2>4, <2>8 DEF LocksAt
<1>29. CASE p = 29
  <2>1. q.do = "compareAndSet" /\ q.by = "first" /\ q.arg = "A"
    BY <1>29, LocksScript DEF Said, Database!S
  <2>2. ServerIs(Money(10, 0), Database!NoTx, Database!NoTx, "none") /\ seen["A"] = Money(10, 0)
    BY <1>29 DEF LocksAt, PromiseAt, SeenSoFar
  <2>3. Database!CompareAndSet("first", "A")
    BY <2>1 DEF Database!Effect
  <2>4. ServerIs(Money(9, 1), Database!NoTx, Database!NoTx, "none")' /\ UNCHANGED secondLock
    BY <2>2, <2>3 DEF Database!CompareAndSet, ServerIs, Money
  <2>5. seen'["updateA"] /\ OthersKept("updateA")
    <3>1. row.version = seen["A"].version
      BY <2>2 DEF ServerIs, Money
    <3>2. Database!Return("updateA", row.version = seen["A"].version)
      BY <2>3 DEF Database!CompareAndSet, Database!UpdateOf
    <3> QED BY <3>1, <3>2 DEF Database!Return, OthersKept
  <2>6. SeenSoFar' /\ PromiseAt(p + 1)'
    BY <1>29, <2>4, <2>5 DEF PromiseAt, SeenSoFar, Database!IsolationAsReported,
       Database!Balance,
       OthersKept, Database!Returned
  <2> QED BY <1>29, <2>4, <2>6 DEF LocksAt
<1>30. CASE p = 30
  <2>1. q.do = "compareAndSet" /\ q.by = "second" /\ q.arg = "B"
    BY <1>30, LocksScript DEF Said, Database!S
  <2>2. ServerIs(Money(9, 1), Database!NoTx, Database!NoTx, "none") /\ seen["B"] = Money(10, 0)
    BY <1>30 DEF LocksAt, PromiseAt, SeenSoFar
  <2>3. Database!CompareAndSet("second", "B")
    BY <2>1 DEF Database!Effect
  <2>4. ServerIs(Money(9, 1), Database!NoTx, Database!NoTx, "none")' /\ UNCHANGED secondLock
    BY <2>2, <2>3 DEF Database!CompareAndSet, ServerIs, Money
  <2>5. ~seen'["updateB"] /\ OthersKept("updateB")
    <3>1. row.version # seen["B"].version
      BY <2>2 DEF ServerIs, Money
    <3>2. Database!Return("updateB", row.version = seen["B"].version)
      BY <2>3 DEF Database!CompareAndSet, Database!UpdateOf
    <3> QED BY <3>1, <3>2 DEF Database!Return, OthersKept
  <2>6. SeenSoFar' /\ PromiseAt(p + 1)'
    BY <1>30, <2>4, <2>5 DEF PromiseAt, SeenSoFar, Database!IsolationAsReported,
       Database!Balance,
       OthersKept, Database!Returned
  <2> QED BY <1>30, <2>4, <2>6 DEF LocksAt
<1> QED BY <1>1, <1>2, <1>3, <1>4, <1>5, <1>6, <1>7, <1>8, <1>9, <1>10, <1>11, <1>12,
           <1>13, <1>14, <1>15, <1>16, <1>17, <1>18, <1>19, <1>20, <1>21, <1>22, <1>23,
           <1>24, <1>25, <1>26, <1>27, <1>28, <1>29, <1>30

(* Each statement of constraintsAndAcid does, too.                         *)
LEMMA AcidStatement ==
  ASSUME NEW p \in 1..9, AcidAt(p), SeenSoFar, DOMAIN tx = Database!Sessions,
         NEW q, q = Database!ConstraintsAndAcid[p], Database!Effect(q)
  PROVE  AcidAt(p + 1)' /\ SeenSoFar'
<1> USE DEF Database!Sessions
<1>1. CASE p \in 1..4
  <2>1. q.do \in {"run", "caught"}
    BY <1>1, AcidScript DEF Database!S
  <2> QED BY <1>1, <2>1, SeenKept DEF Database!Effect, Database!server, AcidAt, ServerIs
<1>2. CASE p = 5
  <2>1. q.do = "begin" /\ q.by = "first" /\ q.arg = "rc"
    BY <1>2, AcidScript DEF Database!S
  <2>2. ServerIs(Money(0, 0), Database!NoTx, Database!NoTx, "none") /\ secondLock = "none"
    BY <1>2 DEF AcidAt
  <2>3. /\ ServerIs(Money(0, 0), Began("rc"), Database!NoTx, "none")'
        /\ UNCHANGED <<secondLock, seen>>
    BY <2>1, <2>2 DEF Database!Effect, ServerIs, Money, Began, Wrote, Snapped,
       Database!NoTx, Database!Nothing
  <2> QED BY <1>2, <2>2, <2>3, SeenKept DEF AcidAt
<1>3. CASE p = 6
  <2>1. q.do = "add" /\ q.by = "first" /\ q.arg = 1
    BY <1>3, AcidScript DEF Database!S
  <2>2. ServerIs(Money(0, 0), Began("rc"), Database!NoTx, "none") /\ secondLock = "none"
    BY <1>3 DEF AcidAt
  <2>3. /\ ServerIs(Money(0, 0), Wrote(Money(1, 0)), Database!NoTx, "first")'
        /\ UNCHANGED <<secondLock, seen>>
    BY <2>1, <2>2 DEF Database!Effect, Database!Write, Database!Visible, ServerIs, Money,
       Began, Wrote, Snapped, Database!NoTx, Database!Nothing
  <2> QED BY <1>3, <2>2, <2>3, SeenKept DEF AcidAt
<1>5. CASE p = 8
  <2>1. q.do = "rollback" /\ q.by = "first"
    BY <1>5, AcidScript DEF Database!S
  <2>2. ServerIs(Money(0, 0), Wrote(Money(1, 0)), Database!NoTx, "first") /\ secondLock = "none"
    BY <1>5 DEF AcidAt
  <2>3. /\ ServerIs(Money(0, 0), Database!NoTx, Database!NoTx, "none")'
        /\ UNCHANGED <<secondLock, seen>>
    BY <2>1, <2>2 DEF Database!Effect, Database!Rollback, Database!EndTx, ServerIs, Money,
       Began, Wrote, Snapped, Database!NoTx, Database!Nothing
  <2> QED BY <1>5, <2>2, <2>3, SeenKept DEF AcidAt
<1>4. CASE p = 7
  <2>1. q.do = "read" /\ q.by = "first" /\ q.arg = "inside"
    BY <1>4, AcidScript DEF Database!S
  <2>2. ServerIs(Money(0, 0), Wrote(Money(1, 0)), Database!NoTx, "first") /\ secondLock = "none"
    BY <1>4 DEF AcidAt
  <2>3. Database!ReadStatement("first", "inside")
    BY <2>1 DEF Database!Effect
  <2>4. /\ ServerIs(Money(0, 0), Wrote(Money(1, 0)), Database!NoTx, "first")'
        /\ UNCHANGED secondLock
    BY <2>2, <2>3 DEF Database!ReadStatement, Database!Observe, ServerIs, Money, Began,
       Wrote, Snapped, Database!NoTx, Database!Nothing
  <2>5. Database!Visible("first") = Money(1, 0)
    BY <2>2 DEF Database!Visible, ServerIs, Money, Began, Wrote, Snapped, Database!NoTx,
       Database!Nothing
  <2>6. Database!Return("inside", Money(1, 0))
    BY <2>3, <2>5 DEF Database!ReadStatement
  <2>7. seen'["inside"] = Money(1, 0) /\ OthersKept("inside")
    BY <2>6, Returning
  <2>8. SeenSoFar'
    BY <2>7 DEF SeenSoFar, Database!IsolationAsReported, Database!Balance, OthersKept,
       Money, Database!Returned
  <2> QED BY <1>4, <2>2, <2>4, <2>8 DEF AcidAt
<1>6. CASE p = 9
  <2>1. q.do = "read" /\ q.by = "first" /\ q.arg = "after"
    BY <1>6, AcidScript DEF Database!S
  <2>2. ServerIs(Money(0, 0), Database!NoTx, Database!NoTx, "none") /\ secondLock = "none"
    BY <1>6 DEF AcidAt
  <2>3. Database!ReadStatement("first", "after")
    BY <2>1 DEF Database!Effect
  <2>4. ServerIs(Money(0, 0), Database!NoTx, Database!NoTx, "none")' /\ UNCHANGED secondLock
    BY <2>2, <2>3 DEF Database!ReadStatement, Database!Observe, ServerIs, Money, Began,
       Wrote, Snapped, Database!NoTx, Database!Nothing
  <2>5. Database!Visible("first") = Money(0, 0)
    BY <2>2 DEF Database!Visible, ServerIs, Money, Began, Wrote, Snapped, Database!NoTx,
       Database!Nothing
  <2>6. Database!Return("after", Money(0, 0))
    BY <2>3, <2>5 DEF Database!ReadStatement
  <2>7. seen'["after"] = Money(0, 0) /\ OthersKept("after")
    BY <2>6, Returning
  <2>8. SeenSoFar'
    BY <2>7 DEF SeenSoFar, Database!IsolationAsReported, Database!Balance, OthersKept,
       Money, Database!Returned
  <2> QED BY <1>6, <2>2, <2>4, <2>8 DEF AcidAt
<1> QED BY <1>1, <1>2, <1>3, <1>4, <1>5, <1>6

(* The other scenarios leave no trace in the modelled row.                 *)
LEMMA PlainScript ==
  /\ Len(Database!SqlBasics) = 9 /\ Len(Database!IndexesAndExplain) = 6
  /\ Len(Database!JoinsAndMaterializedViews) = 12
  /\ \A i \in 1..9 : Database!SqlBasics[i].do = "run"
  /\ \A i \in 1..6 : Database!IndexesAndExplain[i].do = "run"
  /\ \A i \in 1..12 : Database!JoinsAndMaterializedViews[i].do = "run"
  BY DEF Database!SqlBasics, Database!IndexesAndExplain, Database!JoinsAndMaterializedViews,
         Database!Plain, Database!S

IdleAt == secondLock = "none" /\ ServerIs(Money(0, 0), Database!NoTx, Database!NoTx, "none")

Before(p) ==
  /\ scenarioName = "locks" => LocksAt(p) /\ PromiseAt(p)
  /\ scenarioName = "acid" => AcidAt(p)
  /\ scenarioName \in {"sql", "indexes", "joins"} => IdleAt

LEMMA ScenarioNames ==
  ASSUME scenarioName \in DbScenarios
  PROVE  /\ scenarioName \in {"sql", "acid", "indexes", "locks", "joins"}
         /\ scenarioName = "sql" => Database!Statements = Database!SqlBasics
         /\ scenarioName = "acid" => Database!Statements = Database!ConstraintsAndAcid
         /\ scenarioName = "indexes" => Database!Statements = Database!IndexesAndExplain
         /\ scenarioName = "locks" => Database!Statements = Database!TransactionsAndLocks
         /\ scenarioName = "joins" => Database!Statements = Database!JoinsAndMaterializedViews
  BY DemosAssumption DEF DemosAssumption, Database!Statements, Database!Scenarios

LEMMA StatementTaken ==
  ASSUME scenarioName \in DbScenarios, UNCHANGED scenarioName,
         NEW p \in 1..Len(Database!Statements), Before(p), SeenSoFar,
         DOMAIN tx = Database!Sessions, Database!Effect(Database!Statements[p])
  PROVE  Before(p + 1)' /\ SeenSoFar'
<1>1. CASE scenarioName = "locks"
  <2>1. p \in 1..30
    BY <1>1, ScenarioNames, LocksScript
  <2> QED BY <1>1, <2>1, ScenarioNames, LocksStatement DEF Before
<1>2. CASE scenarioName = "acid"
  <2>1. p \in 1..9
    BY <1>2, ScenarioNames, AcidScript
  <2> QED BY <1>2, <2>1, ScenarioNames, AcidStatement DEF Before
<1>3. CASE scenarioName \in {"sql", "indexes", "joins"}
  <2>1. Database!Statements[p].do = "run"
    BY <1>3, ScenarioNames, PlainScript
  <2>2. UNCHANGED Database!server
    BY <2>1 DEF Database!Effect
  <2> QED BY <1>3, <2>2, SeenKept DEF Before, IdleAt, ServerIs, Database!server
<1> QED BY <1>1, <1>2, <1>3, ScenarioNames

(* Every row and transaction of the scenarios is well formed.              *)
Transactions == [level : {"none", "rc", "rr"}, snapshot : Database!Row, own : Database!Row]

LEMMA RowsTyped ==
  /\ \A b \in Int, v \in Int : Money(b, v) \in Database!Row
  /\ Database!NoTx \in Transactions
  /\ \A level \in {"rc", "rr"} : Began(level) \in Transactions
  /\ \A r \in Database!Row : Wrote(r) \in Transactions /\ Snapped(r) \in Transactions
  BY DEF Money, Began, Wrote, Snapped, Database!NoTx, Database!Nothing, Database!Row,
     Transactions

LEMMA LocksServer ==
  ASSUME NEW p \in 1..31, LocksAt(p)
  PROVE  \E r \in Database!Row, first \in Transactions, second \in Transactions,
            holder \in {"first", "second", "none"} : ServerIs(r, first, second, holder)
<1>1. CASE p \in {1, 2, 3, 9, 15, 27, 28, 29}
  BY <1>1, RowsTyped DEF LocksAt
<1>2. CASE p \in {4, 5, 16}
  BY <1>2, RowsTyped DEF LocksAt
<1>3. CASE p \in {6, 7}
  BY <1>3, RowsTyped DEF LocksAt
<1>4. CASE p \in {8, 14}
  BY <1>4, RowsTyped DEF LocksAt
<1>5. CASE p \in {10, 11}
  BY <1>5, RowsTyped DEF LocksAt
<1>6. CASE p \in {12, 13}
  BY <1>6, RowsTyped DEF LocksAt
<1>7. CASE p \in {17, 18, 19, 20}
  BY <1>7, RowsTyped DEF LocksAt
<1>8. CASE p \in {21, 22}
  BY <1>8, RowsTyped DEF LocksAt
<1>9. CASE p \in {23, 24}
  BY <1>9, RowsTyped DEF LocksAt
<1>10. CASE p \in {25, 26}
  BY <1>10, RowsTyped DEF LocksAt
<1>11. CASE p \in {30, 31}
  BY <1>11, RowsTyped DEF LocksAt
<1> QED BY <1>1, <1>2, <1>3, <1>4, <1>5, <1>6, <1>7, <1>8, <1>9, <1>10, <1>11

LEMMA AcidServer ==
  ASSUME NEW p \in 1..10, AcidAt(p)
  PROVE  \E r \in Database!Row, first \in Transactions, holder \in {"first", "none"} :
            ServerIs(r, first, Database!NoTx, holder)
<1>1. CASE p \in {1, 2, 3, 4, 5, 9, 10}
  BY <1>1, RowsTyped DEF AcidAt
<1>2. CASE p = 6
  BY <1>2, RowsTyped DEF AcidAt
<1>3. CASE p \in {7, 8}
  BY <1>3, RowsTyped DEF AcidAt
<1> QED BY <1>1, <1>2, <1>3

LEMMA StatementNumbers ==
  ASSUME scenarioName \in DbScenarios, NEW p \in 1..(Len(Database!Statements) + 1)
  PROVE  /\ scenarioName = "locks" => p \in 1..31
         /\ scenarioName = "acid" => p \in 1..10
<1>1. ASSUME scenarioName = "locks" PROVE p \in 1..31
  <2>1. Len(Database!Statements) = 30
    BY <1>1, ScenarioNames, LocksScript
  <2>2. p \in 1..(30 + 1)
    BY <2>1
  <2> QED BY <2>2
<1>2. ASSUME scenarioName = "acid" PROVE p \in 1..10
  <2>1. Len(Database!Statements) = 9
    BY <1>2, ScenarioNames, AcidScript
  <2>2. p \in 1..(9 + 1)
    BY <2>1
  <2> QED BY <2>2
<1> QED BY <1>1, <1>2

LEMMA ServerTyped ==
  ASSUME scenarioName \in DbScenarios, NEW p \in 1..(Len(Database!Statements) + 1), Before(p)
  PROVE  /\ row \in Database!Row /\ lockedBy \in Database!Sessions \cup {"none"}
         /\ \A s \in Database!Sessions : tx[s] \in Transactions
         /\ secondLock \in {"none", "waiting", "granted", "rejected"}
<1>1. CASE scenarioName = "locks"
  <2>1. p \in 1..31 /\ LocksAt(p) /\ PromiseAt(p)
    BY <1>1, StatementNumbers DEF Before
  <2>2. secondLock \in {"none", "waiting", "granted", "rejected"}
    BY <2>1 DEF PromiseAt
  <2> QED BY <2>1, <2>2, LocksServer, RowsTyped DEF ServerIs, Database!Sessions
<1>2. CASE scenarioName = "acid"
  <2>1. p \in 1..10 /\ AcidAt(p)
    BY <1>2, StatementNumbers DEF Before
  <2> QED BY <2>1, AcidServer, RowsTyped DEF ServerIs, Database!Sessions, AcidAt
<1>3. CASE scenarioName \in {"sql", "indexes", "joins"}
  BY <1>3, RowsTyped DEF Before, IdleAt, ServerIs, Database!Sessions
<1> QED BY <1>1, <1>2, <1>3, ScenarioNames

(* Which transactions are open when a scenario stops.                      *)
Clients == IF scenarioName = "locks" THEN {"first", "second"} ELSE {"first"}

OpenAmong(clients) ==
  /\ \A s \in Database!Sessions : tx[s] # Database!NoTx => s \in clients
  /\ lockedBy \in clients \cup {"none"}
  /\ secondLock = "waiting" => "second" \in clients

LEMMA StoppedScenario ==
  ASSUME scenarioName \in DbScenarios, NEW p \in 1..(Len(Database!Statements) + 1), Before(p)
  PROVE  /\ OpenAmong(Clients)
         /\ scenarioName \in {"indexes", "joins"} \/ p = 1 => OpenAmong({})
<1>1. CASE scenarioName = "locks"
  <2>1. p \in 1..31 /\ LocksAt(p) /\ PromiseAt(p)
    BY <1>1, StatementNumbers DEF Before
  <2>2. p = 1 => ServerIs(Money(10, 0), Database!NoTx, Database!NoTx, "none") /\ secondLock = "none"
    BY <2>1 DEF LocksAt, PromiseAt
  <2> QED BY <1>1, <2>1, <2>2, LocksServer DEF ServerIs, OpenAmong, Clients, Database!Sessions
<1>2. CASE scenarioName = "acid"
  <2>1. p \in 1..10 /\ AcidAt(p)
    BY <1>2, StatementNumbers DEF Before
  <2>2. p = 1 => ServerIs(Money(0, 0), Database!NoTx, Database!NoTx, "none")
    BY <2>1 DEF AcidAt
  <2> QED BY <1>2, <2>1, <2>2, AcidServer DEF ServerIs, OpenAmong, Clients,
             Database!Sessions, AcidAt
<1>3. CASE scenarioName \in {"sql", "indexes", "joins"}
  BY <1>3 DEF Before, IdleAt, ServerIs, OpenAmong, Clients, Database!Sessions
<1> QED BY <1>1, <1>2, <1>3, ScenarioNames

Preparing == {"version", "schema", "table", "connect", "connectSecond"}

DatabaseInv ==
  /\ Database!DatabaseTypeOK
  /\ SeenSoFar
  /\ stage # "rollback" => rolledBack = {}
  /\ stage \in Preparing => position = 1 /\ Before(1)
  /\ stage \in Preparing \ {"connectSecond"} => checkedOut = {}
  /\ stage = "connectSecond" => scenarioName = "locks" /\ checkedOut = {"first"}
  /\ stage = "scenario" =>
       checkedOut = Clients /\ \E p \in 1..(Len(Database!Statements) + 1) : p = position /\ Before(p)
  /\ stage = "rollback" =>
       scenarioName \notin {"indexes", "joins"} /\ OpenAmong(checkedOut \ rolledBack)
  /\ stage \in {"drop", "end", "over"} => OpenAmong({})
  /\ stage = "over" => checkedOut = {}

LEMMA DatabaseBegins == Database!DatabaseInit => DatabaseInv
<1> SUFFICES ASSUME Database!DatabaseInit PROVE DatabaseInv
  OBVIOUS
<1> USE DEF Database!DatabaseInit
<1>1. scenarioName \in {"sql", "acid", "indexes", "locks", "joins"}
  BY ScenarioNames
<1>2. Before(1) /\ SeenSoFar
  BY <1>1 DEF Before, LocksAt, PromiseAt, AcidAt, IdleAt, ServerIs, Money, Database!Sessions,
     SeenSoFar, Database!IsolationAsReported, Database!Balance, Database!Returned
<1>3. Len(Database!Scenarios[scenarioName]) \in {6, 9, 12, 30}
  BY ScenarioNames, PlainScript, AcidScript, LocksScript, <1>1 DEF Database!Statements
<1>4. Database!DatabaseTypeOK
  <2>1. position \in 1..(Len(Database!Scenarios[scenarioName]) + 1)
    BY <1>3
  <2>2. row \in Database!Row
    BY DEF Database!Row
  <2>3. tx \in [Database!Sessions -> Transactions]
    BY RowsTyped
  <2> QED BY <2>1, <2>2, <2>3 DEF Database!DatabaseTypeOK, Transactions
<1> QED BY <1>2, <1>4 DEF DatabaseInv, Preparing

LEMMA StatementCount ==
  ASSUME scenarioName \in DbScenarios
  PROVE  Len(Database!Statements) \in Nat /\ Len(Database!Statements) >= 6
<1>1. PICK n \in {6, 9, 12, 30} : Len(Database!Statements) = n
  BY ScenarioNames, PlainScript, AcidScript, LocksScript
<1>2. n \in Nat /\ n >= 6
  OBVIOUS
<1> QED BY <1>1, <1>2

LEMMA ServerTypedNext ==
  (scenarioName \in DbScenarios =>
     \A p \in 1..(Len(Database!Statements) + 1) : Before(p) =>
        /\ row \in Database!Row /\ lockedBy \in Database!Sessions \cup {"none"}
        /\ \A s \in Database!Sessions : tx[s] \in Transactions
        /\ secondLock \in {"none", "waiting", "granted", "rejected"})'
<1>1. scenarioName \in DbScenarios =>
        \A p \in 1..(Len(Database!Statements) + 1) : Before(p) =>
           /\ row \in Database!Row /\ lockedBy \in Database!Sessions \cup {"none"}
           /\ \A s \in Database!Sessions : tx[s] \in Transactions
           /\ secondLock \in {"none", "waiting", "granted", "rejected"}
  BY ServerTyped
<1> QED BY <1>1, PTL

(* A statement keeps the sessions.                                         *)
LEMMA SessionsKept ==
  ASSUME tx = [s \in Database!Sessions |-> tx[s]], NEW q, Database!Effect(q)
  PROVE  tx' = [s \in Database!Sessions |-> tx'[s]]
  BY DEF Database!Effect, Database!server, Database!ReadStatement, Database!Observe,
     Database!Write,
     Database!Lock, Database!LockLater, Database!CompareAndSet, Database!Commit, Database!Rollback,
     Database!EndTx

LEMMA DatabaseExecutes ==
  ASSUME DatabaseInv, Database!Execute
  PROVE  DatabaseInv'
<1>1. /\ stage = "scenario" /\ stage' = stage /\ scenarioName \in DbScenarios
      /\ position \in 1..Len(Database!Statements) /\ position' = position + 1
      /\ UNCHANGED <<scenarioName, checkedOut, rolledBack>>
  BY StatementCount DEF DatabaseInv, Database!DatabaseTypeOK, Database!Execute,
     Database!Statements
<1>2. PICK p \in 1..Len(Database!Statements) : p = position /\ Before(p)
  BY <1>1 DEF DatabaseInv
<1>3. tx = [s \in Database!Sessions |-> tx[s]] /\ DOMAIN tx = Database!Sessions
  BY DEF DatabaseInv, Database!DatabaseTypeOK
<1>4. Database!Effect(Database!Statements[p]) /\ SeenSoFar
  BY <1>2 DEF Database!Execute, DatabaseInv
<1>5. Before(p + 1)' /\ SeenSoFar'
  BY <1>1, <1>2, <1>3, <1>4, StatementTaken
<1>6. PICK n : n = p + 1 /\ n \in 1..(Len(Database!Statements) + 1)
  BY <1>1, StatementCount
<1>7. Database!Statements' = Database!Statements
  BY <1>1 DEF Database!Statements
<1>8. /\ row' \in Database!Row /\ lockedBy' \in Database!Sessions \cup {"none"}
      /\ \A s \in Database!Sessions : tx'[s] \in Transactions
      /\ secondLock' \in {"none", "waiting", "granted", "rejected"}
  <2>1. Before(n)' /\ (scenarioName \in DbScenarios)' /\ n \in 1..(Len(Database!Statements)' + 1)
    BY <1>1, <1>5, <1>6, <1>7
  <2> QED BY <2>1, ServerTypedNext
<1>9. tx' \in [Database!Sessions -> Transactions]
  BY <1>3, <1>4, <1>8, SessionsKept
<1>10. Database!DatabaseTypeOK'
  BY <1>1, <1>2, <1>6, <1>8, <1>9 DEF DatabaseInv, Database!DatabaseTypeOK, Transactions,
     Database!Statements
<1>11. (\E m \in 1..(Len(Database!Statements) + 1) : m = position /\ Before(m))'
  <2>1. n = position' /\ Before(n)' /\ n \in 1..(Len(Database!Statements)' + 1)
    BY <1>1, <1>2, <1>5, <1>6, <1>7
  <2> QED BY <2>1
<1> QED BY <1>1, <1>5, <1>10, <1>11 DEF DatabaseInv, Preparing, Clients

LEMMA DatabaseStops ==
  ASSUME DatabaseInv, Database!Finally, stage = "scenario",
         UNCHANGED <<scenarioName, position, rolledBack, Database!server>>
  PROVE  DatabaseInv'
<1>1. PICK p \in 1..(Len(Database!Statements) + 1) : p = position /\ Before(p)
  BY DEF DatabaseInv
<1>2. scenarioName \in DbScenarios /\ checkedOut = Clients /\ rolledBack = {}
  BY DEF DatabaseInv, Database!DatabaseTypeOK
<1>3. /\ OpenAmong(Clients)
      /\ scenarioName \in {"indexes", "joins"} => OpenAmong({})
  BY <1>1, <1>2, StoppedScenario
<1>4. SeenSoFar'
  BY SeenKept DEF DatabaseInv, Database!server
<1>5. Database!DatabaseTypeOK'
  BY <1>2 DEF DatabaseInv, Database!DatabaseTypeOK, Database!Finally, Database!server
<1>6. CASE scenarioName \in {"indexes", "joins"}
  <2>1. stage' = "drop" /\ checkedOut' = {}
    BY <1>6 DEF Database!Finally
  <2> QED BY <1>2, <1>3, <1>4, <1>5, <1>6, <2>1 DEF DatabaseInv, OpenAmong, Preparing,
             Database!server
<1>7. CASE scenarioName \notin {"indexes", "joins"}
  <2>1. stage' = "rollback" /\ checkedOut' = checkedOut
    BY <1>7 DEF Database!Finally
  <2>2. Clients \ rolledBack = Clients
    BY <1>2
  <2> QED BY <1>2, <1>3, <1>4, <1>5, <1>7, <2>1, <2>2 DEF DatabaseInv, OpenAmong,
             Preparing, Database!server
<1> QED BY <1>6, <1>7

(* The steps of withDatabaseLab before a scenario.                         *)
LEMMA DatabasePrepares ==
  ASSUME DatabaseInv, stage \in Preparing, NEW to, stage' = to,
         to \in Preparing \cup {"drop", "scenario"}, checkedOut' \subseteq {"first", "second"},
         to \in Preparing \ {"connectSecond"} => checkedOut' = {},
         to = "connectSecond" => scenarioName = "locks" /\ checkedOut' = {"first"},
         to = "scenario" => checkedOut' = Clients,
         UNCHANGED <<scenarioName, position, rolledBack, Database!server>>
  PROVE  DatabaseInv'
<1>1. position = 1 /\ Before(1) /\ rolledBack = {} /\ scenarioName \in DbScenarios
  BY DEF DatabaseInv, Database!DatabaseTypeOK, Preparing
<1>2. OpenAmong({})
  BY <1>1, StoppedScenario, StatementCount
<1>3. Before(1)'
  BY <1>1 DEF Before, LocksAt, PromiseAt, AcidAt, IdleAt, ServerIs, Database!server
<1>4. SeenSoFar'
  BY SeenKept DEF DatabaseInv, Database!server
<1>5. Database!DatabaseTypeOK'
  BY <1>1 DEF DatabaseInv, Database!DatabaseTypeOK, Preparing, Database!server
<1>6. OpenAmong({})'
  BY <1>2 DEF OpenAmong, Database!server
<1>7. (\E p \in 1..(Len(Database!Statements) + 1) : p = position /\ Before(p))'
  <2>1. 1 \in 1..(Len(Database!Statements)' + 1)
    BY <1>1, StatementCount DEF Database!Statements
  <2> QED BY <1>1, <1>3, <2>1
<1> QED BY <1>1, <1>3, <1>4, <1>5, <1>6, <1>7 DEF DatabaseInv, Preparing, Clients

(* The end of a transaction gives the lock to the one that waits for it.   *)
LEMMA DatabaseRollsBack ==
  ASSUME DatabaseInv, NEW c \in {"first", "second"}, Database!RollbackQuietly(c)
  PROVE  DatabaseInv'
<1> USE DEF Database!RollbackQuietly
<1>1. OpenAmong(checkedOut \ rolledBack) /\ scenarioName \notin {"indexes", "joins"}
  BY DEF DatabaseInv
<1>2. ~(c = "second" /\ secondLock = "waiting")
  BY DEF Database!Pending
<1>3. Database!EndTx(c, row)
  BY DEF Database!Rollback
<1>4. tx \in [Database!Sessions -> Transactions] /\ c \in Database!Sessions
  BY DEF DatabaseInv, Database!DatabaseTypeOK, Transactions, Database!Sessions
<1>5. tx' \in [Database!Sessions -> Transactions]
  BY <1>3, <1>4, RowsTyped DEF Database!EndTx
<1>6. /\ lockedBy' \in Database!Sessions \cup {"none"} /\ row' = row
      /\ secondLock' \in {"none", "waiting", "granted", "rejected"}
  BY <1>3 DEF Database!EndTx, DatabaseInv, Database!DatabaseTypeOK, Database!Sessions
<1>7. Database!DatabaseTypeOK'
  BY <1>5, <1>6 DEF DatabaseInv, Database!DatabaseTypeOK, Transactions
<1>8. \A s \in Database!Sessions : tx'[s] # Database!NoTx => s \in checkedOut \ rolledBack /\ s # c
  BY <1>1, <1>3, <1>4 DEF Database!EndTx, OpenAmong
<1>9. /\ lockedBy' \in ((checkedOut \ rolledBack) \ {c}) \cup {"none"}
      /\ secondLock' = "waiting" => "second" \in (checkedOut \ rolledBack) \ {c}
  BY <1>1, <1>2, <1>3 DEF Database!EndTx, OpenAmong
<1>10. SeenSoFar'
  BY SeenKept DEF DatabaseInv
<1> QED BY <1>1, <1>7, <1>8, <1>9, <1>10 DEF DatabaseInv, OpenAmong, Preparing

LEMMA DatabaseLockFails ==
  ASSUME DatabaseInv, Database!LockFails
  PROVE  DatabaseInv'
<1> USE DEF Database!LockFails
<1>0. scenarioName \in DbScenarios
  BY DEF DatabaseInv, Database!DatabaseTypeOK
<1>1. ASSUME NEW p \in 1..(Len(Database!Statements) + 1), Before(p) PROVE Before(p)'
  <2>1. CASE scenarioName = "locks"
    <3>1. p \in 1..31 /\ LocksAt(p) /\ PromiseAt(p)
      BY <1>0, <1>1, <2>1, StatementNumbers DEF Before
    <3>2. p \in 19..21
      BY <3>1 DEF PromiseAt
    <3>3. PromiseAt(p)'
      BY <3>1, <3>2 DEF PromiseAt, Database!Returned
    <3>4. LocksAt(p)'
      BY <3>1, <3>2 DEF LocksAt, ServerIs
    <3> QED BY <2>1, <3>3, <3>4 DEF Before
  <2>2. CASE scenarioName # "locks"
    <3>1. secondLock = "none"
      BY <1>0, <1>1, <2>2, ScenarioNames DEF Before, AcidAt, IdleAt
    <3> QED BY <3>1
  <2> QED BY <2>1, <2>2
<1>2. SeenSoFar'
  BY SeenKept DEF DatabaseInv
<1>3. Database!DatabaseTypeOK'
  BY DEF DatabaseInv, Database!DatabaseTypeOK
<1>4. Database!Statements' = Database!Statements
  BY DEF Database!Statements
<1>5. stage = "scenario" =>
        (\E p \in 1..(Len(Database!Statements) + 1) : p = position /\ Before(p))'
  BY <1>1, <1>4 DEF DatabaseInv
<1>6. stage \in Preparing => Before(1)'
  BY <1>0, <1>1, StatementCount DEF DatabaseInv
<1> QED BY <1>2, <1>3, <1>5, <1>6 DEF DatabaseInv, OpenAmong, Preparing, Clients

LEMMA DatabaseStep ==
  DatabaseInv /\ [Database!DatabaseNext]_(Database!databaseVars) => DatabaseInv'
<1> SUFFICES ASSUME DatabaseInv, [Database!DatabaseNext]_(Database!databaseVars) PROVE DatabaseInv'
  OBVIOUS
<1> USE DEF Database!server
<1>1. ASSUME Database!Prepare PROVE DatabaseInv'
  <2>1. PICK from \in {"version", "schema", "table"}, to \in {"schema", "table", "connect"} :
          Database!Proceed(from, to)
    BY <1>1 DEF Database!Prepare
  <2>2. stage \in Preparing /\ checkedOut = {} /\ stage' \in {"schema", "table", "connect", "drop"}
    BY <2>1 DEF Database!Proceed, DatabaseInv, Preparing
  <2> QED BY <2>1, <2>2, DatabasePrepares DEF Database!Proceed, Preparing
<1>2. ASSUME Database!Connect PROVE DatabaseInv'
  <2>1. stage = "connect" /\ checkedOut = {}
    BY <1>2 DEF Database!Connect, DatabaseInv, Preparing
  <2>2. /\ stage' \in {"connectSecond", "scenario", "drop"}
        /\ checkedOut' \subseteq {"first", "second"}
        /\ stage' = "connectSecond" => scenarioName = "locks" /\ checkedOut' = {"first"}
        /\ stage' = "scenario" => checkedOut' = Clients
        /\ UNCHANGED <<scenarioName, position, rolledBack, Database!server>>
    BY <1>2, <2>1 DEF Database!Connect, Clients
  <2> QED BY <2>1, <2>2, DatabasePrepares DEF Preparing
<1>3. ASSUME Database!ConnectSecond PROVE DatabaseInv'
  <2>1. stage = "connectSecond" /\ checkedOut = {"first"} /\ scenarioName = "locks"
    BY <1>3 DEF Database!ConnectSecond, DatabaseInv
  <2>2. /\ stage' \in {"scenario", "drop"}
        /\ checkedOut' \subseteq {"first", "second"}
        /\ stage' = "scenario" => checkedOut' = Clients
        /\ UNCHANGED <<scenarioName, position, rolledBack, Database!server>>
    BY <1>3, <2>1 DEF Database!ConnectSecond, Clients
  <2> QED BY <2>1, <2>2, DatabasePrepares DEF Preparing
<1>4. ASSUME Database!Execute PROVE DatabaseInv'
  BY <1>4, DatabaseExecutes
<1>5. ASSUME Database!Fail \/ Database!Complete PROVE DatabaseInv'
  BY <1>5, DatabaseStops DEF Database!Fail, Database!Complete
<1>6. ASSUME Database!Release PROVE DatabaseInv'
  <2>1. SeenSoFar' /\ OpenAmong({})
    BY <1>6, SeenKept DEF Database!Release, DatabaseInv, OpenAmong
  <2> QED BY <1>6, <2>1 DEF Database!Release, DatabaseInv, Database!DatabaseTypeOK,
             OpenAmong, Preparing
<1>7. ASSUME Database!DropSchema \/ Database!PoolEnd PROVE DatabaseInv'
  <2>1. SeenSoFar'
    BY <1>7, SeenKept DEF Database!DropSchema, Database!PoolEnd, DatabaseInv
  <2> QED BY <1>7, <2>1 DEF Database!DropSchema, Database!PoolEnd, DatabaseInv,
        Database!DatabaseTypeOK, OpenAmong, Preparing
<1>8. ASSUME NEW c \in {"first", "second"}, Database!RollbackQuietly(c) PROVE DatabaseInv'
  BY <1>8, DatabaseRollsBack
<1>9. ASSUME Database!LockFails PROVE DatabaseInv'
  BY <1>9, DatabaseLockFails
<1>10. ASSUME UNCHANGED Database!databaseVars PROVE DatabaseInv'
  BY <1>10 DEF Database!databaseVars, DatabaseInv, Database!DatabaseTypeOK, SeenSoFar,
     Database!IsolationAsReported, Database!Balance, Database!Returned, OpenAmong, Clients, Preparing,
     Database!Statements, Before, LocksAt, PromiseAt, AcidAt, IdleAt, ServerIs
<1> QED BY <1>1, <1>2, <1>3, <1>4, <1>5, <1>6, <1>7, <1>8, <1>9, <1>10
      DEF Database!DatabaseNext, Database!DatabaseStep

LEMMA DatabaseReports ==
  DatabaseInv => /\ Database!IsolationAsReported /\ Database!DropNotBlocked
                 /\ stage = "over" => checkedOut = {}
  BY DEF DatabaseInv, SeenSoFar, OpenAmong, Database!DropNotBlocked, Database!Sessions

-----------------------------------------------------------------------------
(* The demos of the event loop.  What is scheduled are callbacks, and the  *)
(* name of none is that of a last event.                                   *)
LEMMA Names ==
  /\ "done" \notin Loop!Callbacks /\ "failed" \notin Loop!Callbacks
  /\ \A c \in {"main", "tick", "then", "microtask", "timer", "immediate", "outer", "sleep",
             "outerResult", "readFile", "ioTick", "ioThen", "ioTimer", "ioImmediate", "lookup",
             "job1", "job2", "job3"} : c \in Loop!Callbacks
  /\ \A c \in {"first", "second", "third", "fourth", "fifth", "resolve", "result", "a", "b", "c",
             "d", "waited", "delayed"} : c \in Loop!Callbacks
  /\ \A c \in {"then1", "catch", "then2", "slept", "finally", "chain", "slow", "fast", "middle",
             "all", "allSettled", "racer", "winner", "race"} : c \in Loop!Callbacks
  BY DEF Loop!Callbacks

Scheduled(adds) ==
  /\ adds.ticks \in Seq(Loop!Callbacks) /\ adds.micros \in Seq(Loop!Callbacks)
  /\ adds.immediates \in Seq(Loop!Callbacks) /\ adds.timers \in Seq(Nat \X Loop!Callbacks)
  /\ adds.io \subseteq Loop!Callbacks

LEMMA Scheduling ==
  /\ Scheduled(Loop!None)
  /\ \A c \in Loop!Callbacks : Scheduled(Loop!Then(c))
  /\ \A ms \in Nat, c \in Loop!Callbacks : Scheduled(Loop!Sleep(ms, c))
  /\ \A c \in Loop!Callbacks : Scheduled(Loop!Adds(<<>>, <<>>, <<>>, <<c>>, {}))
  /\ \A cs \in SUBSET Loop!Callbacks : Scheduled(Loop!Adds(<<>>, <<>>, <<>>, <<>>, cs))
  BY DEF Scheduled, Loop!None, Loop!Then, Loop!Sleep, Loop!Adds

LEMMA OrderSchedules ==
  /\ \A c \in Loop!Callbacks : Scheduled(Loop!EventLoopOrder(c))
  /\ \A j \in Loop!EventLoopJoins : Scheduled(j.next)
<1>1. Scheduled(Loop!OuterRound) /\ Scheduled(Loop!IoRound)
  BY Names DEF Scheduled, Loop!OuterRound, Loop!IoRound, Loop!Adds
<1>2. ASSUME NEW c \in Loop!Callbacks PROVE Scheduled(Loop!EventLoopOrder(c))
  BY <1>1, Scheduling, Names DEF Loop!EventLoopOrder
<1>3. ASSUME NEW j \in Loop!EventLoopJoins PROVE Scheduled(j.next)
  BY Scheduling, Names DEF Loop!EventLoopJoins, Loop!Join
<1> QED BY <1>2, <1>3

LEMMA DemultiplexerSchedules ==
  /\ \A c \in Loop!Callbacks : Scheduled(Loop!EventDemultiplexer(c))
  /\ \A j \in Loop!DemultiplexerJoins : Scheduled(j.next)
<1>1. Scheduled(Loop!Adds(<<>>, <<>>, << <<180, "timer">> >>, <<>>, Loop!Sources))
  BY Names DEF Scheduled, Loop!Adds, Loop!Sources
<1>2. ASSUME NEW c \in Loop!Callbacks PROVE Scheduled(Loop!EventDemultiplexer(c))
  BY <1>1, Scheduling DEF Loop!EventDemultiplexer
<1>3. ASSUME NEW j \in Loop!DemultiplexerJoins PROVE Scheduled(j.next)
  BY Scheduling, Names DEF Loop!DemultiplexerJoins, Loop!Join
<1> QED BY <1>2, <1>3

LEMMA ThreadPoolSchedules ==
  /\ \A c \in Loop!Callbacks : Scheduled(Loop!LibuvThreadPool(c))
  /\ \A j \in Loop!ThreadPoolJoins : Scheduled(j.next)
<1>1. ASSUME NEW c \in Loop!Callbacks PROVE Scheduled(Loop!LibuvThreadPool(c))
  BY Scheduling, Names DEF Loop!LibuvThreadPool, Loop!Pbkdf2
<1>2. ASSUME NEW j \in Loop!ThreadPoolJoins PROVE Scheduled(j.next)
  BY Scheduling, Names DEF Loop!ThreadPoolJoins, Loop!Join
<1> QED BY <1>1, <1>2

LEMMA QueueSchedules ==
  /\ \A c \in Loop!Callbacks : Scheduled(Loop!CallbackQueue(c))
  /\ \A j \in Loop!CallbackQueueJoins : Scheduled(j.next)
<1>1. Scheduled(Loop!Adds(<<>>, <<>>, [n \in 1..5 |-> <<1, Loop!Queued[n]>>], <<>>, {}))
  <2>1. \A n \in 1..5 : <<1, Loop!Queued[n]>> \in Nat \X Loop!Callbacks
    BY Names DEF Loop!Queued
  <2>2. [n \in 1..5 |-> <<1, Loop!Queued[n]>>] \in Seq(Nat \X Loop!Callbacks)
    BY <2>1, IsASeq
  <2> QED BY <2>2 DEF Scheduled, Loop!Adds
<1>2. Scheduled(Loop!Adds(<<"tick">>, <<"then">>, <<>>, <<>>, {}))
  BY Names DEF Scheduled, Loop!Adds
<1>3. ASSUME NEW c \in Loop!Callbacks PROVE Scheduled(Loop!CallbackQueue(c))
  BY <1>1, <1>2, Scheduling, Names DEF Loop!CallbackQueue
<1>4. ASSUME NEW j \in Loop!CallbackQueueJoins PROVE Scheduled(j.next)
  BY Scheduling, Names DEF Loop!CallbackQueueJoins, Loop!Join
<1> QED BY <1>3, <1>4

LEMMA PromisesSchedules ==
  /\ \A c \in Loop!Callbacks : Scheduled(Loop!PromisesImmediate(c))
  /\ \A j \in Loop!PromisesJoins : Scheduled(j.next)
<1>1. /\ Scheduled(Loop!Adds(<<>>, <<"then1", "catch">>, <<>>, <<"immediate">>, {}))
      /\ Scheduled(Loop!Adds(<<>>, <<>>, << <<45, "slow">>, <<10, "fast">>, <<25, "middle">> >>, <<>>, {}))
      /\ Scheduled(Loop!Adds(<<>>, <<>>, << <<30, "racer">> >>, <<"winner">>, {}))
  BY Names DEF Scheduled, Loop!Adds
<1>2. ASSUME NEW c \in Loop!Callbacks PROVE Scheduled(Loop!PromisesImmediate(c))
  BY <1>1, Scheduling, Names DEF Loop!PromisesImmediate
<1>3. ASSUME NEW j \in Loop!PromisesJoins PROVE Scheduled(j.next)
  BY Scheduling, Names DEF Loop!PromisesJoins, Loop!Join
<1> QED BY <1>2, <1>3

LEMMA ModelsSchedules ==
  /\ \A c \in Loop!Callbacks : Scheduled(Loop!RuntimeModels(c))
  /\ \A j \in Loop!RuntimeModelsJoins : Scheduled(j.next)
<1>1. Scheduled(Loop!Adds(<<>>, <<>>, << <<25, "a">>, <<35, "b">>, <<45, "c">>, <<55, "d">> >>, <<>>, {}))
  BY Names DEF Scheduled, Loop!Adds
<1>2. ASSUME NEW c \in Loop!Callbacks PROVE Scheduled(Loop!RuntimeModels(c))
  BY <1>1, Scheduling, Names DEF Loop!RuntimeModels
<1>3. ASSUME NEW j \in Loop!RuntimeModelsJoins PROVE Scheduled(j.next)
  BY Scheduling, Names DEF Loop!RuntimeModelsJoins, Loop!Join
<1> QED BY <1>2, <1>3

LEMMA LoopSchedules ==
  ASSUME loopDemo \in LoopDemos
  PROVE  /\ \A c \in Loop!Callbacks : Scheduled(Loop!Schedules(c))
         /\ \A j \in Loop!Joins : Scheduled(j.next)
<1>1. loopDemo \in {"order", "demultiplexer", "queue", "pool", "promises", "models"}
  BY DemosAssumption DEF DemosAssumption
<1>2. CASE loopDemo = "order"
  BY <1>2, OrderSchedules DEF Loop!Schedules, Loop!Joins
<1>3. CASE loopDemo = "demultiplexer"
  BY <1>3, DemultiplexerSchedules DEF Loop!Schedules, Loop!Joins
<1>4. CASE loopDemo = "queue"
  BY <1>4, QueueSchedules DEF Loop!Schedules, Loop!Joins
<1>5. CASE loopDemo = "pool"
  BY <1>5, ThreadPoolSchedules DEF Loop!Schedules, Loop!Joins
<1>6. CASE loopDemo = "promises"
  BY <1>6, PromisesSchedules DEF Loop!Schedules, Loop!Joins
<1>7. CASE loopDemo = "models"
  BY <1>7, ModelsSchedules DEF Loop!Schedules, Loop!Joins
<1> QED BY <1>1, <1>2, <1>3, <1>4, <1>5, <1>6, <1>7

(* The stream is a sequence of callbacks, and one last event once it is    *)
(* closed.                                                                 *)
LoopInv ==
  /\ loopDemo \in LoopDemos
  /\ loopAt \in {"timers", "poll", "check"}
  /\ draining \in {"ticks", "micros", "none"}
  /\ closed \in BOOLEAN
  /\ loopResult \in {"none", "done", "failed"}
  /\ Scheduled(Loop!Now) /\ batch \in Seq(Loop!Callbacks)
  /\ \E shown \in Seq(Loop!Callbacks) :
       trace = IF closed THEN Append(shown, loopResult) ELSE shown
  /\ closed => loopResult # "none"

LEMMA LoopBegins == Loop!LoopInit => LoopInv
<1> SUFFICES ASSUME Loop!LoopInit PROVE LoopInv
  OBVIOUS
<1>1. Scheduled(Loop!Schedules("main"))
  BY LoopSchedules, Names DEF Loop!LoopInit
<1>2. Scheduled(Loop!Now)
  BY <1>1 DEF Loop!LoopInit, Loop!Now, Scheduled
<1>3. <<>> \in Seq(Loop!Callbacks)
  OBVIOUS
<1> QED BY <1>2, <1>3 DEF Loop!LoopInit, LoopInv

(* A callback schedules callbacks, and emits nothing once it is closed.    *)
LEMMA LoopCalls ==
  ASSUME LoopInv, NEW c \in Loop!Callbacks, NEW q, Scheduled(q), Loop!Call(c, q)
  PROVE  /\ Scheduled(Loop!Now)'
         /\ UNCHANGED <<loopDemo, closed>> /\ loopResult' \in {"none", "done", "failed"}
         /\ closed => loopResult' # "none" /\ loopResult' = loopResult
         /\ (\E shown \in Seq(Loop!Callbacks) :
               trace = IF closed THEN Append(shown, loopResult) ELSE shown)'
<1>1. PICK own, next : own = Loop!Schedules(c) /\ next = Loop!Following(c)
  OBVIOUS
<1>2. Scheduled(own)
  BY <1>1, LoopSchedules DEF LoopInv
<1>3. Loop!Completed(c) \subseteq Loop!Joins
  BY DEF Loop!Completed
<1>4. Loop!Completed(c) # {} => \E j \in Loop!Joins : Loop!Following(c) = j.next
  BY <1>3 DEF Loop!Following
<1>5. Scheduled(next)
  <2>1. Loop!Completed(c) = {} => next = Loop!None
    BY <1>1 DEF Loop!Following
  <2> QED BY <1>1, <1>4, <2>1, LoopSchedules, Scheduling DEF LoopInv
<1>6. /\ Loop!Emit(c)
      /\ ticks' = q.ticks \o own.ticks \o next.ticks
      /\ micros' = q.micros \o own.micros \o next.micros
      /\ timers' = q.timers \o own.timers \o next.timers
      /\ immediates' = q.immediates \o own.immediates \o next.immediates
      /\ io' = q.io \cup own.io \cup next.io
      /\ loopResult' = IF c = "result" /\ loopResult = "none" THEN "done" ELSE loopResult
      /\ UNCHANGED <<loopDemo, closed>>
  BY <1>1 DEF Loop!Call
<1>7. Scheduled(Loop!Now)'
  <2>1. \A S : \A a, b, d \in Seq(S) : a \o b \o d \in Seq(S)
    BY ConcatProperties
  <2>2. ticks' \in Seq(Loop!Callbacks) /\ micros' \in Seq(Loop!Callbacks) /\ immediates' \in Seq(Loop!Callbacks)
    BY <1>2, <1>5, <1>6, <2>1 DEF Scheduled
  <2>3. timers' \in Seq(Nat \X Loop!Callbacks)
    BY <1>2, <1>5, <1>6, <2>1 DEF Scheduled
  <2>4. io' \subseteq Loop!Callbacks
    BY <1>2, <1>5, <1>6 DEF Scheduled
  <2> QED BY <2>2, <2>3, <2>4 DEF Scheduled, Loop!Now
<1>8. /\ loopResult' \in {"none", "done", "failed"}
      /\ closed => loopResult' # "none" /\ loopResult' = loopResult
  BY <1>6 DEF LoopInv
<1>9. PICK shown \in Seq(Loop!Callbacks) : trace = IF closed THEN Append(shown, loopResult) ELSE shown
  BY DEF LoopInv
<1>10. CASE closed
  <2>1. trace' = Append(shown, loopResult') /\ closed'
    BY <1>6, <1>8, <1>9, <1>10 DEF Loop!Emit
  <2> QED BY <1>6, <1>7, <1>8, <2>1
<1>11. CASE ~closed
  <2>1. trace' \in Seq(Loop!Callbacks) /\ ~closed'
    BY <1>6, <1>9, <1>11, AppendProperties DEF Loop!Emit
  <2> QED BY <1>6, <1>7, <1>8, <2>1
<1> QED BY <1>10, <1>11

LEMMA LoopStep == LoopInv /\ [Loop!LoopNext]_(Loop!loopVars) => LoopInv'
<1> SUFFICES ASSUME LoopInv, [Loop!LoopNext]_(Loop!loopVars) PROVE LoopInv'
  OBVIOUS
<1>0. /\ ticks \in Seq(Loop!Callbacks) /\ micros \in Seq(Loop!Callbacks) /\ immediates \in Seq(Loop!Callbacks)
      /\ timers \in Seq(Nat \X Loop!Callbacks) /\ io \subseteq Loop!Callbacks /\ batch \in Seq(Loop!Callbacks)
  BY DEF LoopInv, Scheduled, Loop!Now
<1>1. ASSUME Loop!RunTick PROVE LoopInv'
  <2>1. Head(ticks) \in Loop!Callbacks /\ Tail(ticks) \in Seq(Loop!Callbacks)
    BY <1>0, <1>1, HeadTailProperties DEF Loop!RunTick
  <2>2. PICK c, q : c = Head(ticks) /\ q = [Loop!Now EXCEPT !.ticks = Tail(ticks)]
    OBVIOUS
  <2>3. Scheduled(q)
    BY <1>0, <2>1, <2>2 DEF Scheduled, Loop!Now
  <2>4. Loop!Call(c, q) /\ UNCHANGED <<loopAt, draining, batch>>
    BY <1>1, <2>2 DEF Loop!RunTick
  <2> QED BY <2>1, <2>2, <2>3, <2>4, LoopCalls DEF LoopInv
<1>2. ASSUME Loop!RunMicrotask PROVE LoopInv'
  <2>1. Head(micros) \in Loop!Callbacks /\ Tail(micros) \in Seq(Loop!Callbacks)
    BY <1>0, <1>2, HeadTailProperties DEF Loop!RunMicrotask
  <2>2. PICK c, q : c = Head(micros) /\ q = [Loop!Now EXCEPT !.micros = Tail(micros)]
    OBVIOUS
  <2>3. Scheduled(q)
    BY <1>0, <2>1, <2>2 DEF Scheduled, Loop!Now
  <2>4. Loop!Call(c, q) /\ UNCHANGED <<loopAt, draining, batch>>
    BY <1>2, <2>2 DEF Loop!RunMicrotask
  <2> QED BY <2>1, <2>2, <2>3, <2>4, LoopCalls DEF LoopInv
<1>3. ASSUME Loop!RunTimer PROVE LoopInv'
  <2>1. PICK i \in 1..Len(timers) :
          Loop!Call(timers[i][2], [Loop!Now EXCEPT !.timers = Loop!RemoveAt(timers, i)])
    BY <1>3 DEF Loop!RunTimer
  <2>2. timers[i][2] \in Loop!Callbacks
    BY <1>0, ElementOfSeq
  <2>3. Loop!RemoveAt(timers, i) \in Seq(Nat \X Loop!Callbacks)
    <3>1. Len(timers) \in Nat /\ \A n \in 1..Len(timers) : timers[n] \in Nat \X Loop!Callbacks
      BY <1>0, ElementOfSeq
    <3>2. SubSeq(timers, 1, i - 1) \in Seq(Nat \X Loop!Callbacks)
      BY <3>1, SubSeqProperties
    <3>3. SubSeq(timers, i + 1, Len(timers)) \in Seq(Nat \X Loop!Callbacks)
      BY <3>1, SubSeqProperties
    <3> QED BY <3>2, <3>3, ConcatProperties DEF Loop!RemoveAt
  <2>4. PICK c, q : c = timers[i][2] /\ q = [Loop!Now EXCEPT !.timers = Loop!RemoveAt(timers, i)]
    OBVIOUS
  <2>5. Scheduled(q)
    BY <1>0, <2>3, <2>4 DEF Scheduled, Loop!Now
  <2>6. Loop!Call(c, q) /\ draining' = "ticks" /\ UNCHANGED <<loopAt, batch>>
    BY <1>3, <2>1, <2>4 DEF Loop!RunTimer
  <2> QED BY <2>2, <2>4, <2>5, <2>6, LoopCalls DEF LoopInv
<1>4. ASSUME Loop!RunIo PROVE LoopInv'
  <2>1. PICK c \in io : Loop!Call(c, [Loop!Now EXCEPT !.io = io \ {c}])
    BY <1>4 DEF Loop!RunIo
  <2>2. PICK q : q = [Loop!Now EXCEPT !.io = io \ {c}]
    OBVIOUS
  <2>3. Scheduled(q) /\ c \in Loop!Callbacks
    BY <1>0, <2>1, <2>2 DEF Scheduled, Loop!Now
  <2>4. Loop!Call(c, q) /\ draining' = "ticks" /\ UNCHANGED <<loopAt, batch>>
    BY <1>4, <2>1, <2>2 DEF Loop!RunIo
  <2> QED BY <2>3, <2>4, LoopCalls DEF LoopInv
<1>5. ASSUME Loop!RunImmediate PROVE LoopInv'
  <2>1. Head(batch) \in Loop!Callbacks /\ Tail(batch) \in Seq(Loop!Callbacks)
    BY <1>0, <1>5, HeadTailProperties DEF Loop!RunImmediate
  <2>2. PICK c, q : c = Head(batch) /\ q = Loop!Now
    OBVIOUS
  <2>3. Scheduled(q)
    BY <2>2 DEF LoopInv
  <2>4. Loop!Call(c, q) /\ draining' = "ticks" /\ loopAt' = loopAt /\ batch' = Tail(batch)
    BY <1>5, <2>2 DEF Loop!RunImmediate
  <2> QED BY <2>1, <2>2, <2>3, <2>4, LoopCalls DEF LoopInv
<1>6. ASSUME Loop!QueueDrained \/ Loop!NextPhase PROVE LoopInv'
  <2>1. /\ UNCHANGED <<loopDemo, closed, loopResult, trace, ticks, micros, timers, io>>
        /\ batch' \in Seq(Loop!Callbacks) /\ immediates' \in Seq(Loop!Callbacks)
        /\ loopAt' \in {"timers", "poll", "check"} /\ draining' \in {"ticks", "micros", "none"}
    BY <1>0, <1>6 DEF Loop!QueueDrained, Loop!NextPhase, Loop!queues, LoopInv
  <2>2. Scheduled(Loop!Now)'
    BY <1>0, <2>1 DEF Scheduled, Loop!Now
  <2> QED BY <2>1, <2>2 DEF LoopInv
<1>7. ASSUME Loop!IoFails PROVE LoopInv'
  <2>1. /\ UNCHANGED <<loopDemo, loopAt, ticks, micros, timers, immediates, batch, trace, closed>>
        /\ io' \subseteq Loop!Callbacks /\ draining' = "ticks"
        /\ loopResult' \in {"none", "done", "failed"}
        /\ closed => loopResult' = loopResult
    BY <1>0, <1>7 DEF Loop!IoFails, LoopInv
  <2>2. Scheduled(Loop!Now)'
    BY <1>0, <2>1 DEF Scheduled, Loop!Now
  <2> QED BY <2>1, <2>2 DEF LoopInv
<1>8. ASSUME Loop!Answer PROVE LoopInv'
  <2>1. PICK shown \in Seq(Loop!Callbacks) : trace = shown
    BY <1>8 DEF Loop!Answer, LoopInv
  <2>2. trace' = Append(shown, loopResult') /\ closed' = TRUE /\ loopResult' # "none"
    BY <1>8, <2>1 DEF Loop!Answer
  <2>3. Scheduled(Loop!Now)' /\ UNCHANGED <<loopDemo, loopAt, draining, batch, loopResult>>
    BY <1>0, <1>8 DEF Loop!Answer, Loop!queues, Scheduled, Loop!Now
  <2> QED BY <2>2, <2>3 DEF LoopInv
<1>9. ASSUME UNCHANGED Loop!loopVars PROVE LoopInv'
  BY <1>9 DEF Loop!loopVars, Loop!queues, LoopInv, Scheduled, Loop!Now
<1> QED BY <1>1, <1>2, <1>3, <1>4, <1>5, <1>6, <1>7, <1>8, <1>9 DEF Loop!LoopNext

LEMMA LoopEnds == LoopInv => Loop!LoopTypeOK /\ Loop!EndsOnce
<1> SUFFICES ASSUME LoopInv PROVE Loop!LoopTypeOK /\ Loop!EndsOnce
  OBVIOUS
<1>1. PICK shown \in Seq(Loop!Callbacks) : trace = IF closed THEN Append(shown, loopResult) ELSE shown
  BY DEF LoopInv
<1>2. Len(shown) \in Nat /\ \A i \in 1..Len(shown) : shown[i] \in Loop!Callbacks
  BY ElementOfSeq
<1>3. Loop!EndsOnce
  <2>1. CASE closed
    <3>1. /\ Len(trace) = Len(shown) + 1
          /\ \A i \in 1..Len(shown) : trace[i] = shown[i]
      BY <1>1, <2>1, AppendProperties DEF LoopInv
    <3> QED BY <1>2, <3>1, Names DEF Loop!EndsOnce
  <2>2. CASE ~closed
    BY <1>1, <1>2, <2>2, Names DEF Loop!EndsOnce
  <2> QED BY <2>1, <2>2 DEF LoopInv
<1>4. shown \in Seq(Loop!Callbacks \cup {"done", "failed"})
  OBVIOUS
<1>5. trace \in Seq(Loop!Callbacks \cup {"done", "failed"})
  <2>1. closed => loopResult \in {"done", "failed"}
    BY DEF LoopInv
  <2> QED BY <1>1, <1>4, <2>1, AppendProperties
<1>6. /\ ticks \in Seq(Loop!Callbacks) /\ micros \in Seq(Loop!Callbacks) /\ immediates \in Seq(Loop!Callbacks)
      /\ timers \in Seq(Nat \X Loop!Callbacks) /\ io \subseteq Loop!Callbacks /\ batch \in Seq(Loop!Callbacks)
  BY DEF LoopInv, Scheduled, Loop!Now
<1>7. \A i \in 1..Len(timers) : timers[i] \in Nat \X Loop!Callbacks
  BY <1>6, ElementOfSeq, Names
<1> QED BY <1>3, <1>4, <1>5, <1>6, <1>7, Names DEF LoopInv, Loop!LoopTypeOK

-----------------------------------------------------------------------------
(* What the demos of the event loop report.  First one callback: what it   *)
(* leaves of the queues it was taken from, and what it adds.               *)
LEMMA Empties ==
  /\ \A s \in Seq(Loop!Callbacks) : s \o <<>> = s /\ <<>> \o s = s
  /\ \A s \in Seq(Nat \X Loop!Callbacks) : s \o <<>> = s /\ <<>> \o s = s
  BY ConcatProperties

(* A callback c, taken so that these remain, leads to these.               *)
Leaves(c, t, m, ti, im, i) ==
  /\ ticks' = t /\ micros' = m /\ timers' = ti /\ immediates' = im /\ io' = i
  /\ Loop!Emit(c)
  /\ loopResult' = IF c = "result" /\ loopResult = "none" THEN "done" ELSE loopResult
  /\ UNCHANGED <<loopDemo, closed>>

(* It adds this: what it schedules or, if it schedules nothing, what       *)
(* follows the join it completes.                                          *)
Adding(c, a) ==
  \/ Loop!Completed(c) = {} /\ a = Loop!Schedules(c)
  \/ Loop!Schedules(c) = Loop!None /\ \E j : Loop!Completed(c) = {j} /\ a = j.next

LEMMA CallLeaves ==
  ASSUME NEW c, NEW q, Scheduled(q), NEW a, Scheduled(a), Adding(c, a), Loop!Call(c, q)
  PROVE  Leaves(c, q.ticks \o a.ticks, q.micros \o a.micros, q.timers \o a.timers,
                q.immediates \o a.immediates, q.io \cup a.io)
<1>1. PICK own, next : own = Loop!Schedules(c) /\ next = Loop!Following(c)
  OBVIOUS
<1>2. \/ own = a /\ next = Loop!None
      \/ own = Loop!None /\ next = a
  <2>1. Loop!Completed(c) = {} => next = Loop!None
    BY <1>1 DEF Loop!Following
  <2>2. ASSUME NEW j, Loop!Completed(c) = {j}, a = j.next PROVE next = a
    BY <1>1, <2>2 DEF Loop!Following
  <2> QED BY <1>1, <2>1, <2>2 DEF Adding
<1>3. /\ ticks' = q.ticks \o own.ticks \o next.ticks
      /\ micros' = q.micros \o own.micros \o next.micros
      /\ timers' = q.timers \o own.timers \o next.timers
      /\ immediates' = q.immediates \o own.immediates \o next.immediates
      /\ io' = q.io \cup own.io \cup next.io
      /\ Loop!Emit(c)
      /\ loopResult' = IF c = "result" /\ loopResult = "none" THEN "done" ELSE loopResult
      /\ UNCHANGED <<loopDemo, closed>>
  BY <1>1 DEF Loop!Call
<1>4. /\ q.ticks \o a.ticks \in Seq(Loop!Callbacks)
      /\ q.micros \o a.micros \in Seq(Loop!Callbacks)
      /\ q.timers \o a.timers \in Seq(Nat \X Loop!Callbacks)
      /\ q.immediates \o a.immediates \in Seq(Loop!Callbacks)
  BY ConcatProperties DEF Scheduled
<1>5. CASE own = a /\ next = Loop!None
  BY <1>3, <1>4, <1>5, Empties DEF Leaves, Loop!None, Loop!Adds
<1>6. CASE own = Loop!None /\ next = a
  BY <1>3, <1>4, <1>6, Empties DEF Leaves, Loop!None, Loop!Adds, Scheduled
<1> QED BY <1>2, <1>5, <1>6

(* Between callbacks, nextTicks and promise reactions are run; only the    *)
(* check phase has a batch of immediates.                                  *)
InTurn ==
  /\ draining = "none" => ticks = <<>> /\ micros = <<>>
  /\ batch # <<>> => loopAt = "check"

LEMMA TimerTaken ==
  ASSUME NEW s \in Seq(Nat \X Loop!Callbacks), NEW i \in 1..Len(s)
  PROVE  /\ Loop!RemoveAt(s, i) \in Seq(Nat \X Loop!Callbacks)
         /\ i = 1 => Loop!RemoveAt(s, i) = Tail(s)
<1>1. Len(s) \in Nat /\ \A n \in 1..Len(s) : s[n] \in Nat \X Loop!Callbacks
  BY ElementOfSeq
<1>2. /\ SubSeq(s, 1, i - 1) \in Seq(Nat \X Loop!Callbacks)
      /\ SubSeq(s, i + 1, Len(s)) \in Seq(Nat \X Loop!Callbacks)
  BY <1>1, SubSeqProperties
<1>3. ASSUME i = 1 PROVE Loop!RemoveAt(s, i) = Tail(s)
  <2>1. SubSeq(s, 1, 0) = <<>> /\ s # <<>>
    BY <1>1, <1>3, SubSeqProperties
  <2>2. SubSeq(s, 2, Len(s)) = Tail(s)
    BY <1>1, <2>1, SubSeqProperties, HeadTailProperties
  <2> QED BY <1>2, <1>3, <2>1, <2>2, Empties DEF Loop!RemoveAt
<1> QED BY <1>2, <1>3, ConcatProperties DEF Loop!RemoveAt

(* The callbacks whose turn it is.                                         *)
Due(c) ==
  \/ draining = "ticks" /\ ticks # <<>> /\ c = Head(ticks)
  \/ draining = "micros" /\ micros # <<>> /\ c = Head(micros)
  \/ /\ draining = "none" /\ loopAt = "timers"
     /\ \E i \in 1..Len(timers) :
          c = timers[i][2] /\ \A k \in 1..(i - 1) : timers[k][1] > timers[i][1]
  \/ draining = "none" /\ loopAt = "poll" /\ c \in io
  \/ draining = "none" /\ loopAt = "check" /\ batch # <<>> /\ c = Head(batch)

(* One turn of the loop in which a callback c runs, and adds a.            *)
Turn(c, a) ==
  \/ /\ draining = "ticks" /\ ticks # <<>> /\ c = Head(ticks)
     /\ Leaves(c, Tail(ticks) \o a.ticks, micros \o a.micros, timers \o a.timers,
               immediates \o a.immediates, io \cup a.io)
     /\ UNCHANGED <<loopAt, draining, batch>>
  \/ /\ draining = "micros" /\ micros # <<>> /\ c = Head(micros)
     /\ Leaves(c, ticks \o a.ticks, Tail(micros) \o a.micros, timers \o a.timers,
               immediates \o a.immediates, io \cup a.io)
     /\ UNCHANGED <<loopAt, draining, batch>>
  \/ /\ draining = "none" /\ loopAt = "timers"
     /\ \E i \in 1..Len(timers) :
          /\ \A k \in 1..(i - 1) : timers[k][1] > timers[i][1]
          /\ c = timers[i][2]
          /\ Leaves(c, ticks \o a.ticks, micros \o a.micros,
                    Loop!RemoveAt(timers, i) \o a.timers,
                    immediates \o a.immediates, io \cup a.io)
     /\ draining' = "ticks" /\ UNCHANGED <<loopAt, batch>>
  \/ /\ draining = "none" /\ loopAt = "poll" /\ c \in io
     /\ Leaves(c, ticks \o a.ticks, micros \o a.micros, timers \o a.timers,
               immediates \o a.immediates, (io \ {c}) \cup a.io)
     /\ draining' = "ticks" /\ UNCHANGED <<loopAt, batch>>
  \/ /\ draining = "none" /\ loopAt = "check" /\ batch # <<>> /\ c = Head(batch)
     /\ Leaves(c, ticks \o a.ticks, micros \o a.micros, timers \o a.timers,
               immediates \o a.immediates, io \cup a.io)
     /\ batch' = Tail(batch) /\ draining' = "ticks" /\ UNCHANGED loopAt

(* Every step runs a callback or is one of the loop itself.                *)
LEMMA LoopTurns ==
  ASSUME LoopInv, Loop!LoopNext
  PROVE  \/ Loop!QueueDrained \/ Loop!IoFails \/ Loop!NextPhase \/ Loop!Answer
         \/ \E c \in Loop!Callbacks :
              Due(c) /\ \A a : Scheduled(a) /\ Adding(c, a) => Turn(c, a)
<1>0. /\ ticks \in Seq(Loop!Callbacks) /\ micros \in Seq(Loop!Callbacks)
      /\ immediates \in Seq(Loop!Callbacks) /\ batch \in Seq(Loop!Callbacks)
      /\ timers \in Seq(Nat \X Loop!Callbacks) /\ io \subseteq Loop!Callbacks
  BY DEF LoopInv, Scheduled, Loop!Now
<1>1. CASE Loop!RunTick
  <2>1. PICK c, q : c = Head(ticks) /\ q = [Loop!Now EXCEPT !.ticks = Tail(ticks)]
    OBVIOUS
  <2>2. c \in Loop!Callbacks /\ Scheduled(q)
    BY <1>0, <1>1, <2>1, HeadTailProperties DEF Loop!RunTick, Scheduled, Loop!Now
  <2>3. Loop!Call(c, q) /\ draining = "ticks" /\ ticks # <<>> /\ UNCHANGED <<loopAt, draining, batch>>
    BY <1>1, <2>1 DEF Loop!RunTick
  <2>4. ASSUME NEW a, Scheduled(a), Adding(c, a) PROVE Turn(c, a)
    <3>1. Leaves(c, q.ticks \o a.ticks, q.micros \o a.micros, q.timers \o a.timers,
                 q.immediates \o a.immediates, q.io \cup a.io)
      BY <2>2, <2>3, <2>4, CallLeaves
    <3>2. /\ q.ticks = Tail(ticks) /\ q.micros = micros /\ q.timers = timers
          /\ q.immediates = immediates /\ q.io = io
      BY <2>1 DEF Loop!Now
    <3> QED BY <2>2, <2>3, <2>1, <3>1, <3>2 DEF Turn
  <2> QED BY <2>1, <2>2, <2>3, <2>4 DEF Due
<1>2. CASE Loop!RunMicrotask
  <2>1. PICK c, q : c = Head(micros) /\ q = [Loop!Now EXCEPT !.micros = Tail(micros)]
    OBVIOUS
  <2>2. c \in Loop!Callbacks /\ Scheduled(q)
    BY <1>0, <1>2, <2>1, HeadTailProperties DEF Loop!RunMicrotask, Scheduled, Loop!Now
  <2>3. Loop!Call(c, q) /\ draining = "micros" /\ micros # <<>> /\ UNCHANGED <<loopAt, draining, batch>>
    BY <1>2, <2>1 DEF Loop!RunMicrotask
  <2>4. ASSUME NEW a, Scheduled(a), Adding(c, a) PROVE Turn(c, a)
    <3>1. Leaves(c, q.ticks \o a.ticks, q.micros \o a.micros, q.timers \o a.timers,
                 q.immediates \o a.immediates, q.io \cup a.io)
      BY <2>2, <2>3, <2>4, CallLeaves
    <3>2. /\ q.ticks = ticks /\ q.micros = Tail(micros) /\ q.timers = timers
          /\ q.immediates = immediates /\ q.io = io
      BY <2>1 DEF Loop!Now
    <3> QED BY <2>2, <2>3, <2>1, <3>1, <3>2 DEF Turn
  <2> QED BY <2>1, <2>2, <2>3, <2>4 DEF Due
<1>3. CASE Loop!RunTimer
  <2>1. PICK i \in 1..Len(timers) :
          /\ \A k \in 1..(i - 1) : timers[k][1] > timers[i][1]
          /\ Loop!Call(timers[i][2], [Loop!Now EXCEPT !.timers = Loop!RemoveAt(timers, i)])
    BY <1>3 DEF Loop!RunTimer
  <2>2. PICK c, q : c = timers[i][2] /\ q = [Loop!Now EXCEPT !.timers = Loop!RemoveAt(timers, i)]
    OBVIOUS
  <2>3. Loop!RemoveAt(timers, i) \in Seq(Nat \X Loop!Callbacks)
    BY <1>0, <2>1, TimerTaken
  <2>4. c \in Loop!Callbacks /\ Scheduled(q)
    BY <1>0, <2>1, <2>2, <2>3, ElementOfSeq DEF Scheduled, Loop!Now
  <2>5. Loop!Call(c, q) /\ draining = "none" /\ loopAt = "timers" /\ draining' = "ticks"
        /\ UNCHANGED <<loopAt, batch>>
    BY <1>3, <2>1, <2>2 DEF Loop!RunTimer
  <2>6. ASSUME NEW a, Scheduled(a), Adding(c, a) PROVE Turn(c, a)
    <3>1. Leaves(c, q.ticks \o a.ticks, q.micros \o a.micros, q.timers \o a.timers,
                 q.immediates \o a.immediates, q.io \cup a.io)
      BY <2>4, <2>5, <2>6, CallLeaves
    <3>2. /\ q.ticks = ticks /\ q.micros = micros /\ q.timers = Loop!RemoveAt(timers, i)
          /\ q.immediates = immediates /\ q.io = io
      BY <2>2 DEF Loop!Now
    <3> QED BY <2>1, <2>2, <2>5, <3>1, <3>2 DEF Turn
  <2> QED BY <2>1, <2>2, <2>4, <2>5, <2>6 DEF Due
<1>4. CASE Loop!RunIo
  <2>1. PICK c \in io : Loop!Call(c, [Loop!Now EXCEPT !.io = io \ {c}])
    BY <1>4 DEF Loop!RunIo
  <2>2. PICK q : q = [Loop!Now EXCEPT !.io = io \ {c}]
    OBVIOUS
  <2>3. Scheduled(q) /\ c \in Loop!Callbacks
    BY <1>0, <2>1, <2>2 DEF Scheduled, Loop!Now
  <2>4. Loop!Call(c, q) /\ draining = "none" /\ loopAt = "poll" /\ draining' = "ticks"
        /\ UNCHANGED <<loopAt, batch>>
    BY <1>4, <2>1, <2>2 DEF Loop!RunIo
  <2>5. ASSUME NEW a, Scheduled(a), Adding(c, a) PROVE Turn(c, a)
    <3>1. Leaves(c, q.ticks \o a.ticks, q.micros \o a.micros, q.timers \o a.timers,
                 q.immediates \o a.immediates, q.io \cup a.io)
      BY <2>3, <2>4, <2>5, CallLeaves
    <3>2. /\ q.ticks = ticks /\ q.micros = micros /\ q.timers = timers
          /\ q.immediates = immediates /\ q.io = io \ {c}
      BY <2>2 DEF Loop!Now
    <3> QED BY <2>3, <2>1, <2>4, <2>2, <3>1, <3>2 DEF Turn
  <2> QED BY <2>1, <2>3, <2>4, <2>5 DEF Due
<1>5. CASE Loop!RunImmediate
  <2>1. PICK c, q : c = Head(batch) /\ q = Loop!Now
    OBVIOUS
  <2>2. c \in Loop!Callbacks /\ Scheduled(q)
    BY <1>0, <1>5, <2>1, HeadTailProperties DEF Loop!RunImmediate, LoopInv
  <2>3. Loop!Call(c, q) /\ draining = "none" /\ loopAt = "check" /\ batch # <<>>
        /\ batch' = Tail(batch) /\ draining' = "ticks" /\ UNCHANGED loopAt
    BY <1>5, <2>1 DEF Loop!RunImmediate
  <2>4. ASSUME NEW a, Scheduled(a), Adding(c, a) PROVE Turn(c, a)
    <3>1. Leaves(c, q.ticks \o a.ticks, q.micros \o a.micros, q.timers \o a.timers,
                 q.immediates \o a.immediates, q.io \cup a.io)
      BY <2>2, <2>3, <2>4, CallLeaves
    <3>2. /\ q.ticks = ticks /\ q.micros = micros /\ q.timers = timers
          /\ q.immediates = immediates /\ q.io = io
      BY <2>1 DEF Loop!Now
    <3> QED BY <2>2, <2>3, <2>1, <3>1, <3>2 DEF Turn
  <2> QED BY <2>1, <2>2, <2>3, <2>4 DEF Due
<1> QED BY <1>1, <1>2, <1>3, <1>4, <1>5 DEF Loop!LoopNext

LEMMA InTurnStays == InTurn /\ LoopInv /\ [Loop!LoopNext]_(Loop!loopVars) => InTurn'
<1> SUFFICES ASSUME InTurn, LoopInv, [Loop!LoopNext]_(Loop!loopVars) PROVE InTurn'
  OBVIOUS
<1>1. CASE Loop!RunTick \/ Loop!RunMicrotask
  BY <1>1 DEF Loop!RunTick, Loop!RunMicrotask, InTurn
<1>2. CASE Loop!RunTimer \/ Loop!RunIo \/ Loop!RunImmediate
  BY <1>2 DEF Loop!RunTimer, Loop!RunIo, Loop!RunImmediate, InTurn
<1>3. CASE Loop!QueueDrained \/ Loop!IoFails
  BY <1>3 DEF Loop!QueueDrained, Loop!IoFails, Loop!queues, InTurn
<1>4. CASE Loop!NextPhase
  BY <1>4 DEF Loop!NextPhase, InTurn
<1>5. CASE Loop!Answer \/ UNCHANGED Loop!loopVars
  BY <1>5 DEF Loop!Answer, Loop!loopVars, Loop!queues, InTurn
<1> QED BY <1>1, <1>2, <1>3, <1>4, <1>5 DEF Loop!LoopNext

(* What a callback shows, and what a step of the loop itself does.         *)
LEMMA Traced == LoopInv => /\ trace \in Seq(Loop!Callbacks \cup {"done", "failed"})
                           /\ closed => loopResult # "none"
  BY LoopEnds DEF Loop!LoopTypeOK, LoopInv

LEMMA Appended ==
  ASSUME LoopInv, NEW e, trace' = Append(trace, e)
  PROVE  Loop!Shown' = Loop!Shown \cup {e}
<1>1. /\ Len(trace) \in Nat /\ Len(trace') = Len(trace) + 1
      /\ \A i \in 1..Len(trace) : trace'[i] = trace[i]
      /\ trace'[Len(trace) + 1] = e
      /\ DOMAIN trace = 1..Len(trace) /\ DOMAIN trace' = 1..Len(trace')
  <2>1. trace \in Seq(Loop!Callbacks \cup {"done", "failed", e})
    BY Traced
  <2> QED BY <2>1, AppendProperties, LenProperties
<1> QED BY <1>1 DEF Loop!Shown, Loop!ToSet

LEMMA Emitted ==
  ASSUME LoopInv, NEW c, Loop!Emit(c)
  PROVE  /\ closed \/ c \in Loop!Silent => Loop!Shown' = Loop!Shown /\ trace' = trace
         /\ ~closed /\ c \notin Loop!Silent =>
              Loop!Shown' = Loop!Shown \cup {c} /\ trace' = Append(trace, c)
<1>1. CASE closed \/ c \in Loop!Silent
  BY <1>1 DEF Loop!Emit, Loop!Shown
<1>2. CASE ~(closed \/ c \in Loop!Silent)
  BY <1>2, Appended DEF Loop!Emit
<1> QED BY <1>1, <1>2

(* An order is kept by whatever is not of it, and by its next.             *)
LEMMA OrderStays ==
  ASSUME LoopInv, NEW order, DOMAIN order = 1..Len(order), Len(order) \in Nat,
         \A i, k \in 1..Len(order) : order[i] = order[k] => i = k,
         Loop!InOrder(order), NEW e, trace' = Append(trace, e),
         e \in Loop!ToSet(order) => \E n \in 1..Len(order) :
           /\ e = order[n]
           /\ Loop!Shown \cap Loop!ToSet(order) = {order[k] : k \in 1..(n - 1)}
  PROVE  Loop!InOrder(order)'
<1>1. /\ Len(trace) \in Nat /\ Len(trace') = Len(trace) + 1
      /\ \A i \in 1..Len(trace) : trace'[i] = trace[i]
      /\ trace'[Len(trace) + 1] = e
      /\ DOMAIN trace = 1..Len(trace)
  <2>1. trace \in Seq(Loop!Callbacks \cup {"done", "failed", e})
    BY Traced
  <2> QED BY <2>1, AppendProperties, LenProperties
<1>2. ASSUME NEW i \in 1..Len(trace'), NEW m \in 1..Len(order), trace'[i] = order[m]
      PROVE  {trace'[k] : k \in 1..(i - 1)} \cap Loop!ToSet(order) = {order[k] : k \in 1..(m - 1)}
  <2>1. {trace'[k] : k \in 1..(i - 1)} = {trace[k] : k \in 1..(i - 1)}
    BY <1>1
  <2>2. CASE i \in 1..Len(trace)
    BY <1>1, <1>2, <2>1, <2>2 DEF Loop!InOrder
  <2>3. CASE i = Len(trace) + 1
    <3>1. order[m] = e /\ e \in Loop!ToSet(order)
      BY <1>1, <1>2, <2>3 DEF Loop!ToSet
    <3>3. Loop!Shown \cap Loop!ToSet(order) = {order[k] : k \in 1..(m - 1)}
      BY <3>1
    <3>2. {trace[k] : k \in 1..(i - 1)} = Loop!Shown
      BY <1>1, <2>3 DEF Loop!Shown, Loop!ToSet
    <3> QED BY <2>1, <3>2, <3>3
  <2>4. i \in 1..Len(trace) \/ i = Len(trace) + 1
    BY <1>1
  <2> QED BY <2>2, <2>3, <2>4
<1> QED BY <1>2 DEF Loop!InOrder

(* The joins.                                                              *)
LEMMA FullJoin ==
  ASSUME NEW S, IsFiniteSet(S), NEW X
  PROVE  Cardinality(S \cap X) = Cardinality(S) <=> S \subseteq X
<1>1. S \cap X \in SUBSET S
  OBVIOUS
<1>2. Cardinality(S) = Cardinality(S \cap X) => S = S \cap X
  BY <1>1, FS_Subset
<1>3. S \subseteq X => S \cap X = S
  OBVIOUS
<1> QED BY <1>2, <1>3

LEMMA OneMore ==
  ASSUME NEW S, IsFiniteSet(S), NEW x, x \notin S
  PROVE  IsFiniteSet(S \cup {x}) /\ Cardinality(S \cup {x}) = Cardinality(S) + 1
  BY FS_AddElement

LEMMA ThreeOf ==
  ASSUME NEW a, NEW b, NEW c, a \notin {b, c}, b # c
  PROVE  IsFiniteSet({a, b, c}) /\ Cardinality({a, b, c}) = 3
<1>1. IsFiniteSet({c}) /\ Cardinality({c}) = 1
  BY FS_Singleton
<1>2. IsFiniteSet({c} \cup {b}) /\ Cardinality({c} \cup {b}) = 2
  BY <1>1, OneMore
<1>3. /\ IsFiniteSet(({c} \cup {b}) \cup {a})
      /\ Cardinality(({c} \cup {b}) \cup {a}) = Cardinality({c} \cup {b}) + 1
  <2>1. a \notin {c} \cup {b}
    OBVIOUS
  <2> QED BY <1>2, <2>1, OneMore
<1>4. ({c} \cup {b}) \cup {a} = {a, b, c}
  OBVIOUS
<1> QED BY <1>2, <1>3, <1>4

LEMMA FourOf ==
  ASSUME NEW a, NEW b, NEW c, NEW d, a \notin {b, c, d}, b \notin {c, d}, c # d
  PROVE  IsFiniteSet({a, b, c, d}) /\ Cardinality({a, b, c, d}) = 4
<1>1. IsFiniteSet({b, c, d}) /\ Cardinality({b, c, d}) = 3
  BY ThreeOf
<1>2. {b, c, d} \cup {a} = {a, b, c, d}
  OBVIOUS
<1>3. /\ IsFiniteSet({b, c, d} \cup {a})
      /\ Cardinality({b, c, d} \cup {a}) = Cardinality({b, c, d}) + 1
  BY <1>1, OneMore
<1> QED BY <1>1, <1>2, <1>3

LEMMA FiveOf ==
  ASSUME NEW a, NEW b, NEW c, NEW d, NEW e,
         a \notin {b, c, d, e}, b \notin {c, d, e}, c \notin {d, e}, d # e
  PROVE  IsFiniteSet({a, b, c, d, e}) /\ Cardinality({a, b, c, d, e}) = 5
<1>1. IsFiniteSet({b, c, d, e}) /\ Cardinality({b, c, d, e}) = 4
  BY FourOf
<1>2. {b, c, d, e} \cup {a} = {a, b, c, d, e}
  OBVIOUS
<1>3. /\ IsFiniteSet({b, c, d, e} \cup {a})
      /\ Cardinality({b, c, d, e} \cup {a}) = Cardinality({b, c, d, e}) + 1
  BY <1>1, OneMore
<1> QED BY <1>1, <1>2, <1>3

-----------------------------------------------------------------------------
(* eventLoopOrder.  Its first round waits for four of five callbacks, its  *)
(* second for all four.                                                    *)
FirstThree == {"tick", "then", "microtask"}
Outer == FirstThree \cup {"timer", "immediate"}
IoOrder == <<"ioTick", "ioThen", "ioImmediate", "ioTimer">>
Inner == {"ioTick", "ioThen", "ioImmediate", "ioTimer"}

LEMMA RoundJoins ==
  ASSUME loopDemo = "order", NEW c
  PROVE  /\ c \notin Outer \cup Inner => Loop!Completed(c) = {}
         /\ c \in FirstThree /\ Loop!Shown \subseteq FirstThree => Loop!Completed(c) = {}
         /\ c \in {"timer", "immediate"} /\ Loop!Shown = FirstThree =>
              \E j : Loop!Completed(c) = {j} /\ j.next = Loop!Then("outer")
         /\ c \in Outer /\ Outer \subseteq Loop!Shown \cup {c} => Loop!Completed(c) = {}
         /\ c \in Inner /\ ~(Inner \subseteq Loop!Shown \cup {c}) => Loop!Completed(c) = {}
         /\ c \in Inner /\ Inner \subseteq Loop!Shown \cup {c} =>
              \E j : Loop!Completed(c) = {j} /\ j.next = Loop!Then("result")
<1>0. PICK round, io2 : /\ round = Loop!Join(Outer, 4, Loop!Then("outer"))
                        /\ io2 = Loop!Join(Inner, 4, Loop!Then("result"))
  OBVIOUS
<1>1. Loop!Joins = {round, io2}
  <2>1. /\ Outer = {"tick", "then", "microtask", "timer", "immediate"}
        /\ Inner = {"ioTick", "ioThen", "ioTimer", "ioImmediate"}
    BY DEF Outer, FirstThree, Inner
  <2> QED BY <1>0, <2>1 DEF Loop!Joins, Loop!EventLoopJoins
<1>2. /\ round.of = Outer /\ round.count = 4 /\ round.next = Loop!Then("outer")
      /\ io2.of = Inner /\ io2.count = 4 /\ io2.next = Loop!Then("result")
  BY <1>0 DEF Loop!Join
<1>3. \A j : j \in Loop!Completed(c) <=>
        /\ j \in {round, io2} /\ c \in j.of
        /\ Cardinality(j.of \cap (Loop!Shown \cup {c})) = j.count
  BY <1>1 DEF Loop!Completed, Loop!Cardinality, Cardinality
<1>4. Outer \cap Inner = {} /\ FirstThree \subseteq Outer
  BY DEF Outer, Inner, FirstThree
<1>5. /\ round \in Loop!Completed(c) <=>
           c \in Outer /\ Cardinality(Outer \cap (Loop!Shown \cup {c})) = 4
      /\ io2 \in Loop!Completed(c) <=>
           c \in Inner /\ Cardinality(Inner \cap (Loop!Shown \cup {c})) = 4
  BY <1>2, <1>3
<1>6. IsFiniteSet(Inner) /\ Cardinality(Inner) = 4
  BY FourOf DEF Inner
<1>7. Cardinality(Inner \cap (Loop!Shown \cup {c})) = 4 <=> Inner \subseteq Loop!Shown \cup {c}
  BY <1>6, FullJoin
<1>8. ASSUME c \in FirstThree, Loop!Shown \subseteq FirstThree
      PROVE  Cardinality(Outer \cap (Loop!Shown \cup {c})) # 4
  <2>1. IsFiniteSet(FirstThree) /\ Cardinality(FirstThree) = 3
    BY ThreeOf DEF FirstThree
  <2>2. Outer \cap (Loop!Shown \cup {c}) \in SUBSET FirstThree
    BY <1>8
  <2>3. Cardinality(Outer \cap (Loop!Shown \cup {c})) \in Nat
    BY <2>1, <2>2, FS_Subset, FS_CardinalityType
  <2> QED BY <2>1, <2>2, <2>3, FS_Subset
<1>9. ASSUME c \in {"timer", "immediate"}, Loop!Shown = FirstThree
      PROVE  Cardinality(Outer \cap (Loop!Shown \cup {c})) = 4
  <2>1. Outer \cap (Loop!Shown \cup {c}) = {"tick", "then", "microtask", c}
    BY <1>9 DEF Outer, FirstThree
  <2>2. /\ "tick" \notin {"then", "microtask", c} /\ "then" \notin {"microtask", c}
        /\ "microtask" # c
    BY <1>9
  <2>3. Cardinality({"tick", "then", "microtask", c}) = 4
    BY <2>2, FourOf
  <2> QED BY <2>1, <2>3
<1>10. ASSUME Outer \subseteq Loop!Shown \cup {c}
       PROVE  Cardinality(Outer \cap (Loop!Shown \cup {c})) # 4
  <2>1. Outer \cap (Loop!Shown \cup {c}) = Outer
    BY <1>10
  <2>2. Outer = {"tick", "then", "microtask", "timer", "immediate"}
    BY DEF Outer, FirstThree
  <2>3. Cardinality({"tick", "then", "microtask", "timer", "immediate"}) = 5
    <3>1. /\ "tick" \notin {"then", "microtask", "timer", "immediate"}
          /\ "then" \notin {"microtask", "timer", "immediate"}
          /\ "microtask" \notin {"timer", "immediate"} /\ "timer" # "immediate"
      OBVIOUS
    <3> QED BY <3>1, FiveOf
  <2> QED BY <2>1, <2>2, <2>3
<1>11. "timer" \in Outer /\ "immediate" \in Outer
  BY DEF Outer
<1>12. c \notin Outer /\ (c \notin Inner \/ ~(Inner \subseteq Loop!Shown \cup {c})) => Loop!Completed(c) = {}
  BY <1>3, <1>5, <1>7
<1>13. c \in Outer /\ Cardinality(Outer \cap (Loop!Shown \cup {c})) # 4 => Loop!Completed(c) = {}
  BY <1>3, <1>4, <1>5
<1>14. c \in Outer /\ Cardinality(Outer \cap (Loop!Shown \cup {c})) = 4 => Loop!Completed(c) = {round}
  <2>1. ASSUME c \in Outer, Cardinality(Outer \cap (Loop!Shown \cup {c})) = 4, NEW j
        PROVE  j \in Loop!Completed(c) <=> j = round
    BY <1>3, <1>4, <1>5, <2>1
  <2> QED BY <2>1
<1>15. c \in Inner /\ Inner \subseteq Loop!Shown \cup {c} => Loop!Completed(c) = {io2}
  <2>1. ASSUME c \in Inner, Inner \subseteq Loop!Shown \cup {c}, NEW j
        PROVE  j \in Loop!Completed(c) <=> j = io2
    BY <1>3, <1>4, <1>5, <1>7, <2>1
  <2> QED BY <2>1
<1> QED BY <1>2, <1>4, <1>8, <1>9, <1>10, <1>11, <1>12, <1>13, <1>14, <1>15

LEMMA RoundSchedules ==
  ASSUME loopDemo = "order", NEW c
  PROVE  /\ c \notin {"main", "outer", "sleep", "outerResult", "readFile"} =>
              Loop!Schedules(c) = Loop!None
         /\ c = "outer" => Loop!Schedules(c) =
              IF {"timer", "immediate"} \subseteq Loop!Shown THEN Loop!Then("outerResult")
              ELSE Loop!Sleep(1, "sleep")
         /\ c = "sleep" => Loop!Schedules(c) = Loop!Then("outer")
         /\ c = "outerResult" => Loop!Schedules(c) = Loop!Adds(<<>>, <<>>, <<>>, <<>>, {"readFile"})
         /\ c = "readFile" => Loop!Schedules(c) = Loop!IoRound
  BY DEF Loop!Schedules, Loop!EventLoopOrder

(* Short queues.                                                           *)
LEMMA Short ==
  /\ \A x : <<x>> # <<>> /\ Head(<<x>>) = x /\ Tail(<<x>>) = <<>> /\ Len(<<x>>) = 1
  /\ \A x, y : Head(<<x, y>>) = x /\ Tail(<<x, y>>) = <<y>> /\ Len(<<x, y>>) = 2
  /\ \A x : <<>> \o <<x>> = <<x>> /\ <<x>> \o <<>> = <<x>>
  /\ \A x, y : <<x>> \o <<y>> = <<x, y>>
<1>1. ASSUME NEW x PROVE <<x>> # <<>> /\ Head(<<x>>) = x /\ Tail(<<x>>) = <<>> /\ Len(<<x>>) = 1
  OBVIOUS
<1>2. ASSUME NEW x, NEW y PROVE Head(<<x, y>>) = x /\ Tail(<<x, y>>) = <<y>> /\ Len(<<x, y>>) = 2
  OBVIOUS
<1>3. ASSUME NEW x PROVE <<>> \o <<x>> = <<x>> /\ <<x>> \o <<>> = <<x>>
  OBVIOUS
<1>4. ASSUME NEW x, NEW y PROVE <<x>> \o <<y>> = <<x, y>>
  <2>1. <<x>> \in Seq({x, y}) /\ <<y>> \in Seq({x, y}) /\ <<x, y>> \in Seq({x, y})
    OBVIOUS
  <2>2. /\ <<x>> \o <<y>> \in Seq({x, y}) /\ Len(<<x>> \o <<y>>) = 2
        /\ (<<x>> \o <<y>>)[1] = x /\ (<<x>> \o <<y>>)[2] = y
    BY <2>1, ConcatProperties
  <2>3. \A i \in 1..Len(<<x>> \o <<y>>) : (<<x>> \o <<y>>)[i] = <<x, y>>[i]
    BY <2>2
  <2>4. Len(<<x>> \o <<y>>) = Len(<<x, y>>)
    BY <2>2
  <2> QED BY <2>1, <2>2, <2>3, <2>4, SeqEqual
<1> QED BY <1>1, <1>2, <1>3, <1>4

LEMMA HeadTailSets ==
  ASSUME NEW S, NEW s \in Seq(S), s # <<>>
  PROVE  Tail(s) \in Seq(S) /\ Loop!ToSet(s) = {Head(s)} \cup Loop!ToSet(Tail(s))
<1>1. /\ Len(s) \in Nat /\ DOMAIN s = 1..Len(s) /\ Head(s) = s[1] /\ Len(s) > 0
      /\ Tail(s) \in Seq(S) /\ Len(Tail(s)) = Len(s) - 1 /\ DOMAIN Tail(s) = 1..(Len(s) - 1)
      /\ \A i \in 1..(Len(s) - 1) : Tail(s)[i] = s[i + 1]
  BY HeadTailProperties, LenProperties, EmptySeq
<1>2. PICK n \in Nat : n = Len(s)
  BY <1>1
<1>3. ASSUME NEW x \in Loop!ToSet(s) PROVE x \in {Head(s)} \cup Loop!ToSet(Tail(s))
  <2>1. PICK i \in 1..n : x = s[i]
    BY <1>1, <1>2, <1>3 DEF Loop!ToSet
  <2>2. CASE i = 1
    BY <1>1, <2>1, <2>2
  <2>3. CASE i > 1
    <3>1. i - 1 \in 1..(n - 1) /\ Tail(s)[i - 1] = x
      BY <1>1, <1>2, <2>1, <2>3
    <3> QED BY <1>1, <1>2, <3>1 DEF Loop!ToSet
  <2> QED BY <2>2, <2>3
<1>4. ASSUME NEW x \in {Head(s)} \cup Loop!ToSet(Tail(s)) PROVE x \in Loop!ToSet(s)
  <2>1. CASE x = Head(s)
    BY <1>1, <2>1 DEF Loop!ToSet
  <2>2. ASSUME NEW i \in 1..(n - 1), x = Tail(s)[i] PROVE x \in Loop!ToSet(s)
    <3>1. i + 1 \in 1..n /\ s[i + 1] = x
      BY <1>1, <1>2, <2>2
    <3> QED BY <1>1, <1>2, <3>1 DEF Loop!ToSet
  <2> QED BY <1>1, <1>2, <1>4, <2>1, <2>2 DEF Loop!ToSet
<1> QED BY <1>1, <1>3, <1>4

(* The queues hold these, and a batch or the check phase to come this.     *)
Soon(list) == \/ immediates = list /\ batch = <<>>
              \/ immediates = <<>> /\ batch = list
Queues(t, m, ti, list, i) ==
  ticks = t /\ micros = m /\ timers = ti /\ Soon(list) /\ io = i

(* The promise of the outer round: its callback, or the timer that brings  *)
(* it back, behind the timers ti.                                          *)
Waiting(ti, list) ==
  \/ Queues(<<>>, <<"outer">>, ti, list, {})
  \/ Queues(<<>>, <<>>, ti \o << <<1, "sleep">> >>, list, {})

Begun ==
  /\ ticks \in Seq(FirstThree) /\ micros \in Seq(FirstThree)
  /\ Loop!Shown \subseteq FirstThree
  /\ FirstThree \subseteq Loop!Shown \cup Loop!ToSet(ticks) \cup Loop!ToSet(micros)
  /\ timers = << <<1, "timer">> >> /\ Soon(<<"immediate">>) /\ io = {}
FourShown ==
  \/ /\ Loop!Shown = FirstThree \cup {"timer"}
     /\ Waiting(<<>>, <<"immediate">>)
  \/ /\ Loop!Shown = FirstThree \cup {"immediate"}
     /\ Waiting(<< <<1, "timer">> >>, <<>>)
FiveShown == Loop!Shown = Outer /\ Waiting(<<>>, <<>>)
OuterOver == Loop!Shown = Outer /\ Queues(<<>>, <<"outerResult">>, <<>>, <<>>, {})
Reads == /\ Loop!Shown = Outer \cup {"outerResult"}
         /\ Queues(<<>>, <<>>, <<>>, <<>>, {"readFile"})

(* Inside I/O: the check phase comes before the timers.                    *)
InsideIo ==
  \/ loopAt = "poll" /\ immediates = <<"ioImmediate">> /\ batch = <<>>
  \/ loopAt = "check" /\ immediates = <<>> /\ batch = <<"ioImmediate">>
InIo(t, m, more) ==
  /\ ticks = t /\ micros = m /\ timers = << <<1, "ioTimer">> >> /\ io = {} /\ InsideIo
  /\ Loop!Shown = Outer \cup {"outerResult", "readFile"} \cup more
ReadDone ==
  \/ InIo(<<"ioTick">>, <<"ioThen">>, {}) /\ draining = "ticks"
  \/ InIo(<<>>, <<"ioThen">>, {"ioTick"})
  \/ InIo(<<>>, <<>>, {"ioTick", "ioThen"})
AfterIo(m, ti, more) ==
  /\ Loop!Shown = Outer \cup {"outerResult", "readFile", "ioTick", "ioThen", "ioImmediate"} \cup more
  /\ Queues(<<>>, m, ti, <<>>, {})
Ending ==
  \/ AfterIo(<<>>, << <<1, "ioTimer">> >>, {})
  \/ AfterIo(<<"result">>, <<>>, {"ioTimer"})

Finished == loopResult # "none" /\ Queues(<<>>, <<>>, <<>>, <<>>, {})

RoundInv ==
  /\ Loop!InOrder(IoOrder)
  /\ "outerResult" \in Loop!Shown => Outer \subseteq Loop!Shown
  /\ \/ Finished
     \/ /\ loopResult = "none"
        /\ Begun \/ FourShown \/ FiveShown \/ OuterOver \/ Reads \/ ReadDone \/ Ending

(* A callback that shows nothing of an order leaves it as it is.           *)
LEMMA IoOrderFacts ==
  /\ DOMAIN IoOrder = 1..Len(IoOrder) /\ Len(IoOrder) = 4
  /\ \A i, k \in 1..Len(IoOrder) : IoOrder[i] = IoOrder[k] => i = k
  /\ Loop!ToSet(IoOrder) = Inner
  /\ IoOrder[1] = "ioTick" /\ IoOrder[2] = "ioThen"
  /\ IoOrder[3] = "ioImmediate" /\ IoOrder[4] = "ioTimer"
  BY DEF IoOrder, Loop!ToSet, Inner

LEMMA RoundKeepsOrder ==
  ASSUME LoopInv, Loop!InOrder(IoOrder), NEW c, Loop!Emit(c),
         c \in Inner => \E n \in 1..4 :
           c = IoOrder[n] /\ Loop!Shown \cap Inner = {IoOrder[k] : k \in 1..(n - 1)}
  PROVE  Loop!InOrder(IoOrder)'
<1>1. CASE trace' = trace
  BY <1>1 DEF Loop!InOrder
<1>2. CASE trace' = Append(trace, c)
  <2>1. c \in Loop!ToSet(IoOrder) => \E n \in 1..Len(IoOrder) :
          /\ c = IoOrder[n]
          /\ Loop!Shown \cap Loop!ToSet(IoOrder) = {IoOrder[k] : k \in 1..(n - 1)}
    BY IoOrderFacts
  <2> QED BY <1>2, <2>1, OrderStays, IoOrderFacts
<1> QED BY <1>1, <1>2, Emitted

LEMMA NoneAdded ==
  ASSUME LoopInv, NEW c, Turn(c, Loop!None)
  PROVE  /\ Loop!Emit(c)
         /\ loopResult' = IF c = "result" /\ loopResult = "none" THEN "done" ELSE loopResult
         /\ UNCHANGED <<loopDemo, closed>>
         /\ \/ /\ draining = "ticks" /\ ticks # <<>> /\ c = Head(ticks) /\ ticks' = Tail(ticks)
               /\ UNCHANGED <<micros, timers, immediates, io, loopAt, draining, batch>>
            \/ /\ draining = "micros" /\ micros # <<>> /\ c = Head(micros) /\ micros' = Tail(micros)
               /\ UNCHANGED <<ticks, timers, immediates, io, loopAt, draining, batch>>
            \/ /\ draining = "none" /\ loopAt = "timers"
               /\ \E i \in 1..Len(timers) :
                    /\ \A k \in 1..(i - 1) : timers[k][1] > timers[i][1]
                    /\ c = timers[i][2] /\ timers' = Loop!RemoveAt(timers, i)
               /\ draining' = "ticks" /\ UNCHANGED <<ticks, micros, immediates, io, loopAt, batch>>
            \/ /\ draining = "none" /\ loopAt = "poll" /\ c \in io /\ io' = io \ {c}
               /\ draining' = "ticks"
               /\ UNCHANGED <<ticks, micros, timers, immediates, loopAt, batch>>
            \/ /\ draining = "none" /\ loopAt = "check" /\ batch # <<>> /\ c = Head(batch)
               /\ batch' = Tail(batch) /\ draining' = "ticks"
               /\ UNCHANGED <<ticks, micros, timers, immediates, io, loopAt>>
<1>1. /\ ticks \in Seq(Loop!Callbacks) /\ micros \in Seq(Loop!Callbacks)
      /\ immediates \in Seq(Loop!Callbacks) /\ timers \in Seq(Nat \X Loop!Callbacks)
  BY DEF LoopInv, Scheduled, Loop!Now
<1>2. /\ ticks # <<>> => Tail(ticks) \in Seq(Loop!Callbacks)
      /\ micros # <<>> => Tail(micros) \in Seq(Loop!Callbacks)
      /\ \A i \in 1..Len(timers) : Loop!RemoveAt(timers, i) \in Seq(Nat \X Loop!Callbacks)
  BY <1>1, HeadTailProperties, TimerTaken
<1>3. /\ ticks \o <<>> = ticks /\ micros \o <<>> = micros /\ timers \o <<>> = timers
      /\ immediates \o <<>> = immediates
      /\ ticks # <<>> => Tail(ticks) \o <<>> = Tail(ticks)
      /\ micros # <<>> => Tail(micros) \o <<>> = Tail(micros)
      /\ \A i \in 1..Len(timers) : Loop!RemoveAt(timers, i) \o <<>> = Loop!RemoveAt(timers, i)
  BY <1>1, <1>2, Empties
<1>4. /\ Loop!None.ticks = <<>> /\ Loop!None.micros = <<>> /\ Loop!None.timers = <<>>
      /\ Loop!None.immediates = <<>> /\ Loop!None.io = {}
  BY DEF Loop!None, Loop!Adds
<1> QED BY <1>3, <1>4 DEF Turn, Leaves

LEMMA ThenAdded ==
  ASSUME LoopInv, InTurn, NEW c, NEW d \in Loop!Callbacks, Turn(c, Loop!Then(d)),
         ticks = <<>>, micros = <<>> \/ micros = <<c>>
  PROVE  /\ Loop!Emit(c)
         /\ loopResult' = IF c = "result" /\ loopResult = "none" THEN "done" ELSE loopResult
         /\ UNCHANGED <<loopDemo, closed>>
         /\ ticks' = <<>> /\ micros' = <<d>> /\ immediates' = immediates
         /\ \/ micros = <<c>> /\ UNCHANGED <<timers, io, loopAt, draining, batch>>
            \/ /\ micros = <<>> /\ loopAt = "timers"
               /\ \E i \in 1..Len(timers) :
                    /\ \A k \in 1..(i - 1) : timers[k][1] > timers[i][1]
                    /\ c = timers[i][2] /\ timers' = Loop!RemoveAt(timers, i)
               /\ draining' = "ticks" /\ UNCHANGED <<io, loopAt, batch>>
            \/ /\ micros = <<>> /\ loopAt = "poll" /\ c \in io /\ io' = io \ {c}
               /\ draining' = "ticks" /\ UNCHANGED <<timers, loopAt, batch>>
            \/ /\ micros = <<>> /\ loopAt = "check" /\ batch # <<>> /\ c = Head(batch)
               /\ batch' = Tail(batch) /\ draining' = "ticks" /\ UNCHANGED <<timers, io, loopAt>>
<1>1. /\ immediates \in Seq(Loop!Callbacks) /\ timers \in Seq(Nat \X Loop!Callbacks)
  BY DEF LoopInv, Scheduled, Loop!Now
<1>2. \A i \in 1..Len(timers) : Loop!RemoveAt(timers, i) \in Seq(Nat \X Loop!Callbacks)
  BY <1>1, TimerTaken
<1>3. /\ timers \o <<>> = timers /\ immediates \o <<>> = immediates
      /\ \A i \in 1..Len(timers) : Loop!RemoveAt(timers, i) \o <<>> = Loop!RemoveAt(timers, i)
  BY <1>1, <1>2, Empties
<1>4. PICK a : a = Loop!Then(d)
  OBVIOUS
<1>5. /\ a.ticks = <<>> /\ a.micros = <<d>> /\ a.timers = <<>> /\ a.immediates = <<>> /\ a.io = {}
  BY <1>4 DEF Loop!Then, Loop!Adds
<1>6. /\ <<>> \o <<>> = <<>> /\ <<>> \o <<d>> = <<d>>
      /\ Tail(<<c>>) = <<>> /\ Head(<<c>>) = c /\ <<c>> # <<>>
  BY Short, Empties
<1>7. Turn(c, a)
  BY <1>4
<1>8. CASE draining = "micros"
  <2>1. /\ c = Head(micros) /\ micros # <<>>
        /\ Leaves(c, ticks \o a.ticks, Tail(micros) \o a.micros, timers \o a.timers,
                  immediates \o a.immediates, io \cup a.io)
        /\ UNCHANGED <<loopAt, draining, batch>>
    BY <1>7, <1>8 DEF Turn
  <2> QED BY <1>3, <1>5, <1>6, <2>1 DEF Leaves
<1>9. CASE draining # "micros"
  <2>1. draining = "none" /\ micros = <<>>
    BY <1>6, <1>7, <1>9 DEF Turn, InTurn
  <2>2. ticks \o a.ticks = <<>> /\ micros \o a.micros = <<d>> /\ timers \o a.timers = timers
        /\ immediates \o a.immediates = immediates /\ io \cup a.io = io
        /\ (io \ {c}) \cup a.io = io \ {c}
        /\ \A i \in 1..Len(timers) : Loop!RemoveAt(timers, i) \o a.timers = Loop!RemoveAt(timers, i)
    BY <1>3, <1>5, <1>6, <2>1
  <2> QED BY <1>7, <2>1, <2>2 DEF Turn, Leaves
<1> QED BY <1>8, <1>9

LEMMA SameTrace ==
  ASSUME trace' = trace
  PROVE  /\ Loop!Shown' = Loop!Shown
         /\ Loop!InOrder(IoOrder) => Loop!InOrder(IoOrder)'
<1>1. Loop!InOrder(IoOrder) => Loop!InOrder(IoOrder)'
  BY DEF Loop!InOrder
<1> QED BY <1>1 DEF Loop!Shown

LEMMA QuietRound ==
  ASSUME LoopInv, InTurn, loopDemo = "order", RoundInv,
         Loop!QueueDrained \/ Loop!IoFails \/ Loop!NextPhase \/ Loop!Answer
  PROVE  RoundInv'
<1>1. CASE Loop!QueueDrained
  <2>1. /\ UNCHANGED <<ticks, micros, timers, immediates, io, batch, trace, loopResult, loopAt>>
        /\ draining' = "ticks" \/ ticks = <<>>
    BY <1>1 DEF Loop!QueueDrained, Loop!queues
  <2>2. /\ Begun => Begun'
        /\ FourShown => FourShown'
        /\ FiveShown => FiveShown'
        /\ OuterOver => OuterOver'
        /\ Reads => Reads'
        /\ ReadDone => ReadDone'
        /\ Ending => Ending'
        /\ Finished => Finished'
    BY <2>1
    DEF Begun, FourShown, FiveShown, OuterOver, Reads, ReadDone, Ending, Finished, Waiting, InIo,
        InsideIo, AfterIo, Queues, Soon, Loop!Shown
  <2>3. loopResult' = loopResult /\ Loop!Shown' = Loop!Shown /\ Loop!InOrder(IoOrder)'
    BY <2>1, SameTrace DEF RoundInv
  <2> QED BY <2>2, <2>3 DEF RoundInv
<1>2. CASE Loop!NextPhase
  <2>1. /\ UNCHANGED <<ticks, micros, timers, io, trace, loopResult>>
        /\ batch = <<>> /\ draining = "none" /\ ticks = <<>> /\ micros = <<>>
        /\ \/ UNCHANGED <<immediates, batch>> /\ loopAt # "poll"
           \/ batch' = immediates /\ immediates' = <<>> /\ loopAt = "poll" /\ loopAt' = "check"
    BY <1>2 DEF Loop!NextPhase, InTurn
  <2>2. /\ Begun => Begun'
        /\ FourShown => FourShown'
        /\ FiveShown => FiveShown'
        /\ OuterOver => OuterOver'
        /\ Reads => Reads'
        /\ Ending => Ending'
        /\ Finished => Finished'
    BY <2>1
    DEF Begun, FourShown, FiveShown, OuterOver, Reads, Ending, Finished, Waiting, AfterIo, Queues,
        Soon, Loop!Shown
  <2>3. ReadDone => ReadDone'
    BY <2>1 DEF ReadDone, InIo, InsideIo, Loop!Shown
  <2>4. loopResult' = loopResult /\ Loop!Shown' = Loop!Shown /\ Loop!InOrder(IoOrder)'
    BY <2>1, SameTrace DEF RoundInv
  <2> QED BY <2>2, <2>3, <2>4 DEF RoundInv
<1>3. CASE Loop!IoFails
  <2>1. /\ UNCHANGED <<ticks, micros, timers, immediates, batch, trace>>
        /\ \E c \in io : io' = io \ {c}
        /\ loopResult = "none" => loopResult' = "failed"
    BY <1>3 DEF Loop!IoFails
  <2>2. loopResult = "none" /\ Reads
    BY <2>1
    DEF RoundInv, Begun, FourShown, FiveShown, OuterOver, ReadDone, Ending, Finished, Waiting, InIo,
        AfterIo, Queues
  <2>3. Finished'
    BY <2>1, <2>2 DEF Reads, Finished, Queues, Soon
  <2> QED BY <2>1, <2>3, SameTrace DEF RoundInv
<1>4. CASE Loop!Answer
  <2>1. /\ UNCHANGED <<ticks, micros, timers, immediates, io, batch, loopResult>>
        /\ loopResult \in {"done", "failed"} /\ trace' = Append(trace, loopResult)
    BY <1>4 DEF Loop!Answer, Loop!queues, LoopInv
  <2>2. Finished /\ Finished'
    BY <2>1 DEF RoundInv, Finished, Queues, Soon
  <2>3. Loop!Shown' = Loop!Shown \cup {loopResult}
    BY <2>1, Appended
  <2>4. "outerResult" # loopResult
    BY <2>1
  <2>5. Loop!InOrder(IoOrder)'
    <3>1. loopResult \notin Loop!ToSet(IoOrder)
      BY <2>1, IoOrderFacts DEF Inner
    <3>2. PICK e : e = loopResult
      OBVIOUS
    <3> QED BY <2>1, <3>1, <3>2, OrderStays, IoOrderFacts DEF RoundInv
  <2> QED BY <2>2, <2>3, <2>4, <2>5 DEF RoundInv
<1> QED BY <1>1, <1>2, <1>3, <1>4

LEMMA BegunTurn ==
  ASSUME LoopInv, InTurn, loopDemo = "order", RoundInv, loopResult = "none", Begun,
         NEW c \in Loop!Callbacks, Due(c), \A a : Scheduled(a) /\ Adding(c, a) => Turn(c, a)
  PROVE  RoundInv'
<1>0. ~closed
  BY DEF LoopInv
<1>1. CASE c \in FirstThree
  <2>1. Turn(c, Loop!None)
    <3>1. Loop!Completed(c) = {} /\ Loop!Schedules(c) = Loop!None
      BY <1>1, RoundJoins, RoundSchedules DEF Begun, FirstThree
    <3> QED BY <3>1, Scheduling DEF Adding
  <2>2. Loop!Emit(c) /\ loopResult' = "none"
    BY <1>1, <2>1, NoneAdded DEF FirstThree
  <2>3. Loop!Shown' = Loop!Shown \cup {c}
    BY <1>0, <1>1, <2>2, Emitted DEF FirstThree, Loop!Silent
  <2>4. /\ UNCHANGED <<timers, immediates, batch, io>>
        /\ \/ ticks # <<>> /\ c = Head(ticks) /\ ticks' = Tail(ticks) /\ micros' = micros
           \/ micros # <<>> /\ c = Head(micros) /\ micros' = Tail(micros) /\ ticks' = ticks
    <3>1. \A i \in 1..Len(timers) : timers[i][2] = "timer"
      BY DEF Begun
    <3>2. batch # <<>> => Head(batch) = "immediate"
      BY Short DEF Begun, Soon
    <3> QED BY <1>1, <2>1, <3>1, <3>2, NoneAdded DEF Begun, FirstThree
  <2>5. \A s \in Seq(FirstThree) : s # <<>> =>
          Tail(s) \in Seq(FirstThree) /\ Loop!ToSet(s) = {Head(s)} \cup Loop!ToSet(Tail(s))
    BY HeadTailSets
  <2>6. Begun'
    BY <1>1, <2>3, <2>4, <2>5 DEF Begun, Soon
  <2>7. Loop!InOrder(IoOrder)'
    BY <1>1, <2>2, RoundKeepsOrder DEF RoundInv, FirstThree, Inner
  <2> QED BY <1>1, <2>2, <2>3, <2>6, <2>7 DEF RoundInv, FirstThree, Begun
<1>2. CASE c \notin FirstThree
  <2>1. ticks = <<>> /\ micros = <<>>
    <3>1. ticks # <<>> => Head(ticks) \in FirstThree
      BY HeadTailProperties DEF Begun
    <3>2. micros # <<>> => Head(micros) \in FirstThree
      BY HeadTailProperties DEF Begun
    <3> QED BY <1>2, <3>1, <3>2 DEF Due, InTurn
  <2>2. Loop!Shown = FirstThree
    <3>1. Loop!ToSet(<<>>) = {}
      BY DEF Loop!ToSet
    <3> QED BY <2>1, <3>1 DEF Begun
  <2>3. c \in {"timer", "immediate"}
    <3>1. \A i \in 1..Len(timers) : timers[i][2] = "timer"
      BY DEF Begun
    <3>2. batch # <<>> => Head(batch) = "immediate"
      BY Short DEF Begun, Soon
    <3> QED BY <2>1, <3>1, <3>2 DEF Due, Begun
  <2>4. Turn(c, Loop!Then("outer"))
    <3>1. Loop!Schedules(c) = Loop!None
      BY <2>3, RoundSchedules
    <3>2. \E j : Loop!Completed(c) = {j} /\ j.next = Loop!Then("outer")
      BY <2>2, <2>3, RoundJoins
    <3> QED BY <3>1, <3>2, Scheduling, Names DEF Adding
  <2>5. PICK a : a = Loop!Then("outer")
    OBVIOUS
  <2>6. /\ a.ticks = <<>> /\ a.micros = <<"outer">> /\ a.timers = <<>> /\ a.immediates = <<>>
        /\ a.io = {}
    BY <2>5 DEF Loop!Then, Loop!Adds
  <2>7. /\ Loop!Emit(c) /\ loopResult' = "none"
        /\ ticks' = <<>> /\ micros' = <<"outer">> /\ io' = {}
        /\ \/ /\ c = "timer" /\ timers' = <<>> /\ UNCHANGED <<immediates, batch>>
           \/ /\ c = "immediate" /\ timers' = timers /\ immediates' = <<>> /\ batch' = <<>>
    <3>1. Turn(c, a)
      BY <2>4, <2>5
    <3>2. timers = << <<1, "timer">> >> /\ Len(timers) = 1 /\ timers \in Seq(Nat \X Loop!Callbacks)
      BY DEF Begun, LoopInv, Scheduled, Loop!Now
    <3>3. \A i \in 1..Len(timers) : timers[i][2] = "timer" /\ Loop!RemoveAt(timers, i) = <<>>
      <4>1. PICK s \in Seq(Nat \X Loop!Callbacks) : s = timers
        BY <3>2
      <4>2. 1 \in 1..Len(s) /\ Tail(s) = <<>>
        BY <3>2, <4>1, Short
      <4>3. Loop!RemoveAt(s, 1) = <<>>
        BY <4>2, TimerTaken
      <4> QED BY <3>2, <4>1, <4>3
    <3>4. immediates \o <<>> = immediates /\ timers \o <<>> = timers
      BY Empties DEF LoopInv, Scheduled, Loop!Now
    <3>5. <<>> \o <<>> = <<>> /\ <<>> \o <<"outer">> = <<"outer">> /\ Tail(<<"immediate">>) = <<>>
          /\ Head(<<"immediate">>) = "immediate"
      BY Short, Empties
    <3>6. /\ Leaves(c, ticks', micros', timers', immediates', io')
          /\ ticks' = ticks \o a.ticks /\ micros' = micros \o a.micros
      BY <2>1, <3>1 DEF Turn, Leaves
    <3>7. \/ c = "timer" /\ timers' = <<>> /\ io' = {} /\ UNCHANGED <<immediates, batch>>
          \/ /\ c = Head(batch) /\ batch # <<>> /\ timers' = timers /\ io' = {}
             /\ immediates' = immediates /\ batch' = Tail(batch)
      BY <2>1, <2>6, <3>1, <3>3, <3>4, <3>5 DEF Turn, Leaves, Begun
    <3>8. Loop!Emit(c) /\ loopResult' = "none"
      BY <2>3, <3>6 DEF Leaves
    <3> QED BY <2>1, <2>6, <3>5, <3>6, <3>7, <3>8 DEF Begun, Soon
  <2>8. Loop!Shown' = Loop!Shown \cup {c}
    BY <1>0, <2>3, <2>7, Emitted DEF Loop!Silent
  <2>9. FourShown'
    BY <2>2, <2>7, <2>8 DEF FourShown, Waiting, Queues, Soon, Begun
  <2>10. Loop!InOrder(IoOrder)'
    BY <2>3, <2>7, RoundKeepsOrder DEF RoundInv, Inner
  <2> QED BY <2>2, <2>3, <2>7, <2>8, <2>9, <2>10 DEF RoundInv, FirstThree
<1> QED BY <1>1, <1>2

LEMMA OneTimer ==
  ASSUME NEW ms \in Nat, NEW c \in Loop!Callbacks, timers = << <<ms, c>> >>
  PROVE  /\ Len(timers) = 1 /\ timers[1][2] = c
         /\ \A i \in 1..Len(timers) : timers[i][2] = c /\ Loop!RemoveAt(timers, i) = <<>>
<1>1. PICK s \in Seq(Nat \X Loop!Callbacks) : s = << <<ms, c>> >>
  OBVIOUS
<1>2. Len(s) = 1 /\ 1 \in 1..Len(s) /\ s[1][2] = c /\ Tail(s) = <<>>
  BY <1>1, Short
<1>3. Loop!RemoveAt(s, 1) = <<>>
  BY <1>2, TimerTaken
<1> QED BY <1>1, <1>2, <1>3

LEMMA TwoTimers ==
  ASSUME NEW c \in Loop!Callbacks, NEW d \in Loop!Callbacks,
         timers = << <<1, c>> >> \o << <<1, d>> >>
  PROVE  \A i \in 1..Len(timers) : (\A k \in 1..(i - 1) : timers[k][1] > timers[i][1]) =>
           timers[i][2] = c /\ Loop!RemoveAt(timers, i) = << <<1, d>> >>
<1>0. PICK p \in Nat \X Loop!Callbacks, q \in Nat \X Loop!Callbacks : p = <<1, c>> /\ q = <<1, d>>
  OBVIOUS
<1>1. PICK s \in Seq(Nat \X Loop!Callbacks) : s = << <<1, c>>, <<1, d>> >>
  <2>1. <<p, q>> \in Seq(Nat \X Loop!Callbacks)
    OBVIOUS
  <2> QED BY <1>0, <2>1
<1>2. timers = s
  BY <1>1, Short
<1>3. Len(s) = 2 /\ 1 \in 1..Len(s) /\ s[1] = <<1, c>> /\ s[2] = <<1, d>> /\ Tail(s) = << <<1, d>> >>
  BY <1>1, Short
<1>4. Loop!RemoveAt(s, 1) = << <<1, d>> >>
  BY <1>3, TimerTaken
<1>5. ASSUME NEW i \in 1..Len(s), \A k \in 1..(i - 1) : s[k][1] > s[i][1]
      PROVE  s[i][2] = c /\ Loop!RemoveAt(s, i) = << <<1, d>> >>
  <2>1. i = 1
    <3>1. i = 2 => FALSE
      BY <1>3, <1>5
    <3> QED BY <1>3, <3>1
  <2> QED BY <1>3, <1>4, <2>1
<1> QED BY <1>2, <1>5

LEMMA WaitingTurn ==
  ASSUME LoopInv, InTurn, loopDemo = "order", RoundInv, loopResult = "none", 
         FourShown \/ FiveShown,
         NEW c \in Loop!Callbacks, Due(c), \A a : Scheduled(a) /\ Adding(c, a) => Turn(c, a)
  PROVE  RoundInv'
<1>0. ~closed
  BY DEF LoopInv
<1>1. PICK ti, list :
        /\ Waiting(ti, list)
        /\ \/ Loop!Shown = FirstThree \cup {"timer"} /\ ti = <<>> /\ list = <<"immediate">>
           \/ Loop!Shown = FirstThree \cup {"immediate"} /\ ti = << <<1, "timer">> >> /\ list = <<>>
           \/ Loop!Shown = Outer /\ ti = <<>> /\ list = <<>>
  BY DEF FourShown, FiveShown
<1>2. FirstThree \subseteq Loop!Shown /\ Loop!Shown \subseteq Outer
  BY <1>1 DEF Outer
<1>3. ti = <<>> \/ ti = << <<1, "timer">> >>
  BY <1>1
<1>4. <<>> \o << <<1, "sleep">> >> = << <<1, "sleep">> >>
  BY Short
<1>5. c \in {"outer", "sleep", "timer", "immediate"}
  <2>1. \A i \in 1..Len(timers) : c = timers[i][2] => c \in {"outer", "sleep", "timer", "immediate"}
    BY <1>1, <1>3, <1>4, Short DEF Waiting, Queues
  <2>2. micros # <<>> => Head(micros) = "outer"
    BY <1>1, Short DEF Waiting, Queues
  <2>3. batch # <<>> => Head(batch) = "immediate"
    BY <1>1, Short DEF Waiting, Queues, Soon
  <2> QED BY <1>1, <2>1, <2>2, <2>3 DEF Due, Waiting, Queues
<1>6. CASE c = "outer"
  <2>1. /\ Queues(<<>>, <<"outer">>, ti, list, {}) /\ draining = "micros"
    <3>1. \A i \in 1..Len(timers) : timers[i][2] # "outer"
      BY <1>1, <1>3, <1>4, Short DEF Waiting, Queues
    <3>2. batch # <<>> => Head(batch) = "immediate"
      BY <1>1, Short DEF Waiting, Queues, Soon
    <3> QED BY <1>1, <1>6, <3>1, <3>2 DEF Due, Waiting, Queues
  <2>2. Loop!Completed(c) = {}
    BY <1>6, RoundJoins DEF Outer, FirstThree, Inner
  <2>3. CASE Loop!Shown = Outer
    <3>1. Turn(c, Loop!Then("outerResult"))
      BY <1>6, <2>2, <2>3, RoundSchedules, Scheduling, Names DEF Adding, Outer
    <3>2. micros = <<c>> /\ ticks = <<>>
      BY <1>6, <2>1 DEF Queues
    <3>3. /\ Loop!Emit(c) /\ loopResult' = "none" /\ ticks' = <<>> /\ micros' = <<"outerResult">>
          /\ UNCHANGED <<immediates, timers, io, batch>>
      BY <1>6, <3>1, <3>2, ThenAdded, Names, Short
    <3>4. Loop!Shown' = Loop!Shown
      BY <1>6, <3>3, Emitted DEF Loop!Silent
    <3>5. OuterOver'
      BY <1>1, <2>1, <2>3, <3>3, <3>4 DEF OuterOver, Queues, Soon, Outer, FirstThree
    <3>6. Loop!InOrder(IoOrder)'
      BY <1>6, <3>3, RoundKeepsOrder DEF RoundInv, Inner
    <3> QED BY <3>3, <3>4, <3>5, <3>6 DEF RoundInv
  <2>4. CASE Loop!Shown # Outer
    <3>1. PICK a : a = Loop!Sleep(1, "sleep")
      OBVIOUS
    <3>2. ~({"timer", "immediate"} \subseteq Loop!Shown)
      BY <1>1, <2>4 DEF FirstThree
    <3>3. Turn(c, a)
      BY <1>6, <2>2, <3>1, <3>2, RoundSchedules, Scheduling, Names DEF Adding
    <3>4. /\ a.ticks = <<>> /\ a.micros = <<>> /\ a.timers = << <<1, "sleep">> >>
          /\ a.immediates = <<>> /\ a.io = {}
      BY <3>1 DEF Loop!Sleep, Loop!Adds
    <3>5. Leaves(c, ticks \o a.ticks, Tail(micros) \o a.micros, timers \o a.timers,
                 immediates \o a.immediates, io \cup a.io) /\ batch' = batch
      BY <2>1, <3>3 DEF Turn
    <3>6. <<>> \o <<>> = <<>> /\ Tail(<<"outer">>) = <<>> /\ immediates \o <<>> = immediates
      BY Short, Empties DEF LoopInv, Scheduled, Loop!Now
    <3>7. Loop!Emit(c) /\ loopResult' = "none" /\ Queues(<<>>, <<>>, ti \o << <<1, "sleep">> >>, list, {})'
      BY <1>6, <2>1, <3>4, <3>5, <3>6 DEF Leaves, Queues, Soon
    <3>8. Loop!Shown' = Loop!Shown
      BY <1>6, <3>7, Emitted DEF Loop!Silent
    <3>9. FourShown'
      BY <1>1, <2>4, <3>7, <3>8 DEF FourShown, Waiting
    <3>10. Loop!InOrder(IoOrder)'
      BY <1>6, <3>7, RoundKeepsOrder DEF RoundInv, Inner
    <3> QED BY <3>7, <3>8, <3>9, <3>10 DEF RoundInv
  <2> QED BY <2>3, <2>4
<1>7. CASE c # "outer"
  <2>1. /\ Queues(<<>>, <<>>, ti \o << <<1, "sleep">> >>, list, {})
    <3>1. micros # <<>> => Head(micros) = "outer"
      BY <1>1, Short DEF Waiting, Queues
    <3>2. <<"outer">> # <<>>
      BY Short
    <3> QED BY <1>1, <1>7, <3>1, <3>2 DEF Due, InTurn, Waiting, Queues
  <2>2. \A i \in 1..Len(timers) : (\A k \in 1..(i - 1) : timers[k][1] > timers[i][1]) =>
          IF ti = <<>> THEN timers[i][2] = "sleep" /\ Loop!RemoveAt(timers, i) = <<>>
          ELSE timers[i][2] = "timer" /\ Loop!RemoveAt(timers, i) = << <<1, "sleep">> >>
    <3>1. CASE ti = <<>>
      <4>1. timers = << <<1, "sleep">> >>
        BY <1>4, <2>1, <3>1 DEF Queues
      <4> QED BY <3>1, <4>1, OneTimer, Names
    <3>2. CASE ti = << <<1, "timer">> >>
      <4>1. timers = << <<1, "timer">> >> \o << <<1, "sleep">> >> /\ ti # <<>>
        BY <2>1, <3>2, Short DEF Queues
      <4>2. "timer" \in Loop!Callbacks /\ "sleep" \in Loop!Callbacks
        BY Names
      <4>3. \A i \in 1..Len(timers) : (\A k \in 1..(i - 1) : timers[k][1] > timers[i][1]) =>
              timers[i][2] = "timer" /\ Loop!RemoveAt(timers, i) = << <<1, "sleep">> >>
        BY <4>1, <4>2, TwoTimers
      <4> QED BY <4>1, <4>3
    <3> QED BY <1>3, <3>1, <3>2
  <2>3. batch # <<>> => Head(batch) = "immediate" /\ list = <<"immediate">> /\ Tail(batch) = <<>>
    BY <1>1, <2>1, Short DEF Queues, Soon
  <2>4. CASE c = "sleep"
    <3>1. ti = <<>>
      BY <2>1, <2>2, <2>3, <2>4 DEF Due, Queues
    <3>2. Turn(c, Loop!Then("outer"))
      <4>1. Loop!Completed(c) = {}
        BY <2>4, RoundJoins DEF Outer, FirstThree, Inner
      <4> QED BY <2>4, <4>1, RoundSchedules, Scheduling, Names DEF Adding
    <3>3. /\ Loop!Emit(c) /\ loopResult' = "none" /\ ticks' = <<>> /\ micros' = <<"outer">>
          /\ UNCHANGED <<immediates, io, batch>> /\ timers' = <<>>
      <4>1. micros = <<>> /\ ticks = <<>> /\ io = {}
        BY <2>1 DEF Queues
      <4>2. <<>> # <<c>>
        BY Short
      <4> QED BY <2>2, <2>3, <2>4, <3>1, <3>2, <4>1, <4>2, ThenAdded, Names
    <3>4. Loop!Shown' = Loop!Shown
      BY <2>4, <3>3, Emitted DEF Loop!Silent
    <3>5. Waiting(ti, list)'
      BY <2>1, <3>1, <3>3 DEF Waiting, Queues, Soon
    <3>6. FourShown' \/ FiveShown'
      BY <1>1, <3>4, <3>5 DEF FourShown, FiveShown
    <3>7. Loop!InOrder(IoOrder)'
      BY <2>4, <3>3, RoundKeepsOrder DEF RoundInv, Inner
    <3> QED BY <3>3, <3>4, <3>6, <3>7 DEF RoundInv
  <2>5. CASE c \in {"timer", "immediate"}
    <3>1. \/ c = "immediate" /\ list = <<"immediate">>
          \/ c = "timer" /\ ti # <<>>
      BY <2>1, <2>2, <2>3, <2>5 DEF Due, Queues
    <3>2. Outer = Loop!Shown \cup {c}
      <4>1. << <<1, "timer">> >> # <<>> /\ <<"immediate">> # <<>>
        BY Short
      <4> QED BY <1>1, <3>1, <4>1 DEF Outer
    <3>3. Turn(c, Loop!None)
      <4>1. Loop!Completed(c) = {}
        BY <2>5, <3>2, RoundJoins DEF Outer
      <4> QED BY <2>5, <4>1, RoundSchedules, Scheduling DEF Adding
    <3>4. /\ Loop!Emit(c) /\ loopResult' = "none" /\ ticks' = <<>> /\ micros' = <<>>
          /\ io' = {} /\ timers' = << <<1, "sleep">> >> /\ immediates' = <<>> /\ batch' = <<>>
      <4>1. micros = <<>> /\ ticks = <<>> /\ io = {} /\ Soon(list) /\ timers = ti \o << <<1, "sleep">> >>
        BY <2>1 DEF Queues
      <4>2. \/ /\ batch # <<>> /\ c = Head(batch) /\ batch' = Tail(batch)
               /\ UNCHANGED <<timers, immediates>>
            \/ /\ \E i \in 1..Len(timers) :
                    /\ \A k \in 1..(i - 1) : timers[k][1] > timers[i][1]
                    /\ c = timers[i][2] /\ timers' = Loop!RemoveAt(timers, i)
               /\ UNCHANGED <<immediates, batch>>
        BY <3>3, <4>1, NoneAdded
      <4>3. Loop!Emit(c) /\ loopResult' = "none" /\ ticks' = <<>> /\ micros' = <<>> /\ io' = {}
        BY <2>5, <3>3, <4>1, NoneAdded
      <4>4. <<"immediate">> # <<>> /\ << <<1, "timer">> >> # <<>>
        BY Short
      <4> QED BY <1>1, <1>4, <2>2, <2>3, <2>5, <4>1, <4>2, <4>3, <4>4 DEF Soon
    <3>5. Loop!Shown' = Outer
      BY <1>0, <2>5, <3>2, <3>4, Emitted DEF Loop!Silent
    <3>6. FiveShown'
      BY <1>4, <3>4, <3>5 DEF FiveShown, Waiting, Queues, Soon
    <3>7. Loop!InOrder(IoOrder)'
      BY <2>5, <3>4, RoundKeepsOrder DEF RoundInv, Inner
    <3> QED BY <3>4, <3>5, <3>6, <3>7 DEF RoundInv
  <2> QED BY <1>5, <1>7, <2>4, <2>5
<1> QED BY <1>6, <1>7

LEMMA OuterTurn ==
  ASSUME LoopInv, InTurn, loopDemo = "order", RoundInv, loopResult = "none",
         OuterOver \/ Reads,
         NEW c \in Loop!Callbacks, Due(c), \A a : Scheduled(a) /\ Adding(c, a) => Turn(c, a)
  PROVE  RoundInv'
<1>0. ~closed /\ <<"outerResult">> # <<>> /\ Tail(<<"outerResult">>) = <<>>
      /\ Head(<<"outerResult">>) = "outerResult" /\ <<>> \o <<>> = <<>>
      /\ \A x : <<>> \o <<x>> = <<x>>
  BY Short, Empties DEF LoopInv
<1>1. CASE OuterOver
  <2>1. draining = "micros" /\ c = "outerResult"
    BY <1>0, <1>1 DEF Due, InTurn, OuterOver, Queues
  <2>2. PICK a : a = Loop!Adds(<<>>, <<>>, <<>>, <<>>, {"readFile"})
    OBVIOUS
  <2>3. /\ a.ticks = <<>> /\ a.micros = <<>> /\ a.timers = <<>>
        /\ a.immediates = <<>> /\ a.io = {"readFile"} /\ Scheduled(a)
    <3>1. {"readFile"} \in SUBSET Loop!Callbacks
      BY Names
    <3> QED BY <2>2, <3>1, Scheduling DEF Loop!Adds
  <2>4. Turn(c, a)
    <3>1. Loop!Completed(c) = {}
      BY <2>1, RoundJoins DEF Outer, FirstThree, Inner
    <3>2. Loop!Schedules(c) = a
      BY <2>1, <2>2, RoundSchedules
    <3> QED BY <2>3, <3>1, <3>2 DEF Adding
  <2>5. Leaves(c, ticks \o a.ticks, Tail(micros) \o a.micros, timers \o a.timers,
               immediates \o a.immediates, io \cup a.io) /\ batch' = batch
    BY <2>1, <2>4 DEF Turn
  <2>6. Loop!Emit(c) /\ loopResult' = "none" /\ Queues(<<>>, <<>>, <<>>, <<>>, {"readFile"})'
    BY <1>0, <1>1, <2>1, <2>3, <2>5 DEF Leaves, OuterOver, Queues, Soon
  <2>7. Loop!Shown' = Loop!Shown \cup {"outerResult"}
    BY <1>0, <2>1, <2>6, Emitted DEF Loop!Silent
  <2>8. Reads'
    BY <1>1, <2>6, <2>7 DEF OuterOver, Reads
  <2>9. Loop!InOrder(IoOrder)'
    BY <2>1, <2>6, RoundKeepsOrder DEF RoundInv, Inner
  <2> QED BY <1>1, <2>6, <2>7, <2>8, <2>9 DEF RoundInv, OuterOver
<1>2. CASE Reads
  <2>1. draining = "none" /\ loopAt = "poll" /\ c = "readFile"
    BY <1>0, <1>2, Short DEF Due, Reads, Queues, Soon
  <2>2. PICK a : a = Loop!IoRound
    OBVIOUS
  <2>3. /\ a.ticks = <<"ioTick">> /\ a.micros = <<"ioThen">> /\ a.timers = << <<1, "ioTimer">> >>
        /\ a.immediates = <<"ioImmediate">> /\ a.io = {} /\ Scheduled(a)
    BY <2>2, Names DEF Loop!IoRound, Loop!Adds, Scheduled
  <2>4. Turn(c, a)
    <3>1. Loop!Completed(c) = {}
      BY <2>1, RoundJoins DEF Outer, FirstThree, Inner
    <3>2. Loop!Schedules(c) = a
      BY <2>1, <2>2, RoundSchedules
    <3> QED BY <2>3, <3>1, <3>2 DEF Adding
  <2>5. Leaves(c, ticks \o a.ticks, micros \o a.micros, timers \o a.timers,
               immediates \o a.immediates, (io \ {c}) \cup a.io)
        /\ draining' = "ticks" /\ UNCHANGED <<loopAt, batch>>
    BY <2>1, <2>4 DEF Turn
  <2>6. /\ ticks = <<>> /\ micros = <<>> /\ timers = <<>> /\ immediates = <<>> /\ batch = <<>>
        /\ io = {"readFile"}
    BY <1>2 DEF Reads, Queues, Soon
  <2>7. /\ Loop!Emit(c) /\ loopResult' = "none"
        /\ ticks' = <<"ioTick">> /\ micros' = <<"ioThen">> /\ timers' = << <<1, "ioTimer">> >>
        /\ immediates' = <<"ioImmediate">> /\ io' = {}
    BY <1>0, <2>1, <2>3, <2>5, <2>6 DEF Leaves
  <2>8. Loop!Shown' = Loop!Shown \cup {"readFile"}
    BY <1>0, <2>1, <2>7, Emitted DEF Loop!Silent
  <2>9. ReadDone'
    BY <1>2, <2>1, <2>5, <2>6, <2>7, <2>8 DEF Reads, ReadDone, InIo, InsideIo
  <2>10. Loop!InOrder(IoOrder)'
    BY <2>1, <2>7, RoundKeepsOrder DEF RoundInv, Inner
  <2> QED BY <1>2, <2>7, <2>8, <2>9, <2>10 DEF RoundInv, Reads
<1> QED BY <1>1, <1>2

LEMMA ReadDoneTurn ==
  ASSUME LoopInv, InTurn, loopDemo = "order", RoundInv, loopResult = "none", ReadDone,
         NEW c \in Loop!Callbacks, Due(c), \A a : Scheduled(a) /\ Adding(c, a) => Turn(c, a)
  PROVE  RoundInv'
<1>0. /\ ~closed
      /\ \A x : <<x>> # <<>> /\ Tail(<<x>>) = <<>> /\ Head(<<x>>) = x
  BY Short DEF LoopInv
<1>1. PICK t, m, more : InIo(t, m, more) /\
        \/ t = <<"ioTick">> /\ m = <<"ioThen">> /\ more = {} /\ draining = "ticks"
        \/ t = <<>> /\ m = <<"ioThen">> /\ more = {"ioTick"}
        \/ t = <<>> /\ m = <<>> /\ more = {"ioTick", "ioThen"}
  BY DEF ReadDone
<1>2. \/ t = <<"ioTick">> /\ m = <<"ioThen">> /\ more = {} /\ c = "ioTick"
      \/ t = <<>> /\ m = <<"ioThen">> /\ more = {"ioTick"} /\ c = "ioThen"
      \/ /\ t = <<>> /\ m = <<>> /\ more = {"ioTick", "ioThen"} /\ c = "ioImmediate"
         /\ draining = "none" /\ loopAt = "check" /\ batch # <<>>
  BY <1>0, <1>1 DEF Due, InTurn, InIo, InsideIo
<1>3. /\ c \in Inner /\ "ioTimer" \notin Loop!Shown \cup {c}
      /\ Loop!Shown \cap Inner = more
  BY <1>1, <1>2 DEF InIo, Outer, FirstThree, Inner
<1>4. Turn(c, Loop!None)
  <2>1. Loop!Completed(c) = {}
    BY <1>3, RoundJoins DEF Inner
  <2>2. Loop!Schedules(c) = Loop!None
    BY <1>2, RoundSchedules
  <2> QED BY <2>1, <2>2, Scheduling DEF Adding
<1>5. Loop!Emit(c) /\ loopResult' = "none"
  BY <1>2, <1>4, NoneAdded
<1>6. Loop!Shown' = Loop!Shown \cup {c}
  BY <1>0, <1>2, <1>5, Emitted DEF Loop!Silent
<1>7. Loop!InOrder(IoOrder)'
  <2>1. {IoOrder[k] : k \in 1..0} = {} /\ {IoOrder[k] : k \in 1..1} = {"ioTick"}
        /\ {IoOrder[k] : k \in 1..2} = {"ioTick", "ioThen"}
    BY IoOrderFacts
  <2>2. \/ c = IoOrder[1] /\ Loop!Shown \cap Inner = {IoOrder[k] : k \in 1..(1 - 1)}
        \/ c = IoOrder[2] /\ Loop!Shown \cap Inner = {IoOrder[k] : k \in 1..(2 - 1)}
        \/ c = IoOrder[3] /\ Loop!Shown \cap Inner = {IoOrder[k] : k \in 1..(3 - 1)}
    BY <1>2, <1>3, <2>1, IoOrderFacts
  <2>3. \E n \in 1..4 : c = IoOrder[n] /\ Loop!Shown \cap Inner = {IoOrder[k] : k \in 1..(n - 1)}
    BY <2>2
  <2> QED BY <1>5, <2>3, RoundKeepsOrder DEF RoundInv
<1>8. CASE c \in {"ioTick", "ioThen"}
  <2>1. /\ UNCHANGED <<timers, immediates, io, loopAt, batch>>
        /\ \/ c = "ioTick" /\ ticks' = <<>> /\ micros' = <<"ioThen">> /\ draining' = draining
           \/ c = "ioThen" /\ ticks' = <<>> /\ micros' = <<>>
    BY <1>0, <1>1, <1>2, <1>4, <1>8, NoneAdded DEF InIo, InTurn
  <2>2. ReadDone'
    BY <1>1, <1>2, <1>6, <2>1 DEF ReadDone, InIo, InsideIo
  <2> QED BY <1>1, <1>5, <1>6, <1>7, <2>2 DEF RoundInv, InIo
<1>9. CASE c = "ioImmediate"
  <2>1. /\ ticks' = <<>> /\ micros' = <<>> /\ timers' = timers /\ immediates' = <<>> /\ io' = {}
        /\ batch' = <<>>
    BY <1>0, <1>1, <1>2, <1>4, <1>9, NoneAdded DEF InIo, InsideIo
  <2>2. Ending'
    BY <1>1, <1>2, <1>6, <1>9, <2>1 DEF Ending, AfterIo, Queues, Soon, InIo
  <2> QED BY <1>1, <1>5, <1>6, <1>7, <2>2 DEF RoundInv, InIo
<1> QED BY <1>2, <1>8, <1>9

LEMMA RestTurn ==
  ASSUME LoopInv, InTurn, loopDemo = "order", RoundInv, loopResult = "none", Ending,
         NEW c \in Loop!Callbacks, Due(c), \A a : Scheduled(a) /\ Adding(c, a) => Turn(c, a)
  PROVE  RoundInv'
<1>0. /\ ~closed /\ \A x : <<x>> # <<>> /\ Tail(<<x>>) = <<>> /\ Head(<<x>>) = x
  BY Short DEF LoopInv
<1>1. CASE AfterIo(<<>>, << <<1, "ioTimer">> >>, {})
  <2>1. \A i \in 1..Len(timers) : timers[i][2] = "ioTimer" /\ Loop!RemoveAt(timers, i) = <<>>
    BY <1>1, OneTimer, Names DEF AfterIo, Queues
  <2>2. c = "ioTimer"
    BY <1>1, <2>1 DEF Due, AfterIo, Queues, Soon
  <2>3. Loop!Shown \cap Inner = {"ioTick", "ioThen", "ioImmediate"}
    BY <1>1 DEF AfterIo, Inner, Outer, FirstThree
  <2>4. Turn(c, Loop!Then("result"))
    <3>1. \E j : Loop!Completed(c) = {j} /\ j.next = Loop!Then("result")
      BY <2>2, <2>3, RoundJoins DEF Inner
    <3>2. Loop!Schedules(c) = Loop!None
      BY <2>2, RoundSchedules
    <3> QED BY <3>1, <3>2, Scheduling, Names DEF Adding
  <2>5. /\ Loop!Emit(c) /\ loopResult' = "none" /\ Queues(<<>>, <<"result">>, <<>>, <<>>, {})'
    <3>1. micros = <<>> /\ ticks = <<>> /\ io = {} /\ immediates = <<>> /\ batch = <<>>
      BY <1>1 DEF AfterIo, Queues, Soon
    <3>2. /\ Loop!Emit(c) /\ loopResult' = "none" /\ ticks' = <<>> /\ micros' = <<"result">>
          /\ UNCHANGED <<immediates, io, batch>> /\ timers' = <<>>
      BY <1>0, <2>1, <2>2, <2>4, <3>1, ThenAdded, Names
    <3> QED BY <3>1, <3>2 DEF Queues, Soon
  <2>6. Loop!Shown' = Loop!Shown \cup {"ioTimer"}
    BY <1>0, <2>2, <2>5, Emitted DEF Loop!Silent
  <2>7. Ending'
    BY <1>1, <2>5, <2>6 DEF Ending, AfterIo
  <2>8. Loop!InOrder(IoOrder)'
    <3>1. {IoOrder[k] : k \in 1..(4 - 1)} = {"ioTick", "ioThen", "ioImmediate"}
      BY IoOrderFacts
    <3>2. \E n \in 1..4 : c = IoOrder[n] /\ Loop!Shown \cap Inner = {IoOrder[k] : k \in 1..(n - 1)}
      BY <2>2, <2>3, <3>1, IoOrderFacts
    <3> QED BY <2>5, <3>2, RoundKeepsOrder DEF RoundInv
  <2> QED BY <1>1, <2>5, <2>6, <2>7, <2>8 DEF RoundInv, AfterIo
<1>2. CASE AfterIo(<<"result">>, <<>>, {"ioTimer"})
  <2>1. c = "result"
    BY <1>0, <1>2 DEF Due, InTurn, AfterIo, Queues
  <2>2. Turn(c, Loop!None)
    <3>1. Loop!Completed(c) = {}
      BY <2>1, RoundJoins DEF Outer, FirstThree, Inner
    <3> QED BY <2>1, <3>1, RoundSchedules, Scheduling DEF Adding
  <2>3. Loop!Emit(c) /\ loopResult' = "done" /\ Queues(<<>>, <<>>, <<>>, <<>>, {})'
    BY <1>0, <1>2, <2>1, <2>2, NoneAdded DEF AfterIo, InTurn, Queues, Soon
  <2>4. Loop!Shown' = Loop!Shown \cup {"result"}
    BY <1>0, <2>1, <2>3, Emitted DEF Loop!Silent
  <2>5. Loop!InOrder(IoOrder)'
    BY <2>1, <2>3, RoundKeepsOrder DEF RoundInv, Inner
  <2> QED BY <1>2, <2>3, <2>4, <2>5 DEF RoundInv, Finished, AfterIo
<1> QED BY <1>1, <1>2 DEF Ending

LEMMA RoundStep ==
  ASSUME LoopInv, InTurn, loopDemo = "order", RoundInv, [Loop!LoopNext]_(Loop!loopVars)
  PROVE  RoundInv'
<1>1. CASE UNCHANGED Loop!loopVars
  <2>1. UNCHANGED <<ticks, micros, timers, immediates, io, batch, trace, loopResult, loopAt, draining>>
    BY <1>1 DEF Loop!loopVars, Loop!queues
  <2> QED BY <2>1, SameTrace
    DEF RoundInv, Begun, FourShown, FiveShown, OuterOver, Reads, ReadDone, Ending, Finished, Waiting,
        InIo, InsideIo, AfterIo, Queues, Soon
<1>2. CASE Loop!QueueDrained \/ Loop!IoFails \/ Loop!NextPhase \/ Loop!Answer
  BY <1>2, QuietRound
<1>3. ASSUME NEW c \in Loop!Callbacks, Due(c), \A a : Scheduled(a) /\ Adding(c, a) => Turn(c, a)
      PROVE  RoundInv'
  <2>1. ~Finished
    BY <1>3 DEF Finished, Queues, Soon, Due
  <2>2. loopResult = "none"
    BY <2>1 DEF RoundInv
  <2>3. Begun \/ FourShown \/ FiveShown \/ OuterOver \/ Reads \/ ReadDone \/ Ending
    BY <2>1 DEF RoundInv
  <2> QED BY <1>3, <2>2, <2>3, BegunTurn, WaitingTurn, OuterTurn, ReadDoneTurn, RestTurn
<1> QED BY <1>1, <1>2, <1>3, LoopTurns

-----------------------------------------------------------------------------
(* callbackQueue.  Its five timers end one after the other; what the first *)
(* of them adds is run before the second.                                  *)
QueueOrder == <<"first", "tick", "then", "second", "third", "fourth", "fifth", "result">>
FirstOf(n) == {QueueOrder[k] : k \in 1..n}
Left(k) == [n \in 1..(5 - k) |-> <<1, Loop!Queued[k + n]>>]

Fires(n, k) == Loop!Shown = FirstOf(n) /\ Queues(<<>>, <<>>, Left(k), <<>>, {})
Timing == Fires(0, 0) \/ Fires(3, 1) \/ Fires(4, 2) \/ Fires(5, 3) \/ Fires(6, 4)
AfterFirst ==
  \/ /\ Loop!Shown = FirstOf(1) /\ draining = "ticks"
     /\ Queues(<<"tick">>, <<"then">>, Left(1), <<>>, {})
  \/ Loop!Shown = FirstOf(2) /\ Queues(<<>>, <<"then">>, Left(1), <<>>, {})
Resolves ==
  /\ Loop!Shown = FirstOf(7)
  /\ \/ Queues(<<>>, <<>>, <<>>, <<"resolve">>, {})
     \/ Queues(<<>>, <<"result">>, <<>>, <<>>, {})

QueueInv ==
  /\ Loop!InOrder(QueueOrder)
  /\ "result" \in Loop!Shown => FirstOf(8) \subseteq Loop!Shown
  /\ \/ Finished
     \/ loopResult = "none" /\ (Timing \/ AfterFirst \/ Resolves)

LEMMA QueueOrderFacts ==
  /\ DOMAIN QueueOrder = 1..Len(QueueOrder) /\ Len(QueueOrder) = 8
  /\ \A i, k \in 1..Len(QueueOrder) : QueueOrder[i] = QueueOrder[k] => i = k
  /\ Loop!ToSet(QueueOrder) = FirstOf(8)
  /\ QueueOrder[1] = "first" /\ QueueOrder[2] = "tick" /\ QueueOrder[3] = "then"
  /\ QueueOrder[4] = "second" /\ QueueOrder[5] = "third" /\ QueueOrder[6] = "fourth"
  /\ QueueOrder[7] = "fifth" /\ QueueOrder[8] = "result"
  BY DEF QueueOrder, Loop!ToSet, FirstOf

LEMMA FirstOfs ==
  /\ FirstOf(0) = {} /\ FirstOf(1) = {"first"} /\ FirstOf(2) = {"first", "tick"}
  /\ FirstOf(3) = {"first", "tick", "then"} /\ FirstOf(4) = FirstOf(3) \cup {"second"}
  /\ FirstOf(5) = FirstOf(4) \cup {"third"} /\ FirstOf(6) = FirstOf(5) \cup {"fourth"}
  /\ FirstOf(7) = FirstOf(6) \cup {"fifth"} /\ FirstOf(8) = FirstOf(7) \cup {"result"}
  /\ \A n \in 1..8 : FirstOf(n) = FirstOf(n - 1) \cup {QueueOrder[n]} /\ FirstOf(n) \subseteq FirstOf(8)
<1>1. \A n \in 1..8 : FirstOf(n) = FirstOf(n - 1) \cup {QueueOrder[n]} /\ FirstOf(n) \subseteq FirstOf(8)
  BY DEF FirstOf
<1>2. FirstOf(0) = {}
  BY DEF FirstOf
<1>3. /\ FirstOf(1) = FirstOf(0) \cup {QueueOrder[1]} /\ FirstOf(2) = FirstOf(1) \cup {QueueOrder[2]}
      /\ FirstOf(3) = FirstOf(2) \cup {QueueOrder[3]} /\ FirstOf(4) = FirstOf(3) \cup {QueueOrder[4]}
      /\ FirstOf(5) = FirstOf(4) \cup {QueueOrder[5]} /\ FirstOf(6) = FirstOf(5) \cup {QueueOrder[6]}
      /\ FirstOf(7) = FirstOf(6) \cup {QueueOrder[7]} /\ FirstOf(8) = FirstOf(7) \cup {QueueOrder[8]}
  <2>1. \A n \in 1..8 : FirstOf(n) = FirstOf(n - 1) \cup {QueueOrder[n]}
    BY <1>1
  <2>2. 1 - 1 = 0 /\ 2 - 1 = 1 /\ 3 - 1 = 2 /\ 4 - 1 = 3 /\ 5 - 1 = 4 /\ 6 - 1 = 5 /\ 7 - 1 = 6 /\ 8 - 1 = 7
    OBVIOUS
  <2>3. \A n \in 1..8 : n \in {1, 2, 3, 4, 5, 6, 7, 8}
    OBVIOUS
  <2> QED BY <2>1, <2>2
<1> QED BY <1>1, <1>2, <1>3, QueueOrderFacts

LEMMA QueueJoins ==
  ASSUME loopDemo = "queue", NEW c
  PROVE  /\ c \notin Loop!ToSet(Loop!Queued) \/ ~(Loop!ToSet(Loop!Queued) \subseteq Loop!Shown \cup {c}) =>
              Loop!Completed(c) = {}
         /\ c \in Loop!ToSet(Loop!Queued) /\ Loop!ToSet(Loop!Queued) \subseteq Loop!Shown \cup {c} =>
              \E j : /\ Loop!Completed(c) = {j}
                     /\ j.next = Loop!Adds(<<>>, <<>>, <<>>, <<"resolve">>, {})
<1>1. PICK S : S = {"first", "second", "third", "fourth", "fifth"}
  OBVIOUS
<1>2. Loop!ToSet(Loop!Queued) = S
  BY <1>1 DEF Loop!ToSet, Loop!Queued
<1>3. IsFiniteSet(S) /\ Cardinality(S) = 5
  <2>1. /\ "first" \notin {"second", "third", "fourth", "fifth"}
        /\ "second" \notin {"third", "fourth", "fifth"} /\ "third" \notin {"fourth", "fifth"}
        /\ "fourth" # "fifth"
    OBVIOUS
  <2>2. /\ IsFiniteSet({"first", "second", "third", "fourth", "fifth"})
        /\ Cardinality({"first", "second", "third", "fourth", "fifth"}) = 5
    BY <2>1, FiveOf
  <2> QED BY <1>1, <2>2
<1>4. PICK join : join = Loop!Join(S, 5, Loop!Adds(<<>>, <<>>, <<>>, <<"resolve">>, {}))
  OBVIOUS
<1>5. /\ join.of = S /\ join.count = 5
      /\ join.next = Loop!Adds(<<>>, <<>>, <<>>, <<"resolve">>, {})
  BY <1>4 DEF Loop!Join
<1>6. Loop!Joins = {join}
  BY <1>2, <1>4 DEF Loop!Joins, Loop!CallbackQueueJoins
<1>7. \A j : j \in Loop!Completed(c) <=>
        j = join /\ c \in S /\ Cardinality(S \cap (Loop!Shown \cup {c})) = 5
  BY <1>5, <1>6 DEF Loop!Completed, Loop!Cardinality, Cardinality
<1>8. Cardinality(S \cap (Loop!Shown \cup {c})) = 5 <=> S \subseteq Loop!Shown \cup {c}
  BY <1>3, FullJoin
<1>9. c \notin S \/ ~(S \subseteq Loop!Shown \cup {c}) => Loop!Completed(c) = {}
  BY <1>7, <1>8
<1>10. c \in S /\ S \subseteq Loop!Shown \cup {c} => Loop!Completed(c) = {join}
  BY <1>7, <1>8
<1> QED BY <1>2, <1>5, <1>9, <1>10

LEMMA QueueAdds ==
  ASSUME loopDemo = "queue", NEW c
  PROVE  /\ c \notin {"main", "first", "resolve"} => Loop!Schedules(c) = Loop!None
         /\ c = "first" => Loop!Schedules(c) = Loop!Adds(<<"tick">>, <<"then">>, <<>>, <<>>, {})
         /\ c = "resolve" => Loop!Schedules(c) = Loop!Then("result")
  BY DEF Loop!Schedules, Loop!CallbackQueue

LEMMA LeftTimers ==
  ASSUME NEW k \in 0..4, timers = Left(k), NEW i \in 1..Len(timers),
         \A m \in 1..(i - 1) : timers[m][1] > timers[i][1]
  PROVE  timers[i][2] = Loop!Queued[k + 1] /\ Loop!RemoveAt(timers, i) = Left(k + 1)
<1>1. \A n \in 1..(5 - k) : <<1, Loop!Queued[k + n]>> \in Nat \X Loop!Callbacks
  <2>1. \A n \in 1..5 : Loop!Queued[n] \in Loop!Callbacks
    BY Names DEF Loop!Queued
  <2> QED BY <2>1
<1>2. PICK s \in Seq(Nat \X Loop!Callbacks) : s = Left(k)
  <2>1. 5 - k \in Nat
    OBVIOUS
  <2>2. [n \in 1..(5 - k) |-> <<1, Loop!Queued[k + n]>>] \in Seq(Nat \X Loop!Callbacks)
    BY <1>1, <2>1, IsASeq
  <2> QED BY <2>2 DEF Left
<1>3. /\ Len(s) = 5 - k /\ DOMAIN s = 1..(5 - k)
      /\ \A n \in 1..(5 - k) : s[n] = <<1, Loop!Queued[k + n]>>
  <2>1. Len(s) \in Nat /\ DOMAIN s = 1..Len(s)
    BY LenProperties
  <2>2. DOMAIN s = 1..(5 - k)
    BY <1>2 DEF Left
  <2>3. Len(s) = 5 - k
    <3>1. 5 - k \in 1..(5 - k) /\ 5 - k \in Nat
      OBVIOUS
    <3>2. 5 - k \in 1..Len(s)
      BY <2>1, <2>2, <3>1
    <3>3. Len(s) \in 1..Len(s)
      BY <2>1, <3>2
    <3>4. Len(s) \in 1..(5 - k)
      BY <2>1, <2>2, <3>3
    <3> QED BY <2>1, <3>1, <3>2, <3>4
  <2> QED BY <1>2, <2>2, <2>3 DEF Left
<1>4. i = 1
  <2>1. ASSUME i > 1 PROVE FALSE
    <3>1. 1 \in 1..(i - 1) /\ i \in 1..(5 - k) /\ 1 \in 1..(5 - k)
      BY <1>2, <1>3, <2>1
    <3>2. s[1] = <<1, Loop!Queued[k + 1]>> /\ s[i] = <<1, Loop!Queued[k + i]>>
      BY <1>3, <3>1
    <3>3. s[1][1] = 1 /\ s[i][1] = 1
      BY <3>2
    <3>4. timers[1][1] > timers[i][1]
      BY <3>1
    <3> QED BY <1>2, <3>3, <3>4
  <2>2. i \in Nat /\ i >= 1
    BY <1>2, <1>3
  <2> QED BY <2>1, <2>2
<1>5. Tail(s) = Left(k + 1)
  <2>1. /\ Tail(s) \in Seq(Nat \X Loop!Callbacks) /\ Len(Tail(s)) = 4 - k
        /\ \A n \in 1..(4 - k) : Tail(s)[n] = s[n + 1]
    <3>1. s # <<>>
      BY <1>3
    <3> QED BY <1>3, <3>1, HeadTailProperties
  <2>2. Tail(s) \in [1..(4 - k) -> Nat \X Loop!Callbacks]
    BY <2>1, LenProperties
  <2>3. \A n \in 1..(4 - k) : Tail(s)[n] = <<1, Loop!Queued[(k + 1) + n]>>
    <3>1. ASSUME NEW n \in 1..(4 - k) PROVE Tail(s)[n] = <<1, Loop!Queued[(k + 1) + n]>>
      <4>1. n + 1 \in 1..(5 - k) /\ k + (n + 1) = (k + 1) + n
        OBVIOUS
      <4> QED BY <1>3, <2>1, <4>1
    <3> QED BY <3>1
  <2>4. 5 - (k + 1) = 4 - k
    OBVIOUS
  <2> QED BY <2>2, <2>3, <2>4 DEF Left
<1>6. Loop!RemoveAt(s, 1) = Tail(s)
  <2>1. 1 \in 1..Len(s)
    BY <1>3
  <2> QED BY <2>1, TimerTaken
<1>7. s[1] = <<1, Loop!Queued[k + 1]>>
  <2>1. 1 \in 1..(5 - k)
    OBVIOUS
  <2> QED BY <1>3, <2>1
<1>8. s[1][2] = Loop!Queued[k + 1]
  BY <1>7
<1>9. timers = s
  BY <1>2
<1>10. timers[1][2] = Loop!Queued[k + 1] /\ Loop!RemoveAt(timers, 1) = Left(k + 1)
  BY <1>5, <1>6, <1>8, <1>9
<1> QED BY <1>4, <1>10

LEMMA NoneLeft == Left(5) = <<>>
  BY DEF Left

LEMMA QueueKeepsOrder ==
  ASSUME LoopInv, Loop!InOrder(QueueOrder), NEW c, trace' = Append(trace, c),
         c \in Loop!ToSet(QueueOrder) => \E n \in 1..Len(QueueOrder) :
           /\ c = QueueOrder[n]
           /\ Loop!Shown \cap Loop!ToSet(QueueOrder) = {QueueOrder[k] : k \in 1..(n - 1)}
  PROVE  Loop!InOrder(QueueOrder)'
<1>1. PICK order : order = QueueOrder
  OBVIOUS
<1>2. /\ DOMAIN order = 1..Len(order) /\ Len(order) \in Nat
      /\ \A i, k \in 1..Len(order) : order[i] = order[k] => i = k
  BY <1>1, QueueOrderFacts
<1>3. Loop!InOrder(order)
  BY <1>1
<1>4. c \in Loop!ToSet(order) => \E n \in 1..Len(order) :
        /\ c = order[n]
        /\ Loop!Shown \cap Loop!ToSet(order) = {order[k] : k \in 1..(n - 1)}
  BY <1>1
<1>5. Loop!InOrder(order)'
  BY <1>2, <1>3, <1>4, OrderStays
<1> QED BY <1>1, <1>5 DEF QueueOrder

LEMMA OrderKept == ASSUME trace' = trace, NEW order
  PROVE  Loop!InOrder(order) => Loop!InOrder(order)'
  BY DEF Loop!InOrder

LEMMA QuietQueue ==
  ASSUME LoopInv, InTurn, loopDemo = "queue", QueueInv,
         \/ Loop!QueueDrained \/ Loop!IoFails \/ Loop!NextPhase \/ Loop!Answer
         \/ UNCHANGED Loop!loopVars
  PROVE  QueueInv'
<1>1. CASE Loop!QueueDrained \/ Loop!NextPhase \/ UNCHANGED Loop!loopVars
  <2>1. /\ UNCHANGED <<ticks, micros, timers, io, trace, loopResult>>
        /\ \/ UNCHANGED <<immediates, batch>> /\ (draining' = "ticks" \/ draining # "ticks" \/ ticks = <<>>)
           \/ batch = <<>> /\ batch' = immediates /\ immediates' = <<>> /\ ticks = <<>>
    <3>1. CASE Loop!QueueDrained
      BY <3>1 DEF Loop!QueueDrained, Loop!queues
    <3>2. CASE Loop!NextPhase
      BY <3>2 DEF Loop!NextPhase, InTurn
    <3>3. CASE UNCHANGED Loop!loopVars
      BY <3>3 DEF Loop!loopVars, Loop!queues
    <3> QED BY <1>1, <3>1, <3>2, <3>3
  <2>2. trace' = trace /\ loopResult' = loopResult
    BY <2>1
  <2>3. Loop!Shown' = Loop!Shown
    BY <2>2 DEF Loop!Shown
  <2>4. ASSUME NEW t, NEW m, NEW ti, NEW list, NEW i, Queues(t, m, ti, list, i)
        PROVE  Queues(t, m, ti, list, i)'
    BY <2>1, <2>4 DEF Queues, Soon
  <2>5. /\ Timing => Timing'
        /\ Resolves => Resolves'
        /\ Finished => Finished'
    BY <2>2, <2>3, <2>4 DEF Timing, Fires, Resolves, Finished
  <2>6. AfterFirst => AfterFirst'
    <3>1. <<"tick">> # <<>>
      BY Short
    <3>2. ticks = <<"tick">> /\ draining = "ticks" => draining' = "ticks"
      BY <2>1, <3>1
    <3> QED BY <2>3, <2>4, <3>1, <3>2 DEF AfterFirst, Queues
  <2>7. Loop!InOrder(QueueOrder)'
    <3>1. PICK order : order = QueueOrder
      OBVIOUS
    <3>2. Loop!InOrder(order)
      BY <3>1 DEF QueueInv
    <3>3. Loop!InOrder(order)'
      BY <2>2, <3>2, OrderKept
    <3> QED BY <3>1, <3>3 DEF QueueOrder
  <2> QED BY <2>2, <2>3, <2>5, <2>6, <2>7 DEF QueueInv
<1>2. CASE Loop!IoFails
  <2>1. io = {}
    BY DEF QueueInv, Finished, Timing, Fires, AfterFirst, Resolves, Queues
  <2> QED BY <1>2, <2>1 DEF Loop!IoFails
<1>3. CASE Loop!Answer
  <2>1. /\ UNCHANGED <<ticks, micros, timers, immediates, io, batch, loopResult>>
        /\ loopResult \in {"done", "failed"} /\ trace' = Append(trace, loopResult)
    BY <1>3 DEF Loop!Answer, Loop!queues, LoopInv
  <2>2. Finished /\ Finished'
    BY <2>1 DEF QueueInv, Finished, Queues, Soon
  <2>3. Loop!Shown' = Loop!Shown \cup {loopResult}
    BY <2>1, Appended
  <2>4. "result" # loopResult
    BY <2>1
  <2>5. Loop!InOrder(QueueOrder)'
    <3>1. loopResult \notin Loop!ToSet(QueueOrder)
      BY <2>1 DEF QueueOrder, Loop!ToSet
    <3>2. PICK e : e = loopResult
      OBVIOUS
    <3> QED BY <2>1, <3>1, <3>2, QueueKeepsOrder DEF QueueInv
  <2> QED BY <2>2, <2>3, <2>4, <2>5 DEF QueueInv
<1> QED BY <1>1, <1>2, <1>3

(* The next of the order is shown.                                         *)
LEMMA NextInOrder ==
  ASSUME LoopInv, QueueInv, ~closed, NEW n \in 1..8, Loop!Shown = FirstOf(n - 1),
         Loop!Emit(QueueOrder[n])
  PROVE  /\ Loop!Shown' = FirstOf(n) /\ Loop!InOrder(QueueOrder)'
         /\ "result" \in Loop!Shown' => FirstOf(8) \subseteq Loop!Shown'
<1>1. PICK c : c = QueueOrder[n]
  OBVIOUS
<1>2. c \notin Loop!Silent
  BY <1>1, QueueOrderFacts DEF Loop!Silent
<1>3. Loop!Shown' = Loop!Shown \cup {c} /\ trace' = Append(trace, c)
  BY <1>1, <1>2, Emitted
<1>4. Loop!Shown' = FirstOf(n)
  BY <1>1, <1>3, FirstOfs
<1>5. Loop!Shown \cap Loop!ToSet(QueueOrder) = {QueueOrder[k] : k \in 1..(n - 1)}
  BY QueueOrderFacts DEF FirstOf
<1>6. Loop!InOrder(QueueOrder)'
  <2>1. n \in 1..Len(QueueOrder)
    BY QueueOrderFacts
  <2>2. c \in Loop!ToSet(QueueOrder) => \E k \in 1..Len(QueueOrder) :
          /\ c = QueueOrder[k]
          /\ Loop!Shown \cap Loop!ToSet(QueueOrder) = {QueueOrder[m] : m \in 1..(k - 1)}
    BY <1>1, <1>5, <2>1
  <2>3. Loop!InOrder(QueueOrder)
    BY DEF QueueInv
  <2>4. trace' = Append(trace, c)
    BY <1>3
  <2> QED BY <2>2, <2>3, <2>4, QueueKeepsOrder
<1>7. "result" \in FirstOf(n) => n = 8
  BY QueueOrderFacts DEF FirstOf
<1> QED BY <1>4, <1>6, <1>7

LEMMA TimingTurn ==
  ASSUME LoopInv, InTurn, loopDemo = "queue", QueueInv, loopResult = "none", Timing,
         NEW c \in Loop!Callbacks, Due(c), \A a : Scheduled(a) /\ Adding(c, a) => Turn(c, a)
  PROVE  QueueInv'
<1>0. ~closed
  BY DEF LoopInv
<1>1. PICK n, k : /\ Fires(n, k)
                  /\ \/ n = 0 /\ k = 0
                     \/ n = 3 /\ k = 1
                     \/ n = 4 /\ k = 2
                     \/ n = 5 /\ k = 3
                     \/ n = 6 /\ k = 4
  BY DEF Timing
<1>2. n \in 0..6 /\ k \in 0..4
  BY <1>1
<1>3. ticks = <<>> /\ micros = <<>> /\ immediates = <<>> /\ batch = <<>> /\ io = {}
      /\ timers = Left(k) /\ Loop!Shown = FirstOf(n)
  BY <1>1 DEF Fires, Queues, Soon
<1>4. \A i \in 1..Len(timers) : (\A m \in 1..(i - 1) : timers[m][1] > timers[i][1]) =>
        timers[i][2] = Loop!Queued[k + 1] /\ Loop!RemoveAt(timers, i) = Left(k + 1)
  BY <1>2, <1>3, LeftTimers
<1>5. c = Loop!Queued[k + 1] /\ draining = "none" /\ loopAt = "timers"
  BY <1>3, <1>4 DEF Due
<1>6. /\ Loop!Queued[1] = "first" /\ Loop!Queued[2] = "second" /\ Loop!Queued[3] = "third"
      /\ Loop!Queued[4] = "fourth" /\ Loop!Queued[5] = "fifth"
      /\ Loop!ToSet(Loop!Queued) = {"first", "second", "third", "fourth", "fifth"}
  BY DEF Loop!Queued, Loop!ToSet
<1>7. c = QueueOrder[n + 1] /\ n + 1 \in 1..8 /\ (n + 1) - 1 = n
  BY <1>1, <1>5, <1>6, QueueOrderFacts
<1>8. CASE n = 0
  <2>1. c = "first" /\ k = 0
    BY <1>1, <1>5, <1>6, <1>8
  <2>2. PICK a : a = Loop!Adds(<<"tick">>, <<"then">>, <<>>, <<>>, {})
    OBVIOUS
  <2>3. /\ a.ticks = <<"tick">> /\ a.micros = <<"then">> /\ a.timers = <<>> /\ a.immediates = <<>>
        /\ a.io = {} /\ Scheduled(a)
    BY <2>2, Names DEF Loop!Adds, Scheduled
  <2>4. Loop!Completed(c) = {}
    <3>1. ~(Loop!ToSet(Loop!Queued) \subseteq Loop!Shown \cup {c})
      BY <1>3, <1>6, <1>8, <2>1, FirstOfs
    <3> QED BY <3>1, QueueJoins
  <2>5. Turn(c, a)
    BY <2>1, <2>2, <2>3, <2>4, QueueAdds DEF Adding
  <2>6. PICK i \in 1..Len(timers) :
          /\ \A m \in 1..(i - 1) : timers[m][1] > timers[i][1]
          /\ Leaves(c, ticks \o a.ticks, micros \o a.micros,
                    Loop!RemoveAt(timers, i) \o a.timers,
                    immediates \o a.immediates, io \cup a.io)
          /\ draining' = "ticks" /\ batch' = batch
    BY <1>5, <2>5 DEF Turn
  <2>7. Loop!RemoveAt(timers, i) = Left(1) /\ Loop!RemoveAt(timers, i) \o <<>> = Left(1)
    <3>1. Loop!RemoveAt(timers, i) \in Seq(Nat \X Loop!Callbacks)
      BY TimerTaken DEF LoopInv, Scheduled, Loop!Now
    <3>2. Loop!RemoveAt(timers, i) = Left(1)
      BY <1>4, <2>1, <2>6
    <3> QED BY <3>1, <3>2, Empties
  <2>8. <<>> \o <<"tick">> = <<"tick">> /\ <<>> \o <<"then">> = <<"then">> /\ <<>> \o <<>> = <<>>
    BY Short, Empties
  <2>9. /\ Loop!Emit(c) /\ loopResult' = "none"
        /\ Queues(<<"tick">>, <<"then">>, Left(1), <<>>, {})' /\ draining' = "ticks"
    BY <1>3, <2>1, <2>3, <2>6, <2>7, <2>8 DEF Leaves, Queues, Soon
  <2>10. Loop!Shown' = FirstOf(1) /\ Loop!InOrder(QueueOrder)'
         /\ ("result" \in Loop!Shown' => FirstOf(8) \subseteq Loop!Shown')
    BY <1>0, <1>3, <1>7, <1>8, <2>9, NextInOrder
  <2> QED BY <2>9, <2>10 DEF QueueInv, AfterFirst
<1>9. CASE n \in 3..5
  <2>1. c \in {"second", "third", "fourth"} /\ k \in 1..3 /\ k + 1 \in 2..4
    BY <1>1, <1>5, <1>6, <1>9
  <2>2. Loop!Completed(c) = {}
    <3>1. "fifth" \notin Loop!Shown \cup {c}
      BY <1>3, <1>9, <2>1, QueueOrderFacts DEF FirstOf
    <3> QED BY <1>6, <3>1, QueueJoins
  <2>3. Turn(c, Loop!None)
    BY <2>1, <2>2, QueueAdds, Scheduling DEF Adding
  <2>4. /\ Loop!Emit(c) /\ loopResult' = "none" /\ Queues(<<>>, <<>>, Left(k + 1), <<>>, {})'
    <3>1. UNCHANGED <<ticks, micros, immediates, io, batch>> /\ timers' = Left(k + 1)
      BY <1>3, <1>4, <1>5, <2>3, NoneAdded
    <3>2. Loop!Emit(c) /\ loopResult' = "none"
      BY <2>1, <2>3, NoneAdded
    <3> QED BY <1>3, <3>1, <3>2 DEF Queues, Soon
  <2>5. Loop!Shown' = FirstOf(n + 1) /\ Loop!InOrder(QueueOrder)'
        /\ ("result" \in Loop!Shown' => FirstOf(8) \subseteq Loop!Shown')
    BY <1>0, <1>3, <1>7, <2>4, NextInOrder
  <2>6. Timing'
    <3>1. Fires(n + 1, k + 1)'
      BY <2>4, <2>5 DEF Fires
    <3>2. \/ n + 1 = 4 /\ k + 1 = 2
          \/ n + 1 = 5 /\ k + 1 = 3
          \/ n + 1 = 6 /\ k + 1 = 4
      BY <1>1, <1>9
    <3> QED BY <3>1, <3>2 DEF Timing
  <2> QED BY <2>4, <2>5, <2>6 DEF QueueInv
<1>10. CASE n = 6
  <2>1. c = "fifth" /\ k = 4
    BY <1>1, <1>5, <1>6, <1>10
  <2>2. PICK a : a = Loop!Adds(<<>>, <<>>, <<>>, <<"resolve">>, {})
    OBVIOUS
  <2>3. /\ a.ticks = <<>> /\ a.micros = <<>> /\ a.timers = <<>> /\ a.immediates = <<"resolve">>
        /\ a.io = {} /\ Scheduled(a)
    BY <2>2, Scheduling, Names DEF Loop!Adds
  <2>4. Turn(c, a)
    <3>1. Loop!ToSet(Loop!Queued) \subseteq Loop!Shown \cup {c} /\ c \in Loop!ToSet(Loop!Queued)
      BY <1>3, <1>6, <1>10, <2>1, FirstOfs
    <3>2. Loop!Schedules(c) = Loop!None
      BY <2>1, QueueAdds
    <3> QED BY <2>2, <2>3, <3>1, <3>2, QueueJoins DEF Adding
  <2>5. PICK i \in 1..Len(timers) :
          /\ \A m \in 1..(i - 1) : timers[m][1] > timers[i][1]
          /\ Leaves(c, ticks \o a.ticks, micros \o a.micros,
                    Loop!RemoveAt(timers, i) \o a.timers,
                    immediates \o a.immediates, io \cup a.io)
          /\ batch' = batch
    BY <1>5, <2>4 DEF Turn
  <2>6. Loop!RemoveAt(timers, i) = <<>>
    BY <1>4, <2>1, <2>5, NoneLeft
  <2>7. <<>> \o <<"resolve">> = <<"resolve">> /\ <<>> \o <<>> = <<>>
    BY Short, Empties
  <2>8. Loop!Emit(c) /\ loopResult' = "none" /\ Queues(<<>>, <<>>, <<>>, <<"resolve">>, {})'
    BY <1>3, <2>1, <2>3, <2>5, <2>6, <2>7 DEF Leaves, Queues, Soon
  <2>9. Loop!Shown' = FirstOf(7) /\ Loop!InOrder(QueueOrder)'
        /\ ("result" \in Loop!Shown' => FirstOf(8) \subseteq Loop!Shown')
    BY <1>0, <1>3, <1>7, <1>10, <2>8, NextInOrder
  <2> QED BY <2>8, <2>9 DEF QueueInv, Resolves
<1> QED BY <1>1, <1>8, <1>9, <1>10

LEMMA AfterFirstTurn ==
  ASSUME LoopInv, InTurn, loopDemo = "queue", QueueInv, loopResult = "none", AfterFirst,
         NEW c \in Loop!Callbacks, Due(c), \A a : Scheduled(a) /\ Adding(c, a) => Turn(c, a)
  PROVE  QueueInv'
<1>0. /\ ~closed /\ \A x : <<x>> # <<>> /\ Tail(<<x>>) = <<>> /\ Head(<<x>>) = x
  BY Short DEF LoopInv
<1>1. \/ /\ Loop!Shown = FirstOf(1) /\ draining = "ticks" /\ c = "tick"
         /\ Queues(<<"tick">>, <<"then">>, Left(1), <<>>, {})
      \/ /\ Loop!Shown = FirstOf(2) /\ c = "then" /\ draining = "micros"
         /\ Queues(<<>>, <<"then">>, Left(1), <<>>, {})
  BY <1>0 DEF AfterFirst, Due, InTurn, Queues
<1>2. Turn(c, Loop!None)
  <2>1. Loop!Completed(c) = {}
    BY <1>1, QueueJoins DEF Loop!Queued, Loop!ToSet
  <2> QED BY <1>1, <2>1, QueueAdds, Scheduling DEF Adding
<1>3. Loop!Emit(c) /\ loopResult' = "none"
  BY <1>1, <1>2, NoneAdded
<1>4. UNCHANGED <<timers, immediates, io, batch>> /\
        \/ draining = "ticks" /\ ticks' = Tail(ticks) /\ micros' = micros
        \/ draining = "micros" /\ micros' = Tail(micros) /\ ticks' = ticks
  BY <1>1, <1>2, NoneAdded
<1>5. CASE c = "tick"
  <2>1. Queues(<<>>, <<"then">>, Left(1), <<>>, {})'
    BY <1>0, <1>1, <1>4, <1>5 DEF Queues, Soon
  <2>2. Loop!Shown' = FirstOf(2) /\ Loop!InOrder(QueueOrder)'
        /\ ("result" \in Loop!Shown' => FirstOf(8) \subseteq Loop!Shown')
    <3>1. c = QueueOrder[2] /\ 2 \in 1..8 /\ 2 - 1 = 1 /\ Loop!Shown = FirstOf(1)
      BY <1>1, <1>5, QueueOrderFacts
    <3> QED BY <1>0, <1>3, <3>1, NextInOrder
  <2> QED BY <1>3, <2>1, <2>2 DEF QueueInv, AfterFirst
<1>6. CASE c = "then"
  <2>1. Queues(<<>>, <<>>, Left(1), <<>>, {})'
    BY <1>0, <1>1, <1>4, <1>6 DEF Queues, Soon
  <2>2. Loop!Shown' = FirstOf(3) /\ Loop!InOrder(QueueOrder)'
        /\ ("result" \in Loop!Shown' => FirstOf(8) \subseteq Loop!Shown')
    <3>1. c = QueueOrder[3] /\ 3 \in 1..8 /\ 3 - 1 = 2 /\ Loop!Shown = FirstOf(2)
      BY <1>1, <1>6, QueueOrderFacts
    <3> QED BY <1>0, <1>3, <3>1, NextInOrder
  <2> QED BY <1>3, <2>1, <2>2 DEF QueueInv, Timing, Fires
<1> QED BY <1>1, <1>5, <1>6

LEMMA ResolvesTurn ==
  ASSUME LoopInv, InTurn, loopDemo = "queue", QueueInv, loopResult = "none", Resolves,
         NEW c \in Loop!Callbacks, Due(c), \A a : Scheduled(a) /\ Adding(c, a) => Turn(c, a)
  PROVE  QueueInv'
<1>0. /\ ~closed /\ \A x : <<x>> # <<>> /\ Tail(<<x>>) = <<>> /\ Head(<<x>>) = x
  BY Short DEF LoopInv
<1>1. Loop!Completed(c) = {} /\ c \in {"resolve", "result"}
  <2>1. c \in {"resolve", "result"}
    BY <1>0 DEF Due, InTurn, Resolves, Queues, Soon
  <2> QED BY <2>1, QueueJoins DEF Loop!Queued, Loop!ToSet
<1>2. CASE c = "resolve"
  <2>1. /\ Queues(<<>>, <<>>, <<>>, <<"resolve">>, {}) /\ draining = "none" /\ batch # <<>>
    BY <1>0, <1>2 DEF Due, InTurn, Resolves, Queues, Soon
  <2>2. Turn(c, Loop!Then("result"))
    BY <1>1, <1>2, QueueAdds, Scheduling, Names DEF Adding
  <2>3. Loop!Emit(c) /\ loopResult' = "none" /\ Queues(<<>>, <<"result">>, <<>>, <<>>, {})'
    <3>1. ticks = <<>> /\ micros = <<>> /\ timers = <<>> /\ io = {} /\ immediates = <<>>
          /\ batch = <<"resolve">> /\ Len(timers) = 0
      BY <2>1 DEF Queues, Soon
    <3>2. /\ Loop!Emit(c) /\ loopResult' = "none" /\ ticks' = <<>> /\ micros' = <<"result">>
          /\ UNCHANGED <<immediates, io, timers>> /\ batch' = <<>>
      BY <1>0, <1>2, <2>2, <3>1, ThenAdded, Names
    <3> QED BY <3>1, <3>2 DEF Queues, Soon
  <2>4. trace' = trace /\ Loop!Shown' = Loop!Shown
    BY <1>2, <2>3, Emitted DEF Loop!Silent
  <2>5. Loop!InOrder(QueueOrder)'
    <3>1. PICK order : order = QueueOrder
      OBVIOUS
    <3>2. Loop!InOrder(order)
      BY <3>1 DEF QueueInv
    <3>3. Loop!InOrder(order)'
      BY <2>4, <3>2, OrderKept
    <3> QED BY <3>1, <3>3 DEF QueueOrder
  <2> QED BY <2>3, <2>4, <2>5 DEF QueueInv, Resolves
<1>3. CASE c = "result"
  <2>1. /\ Queues(<<>>, <<"result">>, <<>>, <<>>, {}) /\ draining = "micros"
    BY <1>0, <1>3 DEF Due, InTurn, Resolves, Queues, Soon
  <2>2. Turn(c, Loop!None)
    BY <1>1, <1>3, QueueAdds, Scheduling DEF Adding
  <2>3. Loop!Emit(c) /\ loopResult' = "done" /\ Queues(<<>>, <<>>, <<>>, <<>>, {})'
    BY <1>0, <1>3, <2>1, <2>2, NoneAdded DEF Queues, Soon
  <2>4. Loop!Shown' = FirstOf(8) /\ Loop!InOrder(QueueOrder)'
        /\ ("result" \in Loop!Shown' => FirstOf(8) \subseteq Loop!Shown')
    <3>1. c = QueueOrder[8] /\ 8 \in 1..8 /\ 8 - 1 = 7 /\ Loop!Shown = FirstOf(7)
      BY <1>3, QueueOrderFacts DEF Resolves
    <3> QED BY <1>0, <2>3, <3>1, NextInOrder
  <2> QED BY <2>3, <2>4 DEF QueueInv, Finished
<1> QED BY <1>1, <1>2, <1>3

LEMMA QueueStep ==
  ASSUME LoopInv, InTurn, loopDemo = "queue", QueueInv, [Loop!LoopNext]_(Loop!loopVars)
  PROVE  QueueInv'
<1>1. CASE \/ Loop!QueueDrained \/ Loop!IoFails \/ Loop!NextPhase \/ Loop!Answer
           \/ UNCHANGED Loop!loopVars
  BY <1>1, QuietQueue
<1>2. ASSUME NEW c \in Loop!Callbacks, Due(c), \A a : Scheduled(a) /\ Adding(c, a) => Turn(c, a)
      PROVE  QueueInv'
  <2>1. ~Finished
    BY <1>2 DEF Finished, Queues, Soon, Due
  <2> QED BY <1>2, <2>1, TimingTurn, AfterFirstTurn, ResolvesTurn DEF QueueInv
<1> QED BY <1>1, <1>2, LoopTurns

-----------------------------------------------------------------------------
(* libuvThreadPool and eventDemultiplexer wait for all of three.           *)
GatherInv(W) ==
  /\ ticks = <<>> /\ immediates = <<>> /\ batch = <<>> /\ io \subseteq W
  /\ \/ micros = <<>>
     \/ micros = <<"result">> /\ (closed \/ W \subseteq Loop!Shown)
  /\ \/ timers = <<>>
     \/ timers = << <<180, "timer">> >> /\ "timer" \in W
  /\ "result" \in Loop!Shown => W \subseteq Loop!Shown

(* What such a demo waits for, and that nothing but their join adds more.  *)
Gathers(W) ==
  /\ IsFiniteSet(W) /\ Cardinality(W) = 3
  /\ W \subseteq Loop!Callbacks \ (Loop!Silent \cup {"main", "result"})
  /\ Loop!Joins = {Loop!Join(W, 3, Loop!Then("result"))}
  /\ \A c : c # "main" => Loop!Schedules(c) = Loop!None

LEMMA GatherAdds ==
  ASSUME NEW W, Gathers(W), NEW c, c # "main"
  PROVE  /\ c \in W /\ W \subseteq Loop!Shown \cup {c} => Adding(c, Loop!Then("result"))
         /\ c \notin W \/ ~(W \subseteq Loop!Shown \cup {c}) => Adding(c, Loop!None)
<1>1. PICK join : join = Loop!Join(W, 3, Loop!Then("result"))
  OBVIOUS
<1>2. join.of = W /\ join.count = 3 /\ join.next = Loop!Then("result")
  BY <1>1 DEF Loop!Join
<1>3. Loop!Joins = {join} /\ Loop!Schedules(c) = Loop!None
  BY <1>1 DEF Gathers
<1>4. \A j : j \in Loop!Completed(c) <=>
        j = join /\ c \in W /\ Cardinality(W \cap (Loop!Shown \cup {c})) = 3
  BY <1>2, <1>3 DEF Loop!Completed, Loop!Cardinality, Cardinality
<1>5. Cardinality(W \cap (Loop!Shown \cup {c})) = 3 <=> W \subseteq Loop!Shown \cup {c}
  BY FullJoin DEF Gathers
<1>6. c \notin W \/ ~(W \subseteq Loop!Shown \cup {c}) => Loop!Completed(c) = {}
  BY <1>4, <1>5
<1>7. c \in W /\ W \subseteq Loop!Shown \cup {c} => Loop!Completed(c) = {join}
  BY <1>4, <1>5
<1> QED BY <1>2, <1>3, <1>6, <1>7 DEF Adding

LEMMA GatherQuiet ==
  ASSUME LoopInv, InTurn, NEW W, Gathers(W), GatherInv(W),
         \/ Loop!QueueDrained \/ Loop!IoFails \/ Loop!NextPhase \/ Loop!Answer
         \/ UNCHANGED Loop!loopVars
  PROVE  GatherInv(W)'
<1>1. CASE Loop!QueueDrained \/ UNCHANGED Loop!loopVars
  <2>1. UNCHANGED <<ticks, micros, timers, immediates, io, batch, trace, closed>>
    BY <1>1 DEF Loop!QueueDrained, Loop!loopVars, Loop!queues
  <2> QED BY <2>1 DEF GatherInv, Loop!Shown
<1>2. CASE Loop!NextPhase
  <2>1. /\ UNCHANGED <<ticks, micros, timers, io, trace, closed>>
        /\ immediates' = <<>> /\ batch' = <<>>
    BY <1>2 DEF Loop!NextPhase, GatherInv
  <2> QED BY <2>1 DEF GatherInv, Loop!Shown
<1>3. CASE Loop!IoFails
  <2>1. UNCHANGED <<ticks, micros, timers, immediates, batch, trace, closed>> /\ io' \subseteq io
    BY <1>3 DEF Loop!IoFails
  <2> QED BY <2>1 DEF GatherInv, Loop!Shown
<1>4. CASE Loop!Answer
  <2>1. /\ UNCHANGED <<ticks, micros, timers, immediates, io, batch>> /\ closed'
        /\ loopResult \in {"done", "failed"} /\ trace' = Append(trace, loopResult)
    BY <1>4 DEF Loop!Answer, Loop!queues, LoopInv
  <2>2. Loop!Shown' = Loop!Shown \cup {loopResult}
    BY <2>1, Appended
  <2>3. "result" # loopResult
    BY <2>1
  <2> QED BY <2>1, <2>2, <2>3 DEF GatherInv
<1> QED BY <1>1, <1>2, <1>3, <1>4

LEMMA GatherTurn ==
  ASSUME LoopInv, InTurn, NEW W, Gathers(W), GatherInv(W),
         NEW c \in Loop!Callbacks, Due(c), \A a : Scheduled(a) /\ Adding(c, a) => Turn(c, a)
  PROVE  GatherInv(W)'
<1>0. \A x : <<x>> # <<>> /\ Tail(<<x>>) = <<>> /\ Head(<<x>>) = x
  BY Short
<1>1. \A i \in 1..Len(timers) : timers[i][2] = "timer" /\ "timer" \in W /\ Loop!RemoveAt(timers, i) = <<>>
  <2>1. CASE timers = <<>>
    BY <2>1
  <2>2. CASE timers = << <<180, "timer">> >> /\ "timer" \in W
    <3>1. \A i \in 1..Len(timers) : timers[i][2] = "timer" /\ Loop!RemoveAt(timers, i) = <<>>
      BY <2>2, OneTimer, Names
    <3> QED BY <2>2, <3>1
  <2> QED BY <2>1, <2>2 DEF GatherInv
<1>2. \/ draining = "micros" /\ c = "result" /\ micros = <<"result">>
      \/ draining = "none" /\ c \in W /\ micros = <<>> /\ batch = <<>>
  BY <1>0, <1>1 DEF Due, InTurn, GatherInv
<1>3. c # "main" /\ c \notin Loop!Silent /\ ("result" \notin W)
  BY <1>2 DEF Gathers, Loop!Silent
<1>4. CASE c = "result"
  <2>1. Turn(c, Loop!None)
    BY <1>3, <1>4, GatherAdds, Scheduling
  <2>2. /\ Loop!Emit(c) /\ closed' = closed /\ ticks' = ticks /\ micros' = <<>>
        /\ UNCHANGED <<timers, immediates, io, batch>>
    BY <1>0, <1>2, <1>3, <1>4, <2>1, NoneAdded
  <2>3. /\ closed => Loop!Shown' = Loop!Shown
        /\ ~closed => Loop!Shown' = Loop!Shown \cup {"result"} /\ W \subseteq Loop!Shown
    BY <1>0, <1>2, <1>3, <1>4, <2>2, Emitted DEF GatherInv
  <2> QED BY <2>2, <2>3 DEF GatherInv
<1>5. CASE c # "result"
  <2>1. draining = "none" /\ c \in W /\ micros = <<>> /\ batch = <<>> /\ ticks = <<>>
    BY <1>2, <1>5 DEF InTurn
  <2>2. ASSUME W \subseteq Loop!Shown \cup {c} PROVE GatherInv(W)'
    <3>1. Turn(c, Loop!Then("result"))
      BY <1>3, <2>1, <2>2, GatherAdds, Scheduling, Names
    <3>2. /\ Loop!Emit(c) /\ closed' = closed /\ ticks' = <<>> /\ micros' = <<"result">>
          /\ UNCHANGED <<immediates, batch>> /\ io' \subseteq io
          /\ timers' = timers \/ timers' = <<>>
      <4>1. \A i \in 1..Len(timers) : Loop!RemoveAt(timers, i) = <<>>
        BY <1>1
      <4> QED BY <1>0, <2>1, <3>1, <4>1, ThenAdded, Names
    <3>3. /\ closed => Loop!Shown' = Loop!Shown
          /\ ~closed => Loop!Shown' = Loop!Shown \cup {c}
      BY <1>3, <3>2, Emitted
    <3>4. /\ closed \/ W \subseteq Loop!Shown'
          /\ "result" \in Loop!Shown' => W \subseteq Loop!Shown'
      BY <1>5, <2>2, <3>3 DEF GatherInv
    <3> QED BY <3>2, <3>4 DEF GatherInv
  <2>3. ASSUME ~(W \subseteq Loop!Shown \cup {c}) PROVE GatherInv(W)'
    <3>1. Turn(c, Loop!None)
      BY <1>3, <2>3, GatherAdds, Scheduling
    <3>2. /\ Loop!Emit(c) /\ closed' = closed /\ ticks' = <<>> /\ micros' = <<>>
          /\ UNCHANGED <<immediates, batch>> /\ io' \subseteq io
          /\ timers' = timers \/ timers' = <<>>
      <4>1. \A i \in 1..Len(timers) : Loop!RemoveAt(timers, i) = <<>>
        BY <1>1
      <4> QED BY <2>1, <3>1, <4>1, NoneAdded
    <3>3. Loop!Shown' = Loop!Shown \/ Loop!Shown' = Loop!Shown \cup {c}
      BY <1>3, <3>2, Emitted
    <3> QED BY <1>5, <3>2, <3>3 DEF GatherInv
  <2> QED BY <2>2, <2>3
<1> QED BY <1>4, <1>5

LEMMA GatherStep ==
  ASSUME LoopInv, InTurn, NEW W, Gathers(W), GatherInv(W), [Loop!LoopNext]_(Loop!loopVars)
  PROVE  GatherInv(W)'
  BY GatherQuiet, GatherTurn, LoopTurns

PoolGathers == Loop!Pbkdf2
SourcesGather == Loop!Sources \cup {"timer"}

LEMMA PoolDemo == loopDemo = "pool" => Gathers(PoolGathers)
<1> SUFFICES ASSUME loopDemo = "pool" PROVE Gathers(PoolGathers)
  OBVIOUS
<1>1. IsFiniteSet({"job1", "job2", "job3"}) /\ Cardinality({"job1", "job2", "job3"}) = 3
  <2>1. "job1" \notin {"job2", "job3"} /\ "job2" # "job3"
    OBVIOUS
  <2> QED BY <2>1, ThreeOf
<1>2. PoolGathers \subseteq Loop!Callbacks \ (Loop!Silent \cup {"main", "result"})
  BY Names DEF PoolGathers, Loop!Pbkdf2, Loop!Silent
<1>3. /\ Loop!Joins = {Loop!Join(PoolGathers, 3, Loop!Then("result"))}
      /\ \A c : c # "main" => Loop!Schedules(c) = Loop!None
  BY DEF PoolGathers, Loop!Joins, Loop!ThreadPoolJoins, Loop!Schedules, Loop!LibuvThreadPool
<1> QED BY <1>1, <1>2, <1>3 DEF Gathers, PoolGathers, Loop!Pbkdf2

LEMMA DemultiplexerDemo == loopDemo = "demultiplexer" => Gathers(SourcesGather)
<1> SUFFICES ASSUME loopDemo = "demultiplexer" PROVE Gathers(SourcesGather)
  OBVIOUS
<1>0. SourcesGather = {"readFile", "lookup", "timer"}
  BY DEF SourcesGather, Loop!Sources
<1>1. IsFiniteSet({"readFile", "lookup", "timer"}) /\ Cardinality({"readFile", "lookup", "timer"}) = 3
  <2>1. "readFile" \notin {"lookup", "timer"} /\ "lookup" # "timer"
    OBVIOUS
  <2> QED BY <2>1, ThreeOf
<1>2. SourcesGather \subseteq Loop!Callbacks \ (Loop!Silent \cup {"main", "result"})
  BY <1>0, Names DEF Loop!Silent
<1>3. /\ Loop!Joins = {Loop!Join(SourcesGather, 3, Loop!Then("result"))}
      /\ \A c : c # "main" => Loop!Schedules(c) = Loop!None
  BY DEF SourcesGather, Loop!Joins, Loop!DemultiplexerJoins, Loop!Schedules,
     Loop!EventDemultiplexer
<1> QED BY <1>0, <1>1, <1>2, <1>3 DEF Gathers

-----------------------------------------------------------------------------
(* A demo that is done has shown its result: nothing closes the stream     *)
(* before.                                                                 *)
DoneShown == loopResult = "done" => "result" \in Loop!Shown

LEMMA CallShown ==
  ASSUME LoopInv, DoneShown, NEW c, NEW q, Loop!Call(c, q)
  PROVE  DoneShown'
<1>1. /\ Loop!Emit(c)
      /\ loopResult' = IF c = "result" /\ loopResult = "none" THEN "done" ELSE loopResult
  BY DEF Loop!Call
<1>2. Loop!Shown' = Loop!Shown \/ Loop!Shown' = Loop!Shown \cup {c}
  BY <1>1, Emitted
<1>3. CASE c = "result" /\ loopResult = "none"
  <2>1. ~closed /\ c \notin Loop!Silent
    BY <1>3 DEF LoopInv, Loop!Silent
  <2>2. Loop!Shown' = Loop!Shown \cup {c}
    BY <1>1, <2>1, Emitted
  <2> QED BY <1>3, <2>2 DEF DoneShown
<1>4. CASE ~(c = "result" /\ loopResult = "none")
  BY <1>1, <1>2, <1>4 DEF DoneShown
<1> QED BY <1>3, <1>4

LEMMA DoneStep ==
  ASSUME LoopInv, DoneShown, [Loop!LoopNext]_(Loop!loopVars)
  PROVE  DoneShown' /\ loopDemo' = loopDemo
<1>1. CASE Loop!RunTick \/ Loop!RunMicrotask \/ Loop!RunTimer \/ Loop!RunIo \/ Loop!RunImmediate
  <2>1. \E c, q : Loop!Call(c, q)
    BY <1>1 DEF Loop!RunTick, Loop!RunMicrotask, Loop!RunTimer, Loop!RunIo, Loop!RunImmediate
  <2>2. PICK c, q : Loop!Call(c, q)
    BY <2>1
  <2>3. DoneShown'
    BY <2>2, CallShown
  <2>4. loopDemo' = loopDemo
    BY <2>2 DEF Loop!Call
  <2> QED BY <2>3, <2>4
<1>2. CASE Loop!QueueDrained \/ Loop!NextPhase \/ UNCHANGED Loop!loopVars
  BY <1>2 DEF Loop!QueueDrained, Loop!NextPhase, Loop!loopVars, DoneShown, Loop!Shown
<1>3. CASE Loop!IoFails
  BY <1>3 DEF Loop!IoFails, DoneShown, Loop!Shown
<1>4. CASE Loop!Answer
  <2>1. Loop!Shown' = Loop!Shown \cup {loopResult} /\ loopResult' = loopResult /\ loopDemo' = loopDemo
    BY <1>4, Appended DEF Loop!Answer
  <2> QED BY <2>1 DEF DoneShown
<1> QED BY <1>1, <1>2, <1>3, <1>4 DEF Loop!LoopNext

(* Each demo in its own stages.                                            *)
ReportInv ==
  /\ InTurn /\ DoneShown
  /\ loopDemo = "order" => RoundInv
  /\ loopDemo = "queue" => QueueInv
  /\ loopDemo = "pool" => GatherInv(PoolGathers)
  /\ loopDemo = "demultiplexer" => GatherInv(SourcesGather)

LEMMA OrderBegins == Loop!LoopInit /\ loopDemo = "order" => RoundInv
<1> SUFFICES ASSUME Loop!LoopInit, loopDemo = "order" PROVE RoundInv
  OBVIOUS
<1>1. Loop!Schedules("main") = Loop!OuterRound
  BY DEF Loop!Schedules, Loop!EventLoopOrder
<1>2. /\ ticks = <<"tick">> /\ micros = <<"then", "microtask">> /\ timers = << <<1, "timer">> >>
      /\ immediates = <<"immediate">> /\ io = {} /\ batch = <<>> /\ trace = <<>>
      /\ loopResult = "none"
  BY <1>1 DEF Loop!LoopInit, Loop!OuterRound, Loop!Adds
<1>3. Loop!Shown = {} /\ Loop!InOrder(IoOrder)
  BY <1>2 DEF Loop!Shown, Loop!ToSet, Loop!InOrder
<1>4. /\ ticks \in Seq(FirstThree) /\ micros \in Seq(FirstThree)
      /\ Loop!ToSet(ticks) = {"tick"} /\ Loop!ToSet(micros) = {"then", "microtask"}
  BY <1>2 DEF FirstThree, Loop!ToSet
<1>5. Begun
  BY <1>2, <1>3, <1>4 DEF Begun, FirstThree, Soon
<1> QED BY <1>2, <1>3, <1>5 DEF RoundInv

LEMMA QueueBegins == Loop!LoopInit /\ loopDemo = "queue" => QueueInv
<1> SUFFICES ASSUME Loop!LoopInit, loopDemo = "queue" PROVE QueueInv
  OBVIOUS
<1>1. Loop!Schedules("main") =
        Loop!Adds(<<>>, <<>>, [n \in 1..5 |-> <<1, Loop!Queued[n]>>], <<>>, {})
  BY DEF Loop!Schedules, Loop!CallbackQueue
<1>2. /\ ticks = <<>> /\ micros = <<>> /\ timers = [n \in 1..5 |-> <<1, Loop!Queued[n]>>]
      /\ immediates = <<>> /\ io = {} /\ batch = <<>> /\ trace = <<>> /\ loopResult = "none"
  BY <1>1 DEF Loop!LoopInit, Loop!Adds
<1>3. Loop!Shown = {} /\ Loop!InOrder(QueueOrder)
  BY <1>2 DEF Loop!Shown, Loop!ToSet, Loop!InOrder
<1>4. timers = Left(0)
  <2>1. 5 - 0 = 5 /\ \A n \in 1..5 : 0 + n = n
    OBVIOUS
  <2> QED BY <1>2, <2>1 DEF Left
<1>5. Fires(0, 0)
  BY <1>2, <1>3, <1>4, FirstOfs DEF Fires, Queues, Soon
<1>6. Timing
  BY <1>5 DEF Timing
<1> QED BY <1>2, <1>3, <1>6 DEF QueueInv

LEMMA GatheringBegins ==
  Loop!LoopInit => /\ loopDemo = "pool" => GatherInv(PoolGathers)
                   /\ loopDemo = "demultiplexer" => GatherInv(SourcesGather)
<1> SUFFICES ASSUME Loop!LoopInit
             PROVE  /\ loopDemo = "pool" => GatherInv(PoolGathers)
                    /\ loopDemo = "demultiplexer" => GatherInv(SourcesGather)
  OBVIOUS
<1>1. trace = <<>> /\ batch = <<>>
  BY DEF Loop!LoopInit
<1>2. Loop!Shown = {}
  BY <1>1 DEF Loop!Shown, Loop!ToSet
<1>3. ASSUME loopDemo = "pool" PROVE GatherInv(PoolGathers)
  <2>1. Loop!Schedules("main") = Loop!Adds(<<>>, <<>>, <<>>, <<>>, Loop!Pbkdf2)
    BY <1>3 DEF Loop!Schedules, Loop!LibuvThreadPool
  <2>2. /\ ticks = <<>> /\ micros = <<>> /\ timers = <<>> /\ immediates = <<>>
        /\ io = Loop!Pbkdf2
    BY <2>1 DEF Loop!LoopInit, Loop!Adds
  <2> QED BY <1>1, <1>2, <2>2 DEF GatherInv, PoolGathers
<1>4. ASSUME loopDemo = "demultiplexer" PROVE GatherInv(SourcesGather)
  <2>1. Loop!Schedules("main") = Loop!Adds(<<>>, <<>>, << <<180, "timer">> >>, <<>>, Loop!Sources)
    BY <1>4 DEF Loop!Schedules, Loop!EventDemultiplexer
  <2>2. /\ ticks = <<>> /\ micros = <<>> /\ timers = << <<180, "timer">> >> /\ immediates = <<>>
        /\ io = Loop!Sources
    BY <2>1 DEF Loop!LoopInit, Loop!Adds
  <2> QED BY <1>1, <1>2, <2>2 DEF GatherInv, SourcesGather
<1> QED BY <1>3, <1>4

LEMMA ReportsBegin == Loop!LoopInit => ReportInv
<1>1. Loop!LoopInit => InTurn /\ DoneShown
  BY DEF Loop!LoopInit, InTurn, DoneShown
<1> QED BY <1>1, OrderBegins, QueueBegins, GatheringBegins DEF ReportInv

LEMMA ReportStep == LoopInv /\ ReportInv /\ [Loop!LoopNext]_(Loop!loopVars) => ReportInv'
<1> SUFFICES ASSUME LoopInv, ReportInv, [Loop!LoopNext]_(Loop!loopVars) PROVE ReportInv'
  OBVIOUS
<1>1. InTurn /\ InTurn'
  BY InTurnStays DEF ReportInv
<1>2. DoneShown' /\ loopDemo' = loopDemo
  BY DoneStep DEF ReportInv
<1>3. loopDemo = "order" => RoundInv'
  BY <1>1, RoundStep DEF ReportInv
<1>4. loopDemo = "queue" => QueueInv'
  BY <1>1, QueueStep DEF ReportInv
<1>5. ASSUME loopDemo = "pool" PROVE GatherInv(PoolGathers)'
  <2>1. PICK W : W = PoolGathers
    OBVIOUS
  <2>2. Gathers(W) /\ GatherInv(W)
    BY <1>5, <2>1, PoolDemo DEF ReportInv
  <2>3. GatherInv(W)'
    BY <1>1, <2>2, GatherStep
  <2> QED BY <2>1, <2>3 DEF PoolGathers, Loop!Pbkdf2
<1>6. ASSUME loopDemo = "demultiplexer" PROVE GatherInv(SourcesGather)'
  <2>1. PICK W : W = SourcesGather
    OBVIOUS
  <2>2. Gathers(W) /\ GatherInv(W)
    BY <1>6, <2>1, DemultiplexerDemo DEF ReportInv
  <2>3. GatherInv(W)'
    BY <1>1, <2>2, GatherStep
  <2> QED BY <2>1, <2>3 DEF SourcesGather, Loop!Sources
<1> QED BY <1>1, <1>2, <1>3, <1>4, <1>5, <1>6 DEF ReportInv

LEMMA ReportsHold == ReportInv => LoopReports
<1> SUFFICES ASSUME ReportInv PROVE LoopReports
  OBVIOUS
<1>1. \A c \in {"tick", "then", "microtask", "timer", "immediate"} :
        loopDemo = "order" => Loop!Before(c, "outerResult")
  BY DEF ReportInv, RoundInv, Outer, FirstThree, Loop!Before
<1>2. \A c \in Loop!ToSet(Loop!Queued) \cup {"tick", "then"} :
        loopDemo = "queue" => Loop!Before(c, "result")
  <2>1. Loop!ToSet(Loop!Queued) \cup {"tick", "then"} \subseteq FirstOf(8)
    <3>1. Loop!ToSet(Loop!Queued) = {"first", "second", "third", "fourth", "fifth"}
      BY DEF Loop!ToSet, Loop!Queued
    <3> QED BY <3>1, QueueOrderFacts DEF FirstOf
  <2>2. loopDemo = "queue" /\ "result" \in Loop!Shown => FirstOf(8) \subseteq Loop!Shown
    BY DEF ReportInv, QueueInv
  <2> QED BY <2>1, <2>2 DEF Loop!Before
<1>3. \A c \in Loop!Pbkdf2 : loopDemo = "pool" => Loop!Before(c, "result")
  BY DEF ReportInv, GatherInv, PoolGathers, Loop!Before
<1>4. \A c \in Loop!Sources : loopDemo = "demultiplexer" => Loop!Before(c, "result")
  BY DEF ReportInv, GatherInv, SourcesGather, Loop!Before
<1>5. Loop!ResultsComplete
  BY <1>1, <1>2, <1>3, <1>4 DEF Loop!ResultsComplete, ReportInv, DoneShown
<1>6. Loop!OrderAsTaught
  BY DEF Loop!OrderAsTaught, ReportInv, RoundInv, QueueInv, IoOrder, QueueOrder
<1> QED BY <1>5, <1>6 DEF LoopReports

-----------------------------------------------------------------------------
(* What a demo leaves.  Once the server of a load profile is to close, its *)
(* generator sends no request; when it is closed, no thread is left that   *)
(* could answer or break.                                                  *)
PoolClosed ==
  /\ profile # "loading" => generator # "running"
  /\ profile = "over" => ~dispatching
  /\ NothingLeft

LEMMA PoolCloses ==
  /\ PoolInit => PoolClosed
  /\ PoolClosed /\ [PoolNext]_poolVars => PoolClosed'
<1>1. PoolInit => PoolClosed
  BY DEF PoolInit, PoolClosed, NothingLeft
<1>2. ASSUME PoolClosed, [PoolNext]_poolVars PROVE PoolClosed'
  <2> USE <1>2 DEF PoolClosed, NothingLeft
  <2>1. CASE UNCHANGED poolVars
    BY <2>1 DEF poolVars
  <2>2. CASE Dispatch
    BY <2>2 DEF Dispatch
  <2>3. CASE DispatchEnds
    BY <2>3 DEF DispatchEnds
  <2>4. CASE GeneratorStep
    BY <2>4 DEF GeneratorStep, GeneratorReports, GeneratorBreaks, ConnectionsDrop, pool
  <2>5. CASE ListenFails \/ Load
    BY <2>5 DEF ListenFails, Load, pool
  <2>6. CASE OnReport \/ OnGeneratorError \/ OnTimeout
    BY <2>6 DEF OnReport, OnGeneratorError, OnTimeout, pool
  <2>7. CASE CloseServer
    BY <2>7 DEF CloseServer, pool
  <2>8. CASE ServerClosed
    BY <2>8 DEF ServerClosed, Close
  <2>9. CASE \E j \in Jobs : Run(j)
    BY <2>9 DEF Run
  <2>10. CASE \E s \in Slots : ThreadStep(s)
    BY <2>10 DEF ThreadStep, ThreadAnswers, ThreadBreaks
  <2>11. CASE \E s \in Slots : SlotCallback(s)
    BY <2>11 DEF SlotCallback, OnResult, OnWorkerError, Settle
  <2> QED BY <2>1, <2>2, <2>3, <2>4, <2>5, <2>6, <2>7, <2>8, <2>9, <2>10, <2>11
          DEF PoolNext, ProfileStep
<1> QED BY <1>1, <1>2

(* A scenario that has ended stays so, ...                                 *)
PythonEnded == scenario \in {"done", "skipped", "rejected"}

LEMMA PythonStaysEnded ==
  PythonInv /\ PythonEnded /\ [Python!PythonNext]_(Python!pythonVars) => PythonEnded'
<1> SUFFICES ASSUME PythonInv, PythonEnded, [Python!PythonNext]_(Python!pythonVars)
             PROVE  scenario' = scenario
  BY DEF PythonEnded
<1>1. ASSUME NEW a \in Python!Attempts, interpreter[a] # "none" PROVE settled[a] # "no"
  <2>1. attempt \in Nat /\ a \in Nat /\ AttemptOk(a) /\ OneAttempt
    BY DEF PythonInv, OneAttempt, Python!PythonTypeOK, Python!Attempts
  <2>2. a = attempt => settled[a] # "no"
    BY <1>1, <2>1 DEF OneAttempt, PythonEnded
  <2> QED BY <1>1, <2>1, <2>2 DEF AttemptOk
<1>2. \A a \in Python!Attempts : reading[a] => interpreter[a] # "none"
  BY DEF PythonInv, OneAttempt, AttemptOk
<1>3. ASSUME NEW a \in Python!Attempts,
             Python!OnTimeout(a) \/ Python!OnLine(a) \/ Python!OnError(a) \/ Python!OnClose(a)
      PROVE  scenario' = scenario
  BY <1>1, <1>2, <1>3 DEF Python!OnTimeout, Python!OnLine, Python!OnError, Python!OnClose,
     Python!FinishClosing, Python!Finish
<1>4. ASSUME NEW a \in Python!Attempts, Python!Write(a) \/ Python!Exit(a)
      PROVE  scenario' = scenario
  BY <1>4 DEF Python!Write, Python!Exit
<1>5. ~Python!Spawn
  BY DEF Python!Spawn, PythonEnded
<1>6. UNCHANGED Python!pythonVars => scenario' = scenario
  BY DEF Python!pythonVars
<1> QED BY <1>3, <1>4, <1>5, <1>6 DEF Python!PythonNext

(* ... and leaves no interpreter that nobody has killed.                   *)
NoneAlive == \A a \in 1..Candidates : interpreter[a] = "running" => killed[a]

LEMMA PythonLeavesNone == PythonInv /\ PythonEnded => NoneAlive
<1> SUFFICES ASSUME PythonInv, PythonEnded, NEW a \in 1..Candidates, interpreter[a] = "running"
             PROVE  killed[a]
  BY DEF NoneAlive
<1>1. attempt \in Nat /\ a \in Nat /\ AttemptOk(a) /\ OneAttempt
  BY Profile DEF PythonInv, OneAttempt, Python!PythonTypeOK, Python!Attempts
<1>2. a = attempt => settled[a] # "no"
  BY <1>1 DEF OneAttempt, PythonEnded
<1> QED BY <1>1, <1>2 DEF AttemptOk

LEMMA DatabaseStaysOver ==
  stage = "over" /\ [Database!DatabaseNext]_(Database!databaseVars) => stage' = "over"
  BY DEF Database!DatabaseNext, Database!DatabaseStep, Database!Prepare, Database!Proceed,
     Database!Connect, Database!ConnectSecond, Database!Execute, Database!Fail, Database!Complete,
     Database!Release, Database!DropSchema, Database!PoolEnd, Database!RollbackQuietly,
     Database!LockFails, Database!databaseVars

-----------------------------------------------------------------------------
(* All demos.  A step of Demos is a step of one of them, or of the route.  *)
Steps ==
  /\ [PoolNext]_poolVars
  /\ [Cache!CacheNext]_(Cache!cacheVars)
  /\ [Messages!MessagesNext]_(Messages!messageVars)
  /\ [Python!PythonNext]_(Python!pythonVars)
  /\ [Database!DatabaseNext]_(Database!databaseVars)
  /\ [Bull!BullNext]_(Bull!bullVars)
  /\ [Loop!LoopNext]_(Loop!loopVars)

LEMMA StepOfOne == [Next]_demoVars => Steps
<1> SUFFICES ASSUME [Next]_demoVars PROVE Steps
  OBVIOUS
<1> USE DEF cacheVars, messageVars, pythonVars, databaseVars, bullVars, loopVars, Cache!cacheVars,
        Messages!messageVars, Python!pythonVars, Database!databaseVars, Database!server,
        Bull!bullVars, Loop!loopVars, Loop!queues
<1>1. CASE LoadComparison
  BY <1>1 DEF LoadComparison, Steps
<1>2. CASE Caching
  BY <1>2 DEF Caching, Steps
<1>3. CASE Microservices
  BY <1>3 DEF Microservices, Steps
<1>4. CASE PythonDemo
  BY <1>4 DEF PythonDemo, Steps
<1>5. CASE DatabaseDemo
  BY <1>5 DEF DatabaseDemo, Steps
<1>6. CASE BullMq
  BY <1>6 DEF BullMq, Steps
<1>7. CASE EventLoopDemo
  BY <1>7 DEF EventLoopDemo, Steps
<1>8. CASE Release \/ UNCHANGED demoVars
  BY <1>8 DEF Release, demoVars, Steps
<1> QED BY <1>1, <1>2, <1>3, <1>4, <1>5, <1>6, <1>7, <1>8 DEF Next

DemosInv ==
  /\ demo \in Catalogue /\ permit \in {"held", "released"}
  /\ PoolTypeOK /\ PoolClosed
  /\ CacheInv /\ MessagesInv /\ PythonInv /\ DatabaseInv /\ BullInv /\ LoopInv
  /\ demo # "python" => \A a \in 1..Candidates : interpreter[a] = "none"
  /\ permit = "released" =>
       /\ demo = "python" => PythonEnded
       /\ demo = "database" => stage = "over"

LEMMA DemosBegin == Init => DemosInv
<1> SUFFICES ASSUME Init PROVE DemosInv
  OBVIOUS
<1>1. PoolTypeOK /\ PoolClosed
  BY TypeInit, PoolCloses DEF Init
<1>2. CacheInv /\ MessagesInv /\ PythonInv /\ DatabaseInv /\ BullInv /\ LoopInv
  BY CacheBegins, MessagesBegin, PythonBegins, DatabaseBegins, BullBegins, LoopBegins DEF Init
<1>3. \A a \in 1..Candidates : interpreter[a] = "none"
  BY DEF Init, Python!PythonInit, Python!Attempts
<1> QED BY <1>1, <1>2, <1>3 DEF Init, DemosInv

LEMMA DemosStep == DemosInv /\ [Next]_demoVars => DemosInv'
<1> SUFFICES ASSUME DemosInv, [Next]_demoVars PROVE DemosInv'
  OBVIOUS
<1>1. Steps
  BY StepOfOne
<1>2. PoolTypeOK' /\ PoolClosed'
  BY <1>1, TypeStep, PoolCloses DEF Steps, DemosInv
<1>3. CacheInv' /\ MessagesInv' /\ PythonInv' /\ DatabaseInv' /\ BullInv' /\ LoopInv'
  BY <1>1, CacheStep, MessagesStep, PythonStep, DatabaseStep, BullStep, LoopStep
     DEF Steps, DemosInv
<1>4. demo' = demo
  BY DEF Next, LoadComparison, Caching, Microservices, PythonDemo, DatabaseDemo, BullMq,
     EventLoopDemo, Release, demoVars
<1>5. demo # "python" => UNCHANGED interpreter
  BY DEF Next, LoadComparison, Caching, Microservices, PythonDemo, DatabaseDemo, BullMq,
     EventLoopDemo, Release, demoVars, pythonVars
<1>6. (UNCHANGED permit) \/ (permit' = "released" /\ Settled)
  <2>1. CASE Release
    BY <2>1 DEF Release
  <2>2. CASE ~Release
    BY <2>2 DEF Next, LoadComparison, Caching, Microservices, PythonDemo, DatabaseDemo, BullMq,
       EventLoopDemo, demoVars
  <2> QED BY <2>1, <2>2
<1>7. PythonEnded => PythonEnded'
  BY <1>1, PythonStaysEnded DEF Steps, DemosInv
<1>8. stage = "over" => stage' = "over"
  BY <1>1, DatabaseStaysOver DEF Steps
<1>9. permit' = "released" =>
        /\ demo' = "python" => PythonEnded'
        /\ demo' = "database" => stage' = "over"
  <2>1. CASE UNCHANGED permit
    BY <1>4, <1>7, <1>8, <2>1 DEF DemosInv
  <2>2. CASE Settled
    BY <1>4, <1>7, <1>8, <2>2 DEF Settled, PythonEnded
  <2> QED BY <1>6, <2>1, <2>2
<1>10. permit' \in {"held", "released"} /\ demo' \in Catalogue
  BY <1>4, <1>6 DEF DemosInv
<1>11. demo' # "python" => \A a \in 1..Candidates : interpreter'[a] = "none"
  BY <1>4, <1>5 DEF DemosInv
<1> QED BY <1>2, <1>3, <1>9, <1>10, <1>11 DEF DemosInv

(* The inductive invariant of the demos, for any profile.                  *)
THEOREM DemosInvariant == Spec => []DemosInv
  BY DemosBegin, DemosStep, PTL DEF Spec

(* Every demo keeps its variables in their types.                          *)
THEOREM DemosTyped == Spec => []TypeOK
<1>1. DemosInv => TypeOK
  BY LoopEnds DEF DemosInv, TypeOK, CacheInv, MessagesInv, PythonInv, DatabaseInv, BullInv
<1> QED BY <1>1, DemosInvariant, PTL

(* However many interpreters hang, fail or print garbage, before or after  *)
(* they are given up: a demo that is done has shown the whole trace of one *)
(* interpreter, in order, and no line of an earlier one among it.          *)
THEOREM TracesShown == Spec => []PythonTrace
<1>1. DemosInv => PythonTrace
  BY PythonShown DEF DemosInv
<1> QED BY <1>1, DemosInvariant, PTL

(* A burst of cache misses of any size loads once, no stale product is     *)
(* answered, a reservation sent twice is made once, and the rows of the    *)
(* database are seen as isolation levels, locks and versions let them,     *)
(* wherever a statement fails.                                             *)
THEOREM ReportsAreTrue == Spec => []ReportsTrue
<1>1. DemosInv => ReportsTrue
  BY CacheReports, MessagesReport, DatabaseReports DEF DemosInv, ReportsTrue
<1> QED BY <1>1, DemosInvariant, PTL

(* A demo that gave its permit back left no interpreter, database client   *)
(* or queue behind and, if its server could listen, no worker thread; and  *)
(* no lock keeps a schema from being dropped.                              *)
THEOREM CleansUp == Spec => []CleanupComplete
<1>1. DemosInv => CleanupComplete
  <2> SUFFICES ASSUME DemosInv PROVE CleanupComplete
    OBVIOUS
  <2>1. permit = "released" => NoneAlive
    BY PythonLeavesNone DEF DemosInv, NoneAlive
  <2>2. permit = "released" /\ demo = "database" => checkedOut = {}
    BY DatabaseReports DEF DemosInv
  <2>3. Database!DropNotBlocked /\ Bull!NothingOfQueueLeft /\ NothingLeft
    BY DatabaseReports, BullCleans DEF DemosInv, PoolClosed
  <2> QED BY <2>1, <2>2, <2>3 DEF CleanupComplete, NoneAlive
<1> QED BY <1>1, DemosInvariant, PTL

(* A run of an event loop demo sends its client one last event and nothing *)
(* after it, whatever of a failed demo goes on.                            *)
THEOREM OneEnd == Spec => []EndsOnce
<1>1. DemosInv => EndsOnce
  BY LoopEnds DEF DemosInv, EndsOnce
<1> QED BY <1>1, DemosInvariant, PTL

(* The demos of the event loop report nothing early and show what they     *)
(* teach in its order, in whatever order timers and I/O end: the outer     *)
(* round speaks of all five callbacks though its promise counts four, a    *)
(* result follows all that it speaks of, and a demo that is done has shown *)
(* its result.                                                             *)
THEOREM ReportsOfTheLoop == Spec => []LoopReports
<1>1. Init => ReportInv
  BY ReportsBegin DEF Init
<1>2. DemosInv /\ ReportInv /\ [Next]_demoVars => ReportInv'
  BY StepOfOne, ReportStep DEF Steps, DemosInv
<1>3. Spec => []ReportInv
  BY <1>1, <1>2, DemosInvariant, PTL DEF Spec
<1> QED BY <1>3, ReportsHold, PTL

(* The worker pool of the load comparison keeps its promises beside the    *)
(* other demos.                                                            *)
THEOREM PoolInDemos == Spec => []NoIdleWorker /\ PoolImplementsJobService
<1>1. Init => PoolInit
  BY DEF Init
<1>2. [Next]_demoVars => [PoolNext]_poolVars
  BY StepOfOne DEF Steps
<1>3. Spec => PoolSpec
  BY <1>1, <1>2, PTL DEF Spec, PoolSpec
<1> QED BY <1>3, NoneIdle, PoolRefinesJobService, PTL
=============================================================================
