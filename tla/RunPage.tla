-------------------------------- MODULE RunPage --------------------------------
(***************************************************************************)
(* The trace of demo runs on a page: runDemo, the chapter effect and       *)
(* selectDemo of src/client/App.jsx against the streams of the run route.  *)
(*                                                                         *)
(* A stream is a number of events, one of them of type "error" if the demo *)
(* reports a problem and goes on, and a last one, "done" or "error"; or it *)
(* breaks.                                                                 *)
(***************************************************************************)
EXTENDS Naturals

CONSTANT Runs  \* bound: the runs started from one page

None == "none"

VARIABLES
  run,       \* the stream of each run, as the page's loop sees it
  latest,    \* the run that was started last
  shown,     \* the runs with events in the trace
  runStatus, \* runStatus
  letGo      \* history: runs during which runStatus left "running"

runVars == <<run, latest, shown, runStatus, letGo>>

RunPageTypeOK ==
  /\ run \in [Runs -> {"new", "asked", "open", "last", "over"}]
  /\ latest \in Runs \cup {None}
  /\ shown \subseteq Runs
  /\ runStatus \in {"idle", "running", "done", "error"}
  /\ letGo \subseteq Runs

RunPageInit ==
  /\ run = [r \in Runs |-> "new"]
  /\ latest = None
  /\ shown = {}
  /\ runStatus = "idle"
  /\ letGo = {}

UnderWay == {r \in Runs : run[r] \in {"asked", "open", "last"}}

(* runStatus is set, by an event of run r or by the page.                  *)
Status(new) ==
  /\ runStatus' = new
  /\ letGo' = IF new = "running" THEN letGo ELSE letGo \cup UnderWay

-----------------------------------------------------------------------------
(* runDemo.                                                                *)
RunDemoAlways(r) == \* mutant: no look at runStatus
  /\ run[r] = "new"
  /\ run' = [run EXCEPT ![r] = "asked"]
  /\ latest' = r
  /\ shown' = {}
  /\ Status("running")

RunDemo(r) ==
  /\ run[r] = "new"
  /\ runStatus # "running"
  /\ run' = [run EXCEPT ![r] = "asked"]
  /\ latest' = r
  /\ shown' = {}
  /\ Status("running")

(* The response: a stream, or a refusal, which is shown as an error.       *)
OnResponse(r) ==
  /\ run[r] = "asked"
  /\ run' = [run EXCEPT ![r] = "open"]
  /\ UNCHANGED <<latest, shown, runStatus, letGo>>

OnEvent(r) ==
  /\ run[r] = "open"
  /\ shown' = shown \cup {r}
  /\ UNCHANGED <<run, latest, runStatus, letGo>>

(* An event of type "error" that is not the last one.                      *)
OnReportedError(r) ==
  /\ run[r] = "open"
  /\ shown' = shown \cup {r}
  /\ Status("error")
  /\ UNCHANGED <<run, latest>>

OnLastEvent(r) ==
  /\ run[r] = "open"
  /\ run' = [run EXCEPT ![r] = "last"]
  /\ shown' = shown \cup {r}
  /\ \E new \in {"done", "error"} : Status(new)
  /\ UNCHANGED latest

OnEnd(r) ==
  /\ run[r] = "last"
  /\ run' = [run EXCEPT ![r] = "over"]
  /\ UNCHANGED <<latest, shown, runStatus, letGo>>

OnFailureLogged(r) == \* mutant: catch without setRunStatus
  /\ run[r] \in {"asked", "open", "last"}
  /\ run' = [run EXCEPT ![r] = "over"]
  /\ shown' = shown \cup {r}
  /\ UNCHANGED <<latest, runStatus, letGo>>

(* catch: a refusal, or a stream that breaks.                              *)
OnFailure(r) ==
  /\ run[r] \in {"asked", "open", "last"}
  /\ run' = [run EXCEPT ![r] = "over"]
  /\ shown' = shown \cup {r}
  /\ Status("error")
  /\ UNCHANGED latest

-----------------------------------------------------------------------------
(* Another chapter or language: by a link, which selectDemo refuses while  *)
(* a demo runs, or by changeLanguage or the history, which nobody refuses. *)
NewChapter ==
  /\ shown' = {}
  /\ Status("idle")
  /\ UNCHANGED <<run, latest>>

RunPageStep(r) ==
  \/ OnResponse(r) \/ OnEvent(r) \/ OnReportedError(r) \/ OnLastEvent(r)
  \/ OnEnd(r) \/ OnFailure(r)

RunPageNext == NewChapter \/ \E r \in Runs : RunDemo(r) \/ RunPageStep(r)

RunPageSpec == RunPageInit /\ [][RunPageNext]_runVars

(* A request is answered or fails, and a run has an end (see Demos).       *)
RunPageFairness ==
  \A r \in Runs : WF_runVars(OnResponse(r) \/ OnFailure(r)) /\ WF_runVars(OnLastEvent(r) \/ OnFailure(r))

-----------------------------------------------------------------------------
(* The trace shows the events of one run, unless an older one was let go:  *)
(* its demo had reported an error, or the chapter was left, before its     *)
(* stream ended, so that a new run was allowed beside it                   *)
(* (src/client/App.jsx:131, :269, :293).                                   *)
TraceOfOneRun == shown \subseteq letGo \cup {latest}

(* Liveness: a page does not stay in "running": the run button comes back. *)
RunButtonComesBack == runStatus = "running" ~> runStatus # "running"
=============================================================================
