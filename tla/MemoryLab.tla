----------------------------- MODULE MemoryLab -----------------------------
(***************************************************************************)
(* The memory experiment of Runtime Lab: the supervisor in the server      *)
(* (src/memory-lab.js), the child process it forks                         *)
(* (src/memory-leak-child.js) and the two directions of the IPC channel    *)
(* between them.                                                           *)
(*                                                                         *)
(* Both programs are single threaded, so every handler, timer callback and *)
(* request is one action.  The only child code that spans several actions  *)
(* is createHeapSnapshot: a synchronous write, during which the child can  *)
(* only die, and an awaited stat, during which it handles other events.    *)
(*                                                                         *)
(* Quantities of memory are in blocks of one unit; RSS is compared with    *)
(* the hard limit only, so a reading is "below", "at" or "above" it.  Log  *)
(* messages change nothing but a line of text and are left out.            *)
(***************************************************************************)
EXTENDS Integers, Sequences, FiniteSets

CONSTANTS
  AllocationMb,          \* profile.memory.allocationMb
  LimitMb,               \* profile.memory.limitMb
  DefaultConfig,         \* profile.memory.defaultConfig
  RetainedLimitMb,       \* profile.memory.retainedLimitMb
  SnapshotMaxRetainedMb, \* profile.memory.snapshotMaxRetainedMb
  DeadlineAction,        \* profile.memory.deadlineAction: "stop" or "pause"
  Inputs,                \* the numbers a start request may carry
  Rss,                   \* the RSS readings considered
  SpawnMayFail,          \* fork() may fail with an 'error' event
  DrainBeforeExit,       \* 'exit' is emitted after the channel is drained
  MaxRuns,               \* bound: processes forked
  MaxSnapshots,          \* bound: heap snapshots begun
  MaxInbox,              \* bound: messages of one child not yet handled
  MaxOutbox              \* bound: messages to the child not yet handled

Configs == [allocationMb : AllocationMb, limitMb : LimitMb]

ASSUME ProfileAssumption ==
  /\ AllocationMb \subseteq Nat \ {0}
  /\ LimitMb \subseteq Nat \ {0}
  /\ DefaultConfig \in Configs
  /\ RetainedLimitMb \in Nat
  /\ SnapshotMaxRetainedMb \in Nat
  /\ \A l \in LimitMb : l <= RetainedLimitMb
  /\ DeadlineAction \in {"stop", "pause"}
  /\ Rss \subseteq {"below", "at", "above"}
  /\ SpawnMayFail \in BOOLEAN
  /\ DrainBeforeExit \in BOOLEAN

ASSUME BoundAssumption ==
  /\ MaxRuns \in Nat \ {0}
  /\ MaxSnapshots \in Nat
  /\ MaxInbox \in Nat
  /\ MaxOutbox \in Nat \ {0}

VARIABLES
  child,        \* this.child: the run it belongs to, 0 for null
  connected,    \* this.child.connected
  lab,          \* this.state
  view,         \* the last state frame sent to the SSE clients
  snapshotPath, \* this.snapshotPath: a file, 0 for null
  stopTimer,    \* the run the pending stop timer was armed in, 0 for none
  stopDue,      \* its second has passed
  runs,         \* processes forked so far
  down,         \* stopForShutdown was called
  proc,         \* the child process, its variables and its timers
  outbox,       \* supervisor -> child messages of the current run
  inbox,        \* child -> supervisor messages, per run
  files,        \* snapshot files on disk
  fileSeq       \* snapshot files created so far

supervisor == <<child, connected, lab, view, snapshotPath, stopTimer, stopDue, runs,
                down>>
vars == <<child, connected, lab, view, snapshotPath, stopTimer, stopDue, runs, down,
          proc, outbox, inbox, files, fileSeq>>

Runs == 1..MaxRuns
ChildStatus == {"starting", "running", "paused", "limit", "stopped"}
Actions == {"pause", "resume", "release", "gc", "snapshot", "stop"}

LabState ==
  [status : ChildStatus \cup {"idle"}, config : Configs, latest : Nat,
   snapshot : {"idle", "creating", "ready", "error"}]

SampleMsg == [type : {"sample"}, status : ChildStatus, retained : Nat, rss : Rss]
SnapshotMsg == [type : {"snapshot"}, status : {"creating", "ready", "error"}, file : Nat]

Sample(p, rss) ==
  [type |-> "sample", status |-> p.status, retained |-> p.retained, rss |-> rss]
SnapshotNews(status, file) ==
  [type |-> "snapshot", status |-> status, file |-> file]

-----------------------------------------------------------------------------
(* The child's variables.  timer: an allocation interval is active;        *)
(* deadline: deadlineTimer; exiting: the 20 ms exit timer is pending; gc:  *)
(* the second pass is scheduled; writing: inside writeHeapSnapshot; stats: *)
(* files whose stat is awaited; killed: a kill signal is on its way.       *)

ChildVars ==
  [os : {"none", "alive", "dead"}, killed : BOOLEAN, status : ChildStatus,
   timer : BOOLEAN, deadline : {"unset", "armed", "done"}, exiting : BOOLEAN,
   retained : Nat, gc : BOOLEAN, writing : BOOLEAN, stats : SUBSET (Nat \ {0})]

NoProcess ==
  [os |-> "none", killed |-> FALSE, status |-> "starting", timer |-> FALSE,
   deadline |-> "unset", exiting |-> FALSE, retained |-> 0, gc |-> FALSE,
   writing |-> FALSE, stats |-> {}]

Forked == [NoProcess EXCEPT !.os = "alive"]
Dead == [NoProcess EXCEPT !.os = "dead"]
KillForgotten(p) == p \* mutant of Killed: child.kill() is missing
Killed(p) == [p EXCEPT !.killed = (p.os = "alive")]
QuietTicking(p, status) == [p EXCEPT !.status = status] \* mutant: no clearInterval
Quiet(p, status) == [p EXCEPT !.timer = FALSE, !.status = status]
AtLimit(p) == Quiet(p, "limit")

(* The child can run a callback: it is alive and not inside the            *)
(* synchronous snapshot write.  The second conjunct is the inbox bound.    *)
Turn == proc.os = "alive" /\ ~proc.writing /\ Len(inbox[runs]) + 2 <= MaxInbox

ChildStep(p, msgs) ==
  /\ proc' = p
  /\ inbox' = [inbox EXCEPT ![runs] = @ \o msgs]

-----------------------------------------------------------------------------
TypeOK ==
  /\ child \in 0..MaxRuns
  /\ connected \in BOOLEAN
  /\ lab \in LabState
  /\ view \in LabState
  /\ snapshotPath \in Nat
  /\ stopTimer \in 0..MaxRuns
  /\ stopDue \in BOOLEAN
  /\ runs \in 0..MaxRuns
  /\ down \in BOOLEAN
  /\ proc \in ChildVars
  /\ outbox \in Seq(Actions \cup {"start"})
  /\ inbox \in [Runs -> Seq(SampleMsg \cup SnapshotMsg)]
  /\ files \subseteq Nat \ {0}
  /\ fileSeq \in Nat

Init ==
  /\ child = 0
  /\ connected = FALSE
  /\ lab = [status |-> "idle", config |-> DefaultConfig, latest |-> 0,
            snapshot |-> "idle"]
  /\ view = lab
  /\ snapshotPath = 0
  /\ stopTimer = 0
  /\ stopDue = FALSE
  /\ runs = 0
  /\ down = FALSE
  /\ proc = NoProcess
  /\ outbox = <<>>
  /\ inbox = [r \in Runs |-> <<>>]
  /\ files = {}
  /\ fileSeq = 0

-----------------------------------------------------------------------------
(* The supervisor: requests.                                               *)

(* broadcast(...) of a state frame: every SSE client is sent this.state.    *)
BroadcastNewStatus == \* mutant: frames are saved when the status is unchanged
  view' = IF lab'.status # lab.status THEN lab' ELSE view
Broadcast == view' = lab'

ConfigAsGiven(allocation, limit) == \* mutant: no whitelist
  [allocationMb |-> allocation, limitMb |-> limit]
SafeConfig(allocation, limit) ==
  [allocationMb |-> IF allocation \in AllocationMb THEN allocation
                    ELSE DefaultConfig.allocationMb,
   limitMb |-> IF limit \in LimitMb THEN limit ELSE DefaultConfig.limitMb]

Start(allocation, limit) ==
  /\ child = 0 /\ ~down
  /\ runs < MaxRuns
  /\ files' = files \ {snapshotPath}
  /\ snapshotPath' = 0
  /\ runs' = runs + 1
  /\ child' = runs + 1
  /\ lab' = [status |-> "starting", config |-> SafeConfig(allocation, limit),
             latest |-> 0, snapshot |-> "idle"]
  /\ Broadcast
  /\ \/ /\ proc' = Forked
        /\ connected' = TRUE
        /\ outbox' = <<"start">>
     \/ /\ SpawnMayFail
        /\ proc' = NoProcess
        /\ connected' \in BOOLEAN
        /\ outbox' = <<>>
  /\ UNCHANGED <<stopTimer, stopDue, down, inbox, fileSeq>>

(* fork() throws: start() has only cleaned up the last snapshot.            *)
StartThrows ==
  /\ child = 0 /\ ~down
  /\ SpawnMayFail
  /\ files' = files \ {snapshotPath}
  /\ snapshotPath' = 0
  /\ UNCHANGED <<child, connected, lab, view, stopTimer, stopDue, runs, down, proc, outbox,
                 inbox, fileSeq>>

(* child.send: lost when the process is gone and the channel not yet closed. *)
SendToChild(action) ==
  outbox' = IF proc.os = "alive" THEN Append(outbox, action) ELSE outbox

Reachable == child # 0 /\ connected /\ Len(outbox) < MaxOutbox

RequestSnapshotAgain == \* mutant: one that is being created is not looked for
  /\ Reachable
  /\ fileSeq < MaxSnapshots
  /\ lab.latest <= SnapshotMaxRetainedMb
  /\ lab' = [lab EXCEPT !.snapshot = "creating"]
  /\ Broadcast
  /\ SendToChild("snapshot")
  /\ UNCHANGED <<child, connected, snapshotPath, stopTimer, stopDue, runs, down, proc,
                 inbox, files, fileSeq>>

RequestSnapshot ==
  /\ Reachable
  /\ fileSeq < MaxSnapshots
  /\ lab.snapshot # "creating"
  /\ lab.latest <= SnapshotMaxRetainedMb
  /\ lab' = [lab EXCEPT !.snapshot = "creating"]
  /\ Broadcast
  /\ SendToChild("snapshot")
  /\ UNCHANGED <<child, connected, snapshotPath, stopTimer, stopDue, runs, down, proc,
                 inbox, files, fileSeq>>

(* Every stop re-arms the timer.  The bound on the outbox must not bound    *)
(* that: of the stops behind one another in a full outbox one is kept.      *)
RequestStop ==
  /\ child # 0 /\ connected
  /\ \/ Len(outbox) < MaxOutbox /\ SendToChild("stop")
     \/ /\ Len(outbox) >= MaxOutbox
        /\ outbox[Len(outbox)] = "stop"
        /\ UNCHANGED outbox
  /\ stopTimer' = child
  /\ stopDue' = FALSE
  /\ UNCHANGED <<child, connected, lab, view, snapshotPath, runs, down, proc,
                 inbox, files, fileSeq>>

RequestAction(action) ==
  /\ Reachable
  /\ action \in Actions \ {"snapshot", "stop"}
  /\ SendToChild(action)
  /\ UNCHANGED <<supervisor, proc, inbox, files, fileSeq>>

StopForShutdown ==
  /\ ~down
  /\ down' = TRUE
  /\ child' = 0
  /\ proc' = IF child # 0 THEN Killed(proc) ELSE proc
  /\ files' = files \ {snapshotPath}
  /\ snapshotPath' = 0
  /\ UNCHANGED <<connected, lab, view, stopTimer, stopDue, runs, outbox, inbox, fileSeq>>

-----------------------------------------------------------------------------
(* The supervisor: callbacks.                                              *)

(* The second of the stop timer passes, if no further stop starts it again. *)
StopTimerElapses ==
  /\ stopTimer # 0
  /\ stopDue' = TRUE
  /\ UNCHANGED <<child, connected, lab, view, snapshotPath, stopTimer, runs, down,
                 proc, outbox, inbox, files, fileSeq>>

StopTimerForgets == \* mutant: the child is forgotten before it has exited
  /\ stopTimer # 0 /\ stopDue
  /\ stopTimer' = 0
  /\ stopDue' = FALSE
  /\ child' = 0
  /\ proc' = IF child # 0 THEN Killed(proc) ELSE proc
  /\ UNCHANGED <<connected, lab, view, snapshotPath, runs, down, outbox, inbox,
                 files, fileSeq>>

StopTimerFires ==
  /\ stopTimer # 0 /\ stopDue
  /\ stopTimer' = 0
  /\ stopDue' = FALSE
  /\ proc' = IF child # 0 THEN Killed(proc) ELSE proc
  /\ UNCHANGED <<child, connected, lab, view, snapshotPath, runs, down, outbox,
                 inbox, files, fileSeq>>

(* A message of an earlier run can be handled only when 'exit' overtook it. *)
Deliver(r, type) ==
  /\ inbox[r] # <<>>
  /\ inbox[r][1].type = type
  /\ inbox' = [inbox EXCEPT ![r] = Tail(@)]
  /\ UNCHANGED <<child, connected, stopTimer, stopDue, runs, down, outbox, fileSeq>>

OnSample(r) ==
  /\ Deliver(r, "sample")
  /\ LET message == inbox[r][1] IN
     /\ lab' = [lab EXCEPT !.status = message.status, !.latest = message.retained]
     /\ proc' = IF message.rss = "above" /\ r = runs THEN Killed(proc) ELSE proc
  /\ Broadcast
  /\ UNCHANGED <<snapshotPath, files>>

OnSnapshotReady(r) ==
  /\ Deliver(r, "snapshot")
  /\ inbox[r][1].status = "ready"
  /\ files' = files \ {snapshotPath}
  /\ snapshotPath' = inbox[r][1].file
  /\ lab' = [lab EXCEPT !.snapshot = "ready"]
  /\ Broadcast
  /\ UNCHANGED proc

OnSnapshotProgress(r) ==
  /\ Deliver(r, "snapshot")
  /\ inbox[r][1].status \in {"creating", "error"}
  /\ lab' = [lab EXCEPT !.snapshot = inbox[r][1].status]
  /\ Broadcast
  /\ UNCHANGED <<snapshotPath, files, proc>>

OnMessage(r) == OnSample(r) \/ OnSnapshotReady(r) \/ OnSnapshotProgress(r)

(* The channel reaches end of file after the last message of the child, or *)
(* at once when the process could not be spawned.                          *)
OnDisconnect ==
  /\ connected
  /\ proc.os # "alive"
  /\ inbox[runs] = <<>>
  /\ connected' = FALSE
  /\ UNCHANGED <<child, lab, view, snapshotPath, stopTimer, stopDue, runs, down, proc,
                 outbox, inbox, files, fileSeq>>

OnExitTimerLeft == \* mutant: no clearTimeout
  /\ proc.os = "dead"
  /\ DrainBeforeExit => inbox[runs] = <<>>
  /\ child' = 0
  /\ connected' = FALSE
  /\ lab' = [lab EXCEPT !.status = "stopped"]
  /\ Broadcast
  /\ proc' = NoProcess
  /\ UNCHANGED <<stopTimer, stopDue, snapshotPath, runs, down, outbox, inbox, files, fileSeq>>

OnExit ==
  /\ proc.os = "dead"
  /\ DrainBeforeExit => inbox[runs] = <<>>
  /\ stopTimer' = 0
  /\ stopDue' = FALSE
  /\ child' = 0
  /\ connected' = FALSE
  /\ lab' = [lab EXCEPT !.status = "stopped"]
  /\ Broadcast
  /\ proc' = NoProcess
  /\ UNCHANGED <<snapshotPath, runs, down, outbox, inbox, files, fileSeq>>

-----------------------------------------------------------------------------
(* The child: timers.                                                      *)

AllocateBlock(rss) ==
  LET room == lab.config.limitMb - proc.retained
      bytes == IF lab.config.allocationMb < room THEN lab.config.allocationMb ELSE room
      grown == [proc EXCEPT !.retained = @ + bytes]
      full == grown.retained >= lab.config.limitMb \/ grown.retained >= RetainedLimitMb
  IN /\ Turn
     /\ proc.timer /\ proc.status = "running"
     /\ IF bytes <= 0
        THEN ChildStep(AtLimit(proc), <<Sample(AtLimit(proc), rss)>>)
        ELSE IF full \/ rss # "below"
        THEN ChildStep(AtLimit(grown), <<Sample(grown, rss), Sample(AtLimit(grown), rss)>>)
        ELSE ChildStep(grown, <<Sample(grown, rss)>>)
     /\ UNCHANGED <<supervisor, outbox, files, fileSeq>>

DeadlineStopRunning(rss) == \* mutant: only a running experiment is stopped
  LET stopped == [Quiet(proc, "stopped") EXCEPT !.deadline = "done", !.exiting = TRUE]
  IN /\ Turn
     /\ proc.deadline = "armed"
     /\ DeadlineAction = "stop" /\ proc.status = "running"
     /\ ChildStep(stopped, <<Sample(stopped, rss)>>)
     /\ UNCHANGED <<supervisor, outbox, files, fileSeq>>

DeadlineStop(rss) ==
  LET stopped == [Quiet(proc, "stopped") EXCEPT !.deadline = "done", !.exiting = TRUE]
  IN /\ Turn
     /\ proc.deadline = "armed"
     /\ DeadlineAction = "stop" /\ proc.status # "stopped"
     /\ ChildStep(stopped, <<Sample(stopped, rss)>>)
     /\ UNCHANGED <<supervisor, outbox, files, fileSeq>>

DeadlinePause(rss) ==
  LET late == [proc EXCEPT !.deadline = "done"]
      paused == Quiet(late, "paused")
  IN /\ Turn
     /\ proc.deadline = "armed"
     /\ ~(DeadlineAction = "stop" /\ proc.status # "stopped")
     /\ IF proc.status = "running"
        THEN ChildStep(paused, <<Sample(paused, rss)>>)
        ELSE ChildStep(late, <<>>)
     /\ UNCHANGED <<supervisor, outbox, files, fileSeq>>

GcSecondPass(rss) ==
  /\ Turn
  /\ proc.gc
  /\ ChildStep([proc EXCEPT !.gc = FALSE], <<Sample(proc, rss)>>)
  /\ UNCHANGED <<supervisor, outbox, files, fileSeq>>

ChildExits ==
  /\ proc.os = "alive" /\ ~proc.writing
  /\ proc.exiting
  /\ proc' = Dead
  /\ outbox' = <<>>
  /\ UNCHANGED <<supervisor, inbox, files, fileSeq>>

-----------------------------------------------------------------------------
(* The child: messages of the supervisor.                                  *)

Receive(action) ==
  /\ Turn
  /\ outbox # <<>>
  /\ Head(outbox) = action
  /\ outbox' = Tail(outbox)
  /\ UNCHANGED supervisor

StartExperiment(rss) ==
  LET running == [proc EXCEPT !.status = "running", !.timer = TRUE, !.deadline = "armed"]
  IN /\ Receive("start")
     /\ ChildStep(running, <<Sample(running, rss)>>)
     /\ UNCHANGED <<files, fileSeq>>

Pause(rss) ==
  /\ Receive("pause")
  /\ IF proc.status = "running"
     THEN ChildStep(Quiet(proc, "paused"), <<Sample(Quiet(proc, "paused"), rss)>>)
     ELSE ChildStep(proc, <<>>)
  /\ UNCHANGED <<files, fileSeq>>

Resume(rss) ==
  LET resumed == [proc EXCEPT !.status = "running", !.timer = TRUE]
  IN /\ Receive("resume")
     /\ IF proc.status = "running"
        THEN ChildStep(proc, <<>>)
        ELSE IF proc.retained >= lab.config.limitMb
        THEN ChildStep(AtLimit(proc), <<Sample(AtLimit(proc), rss)>>)
        ELSE ChildStep(resumed, <<Sample(resumed, rss)>>)
     /\ UNCHANGED <<files, fileSeq>>

ReleaseSilently(rss) == \* mutant: no sample
  /\ Receive("release")
  /\ ChildStep([Quiet(proc, "paused") EXCEPT !.retained = 0], <<>>)
  /\ UNCHANGED <<files, fileSeq>>

Release(rss) ==
  LET emptied == [Quiet(proc, "paused") EXCEPT !.retained = 0]
  IN /\ Receive("release")
     /\ ChildStep(emptied, <<Sample(emptied, rss)>>)
     /\ UNCHANGED <<files, fileSeq>>

Gc ==
  /\ Receive("gc")
  /\ ChildStep([proc EXCEPT !.gc = TRUE], <<>>)
  /\ UNCHANGED <<files, fileSeq>>

Stop(rss) ==
  LET stopped == [Quiet(proc, "stopped") EXCEPT !.deadline = "done", !.exiting = TRUE]
  IN /\ Receive("stop")
     /\ ChildStep(stopped, <<Sample(stopped, rss)>>)
     /\ UNCHANGED <<files, fileSeq>>

(* The name holds the pid and Date.now(): no two snapshots share it.       *)
FixedName == 1 \* mutant: one name for every snapshot
SnapshotName == fileSeq + 1

(* The synchronous prefix of createHeapSnapshot, up to writeHeapSnapshot.  *)
CreateHeapSnapshot(rss) ==
  LET paused == Quiet(proc, "paused")
      creating == SnapshotNews("creating", 0)
  IN /\ Receive("snapshot")
     /\ IF proc.status = "running"
        THEN ChildStep([paused EXCEPT !.writing = TRUE], <<Sample(paused, rss), creating>>)
        ELSE ChildStep([proc EXCEPT !.writing = TRUE], <<creating>>)
     /\ fileSeq' = SnapshotName
     /\ files' = files \cup {SnapshotName}

HeapSnapshotWritten ==
  /\ proc.os = "alive" /\ proc.writing
  /\ proc' = [proc EXCEPT !.writing = FALSE, !.stats = @ \cup {fileSeq}]
  /\ UNCHANGED <<supervisor, outbox, inbox, files, fileSeq>>

HeapSnapshotFailed ==
  /\ proc.os = "alive" /\ proc.writing
  /\ Len(inbox[runs]) < MaxInbox
  /\ ChildStep([proc EXCEPT !.writing = FALSE], <<SnapshotNews("error", 0)>>)
  /\ files' \in {files, files \ {fileSeq}}
  /\ UNCHANGED <<supervisor, outbox, fileSeq>>

StatDone(file) ==
  /\ Turn
  /\ file \in proc.stats
  /\ \E news \in {SnapshotNews("ready", file), SnapshotNews("error", 0)} :
        ChildStep([proc EXCEPT !.stats = @ \ {file}], <<news>>)
  /\ UNCHANGED <<supervisor, outbox, files, fileSeq>>

-----------------------------------------------------------------------------
(* The operating system.                                                   *)

ProcessKilled ==
  /\ proc.os = "alive" /\ proc.killed
  /\ proc' = Dead
  /\ outbox' = <<>>
  /\ UNCHANGED <<supervisor, inbox, files, fileSeq>>

(* V8 aborts at its heap limit, or the kernel kills the process.           *)
ProcessCrashes ==
  /\ proc.os = "alive"
  /\ proc' = Dead
  /\ outbox' = <<>>
  /\ UNCHANGED <<supervisor, inbox, files, fileSeq>>

-----------------------------------------------------------------------------
Request ==
  \/ \E allocation, limit \in Inputs : Start(allocation, limit)
  \/ StartThrows
  \/ RequestSnapshot
  \/ RequestStop
  \/ \E action \in Actions : RequestAction(action)
  \/ StopForShutdown

ChildMessage(rss) ==
  \/ StartExperiment(rss) \/ Pause(rss) \/ Resume(rss) \/ Release(rss)
  \/ Gc \/ Stop(rss) \/ CreateHeapSnapshot(rss)

Deadline(rss) == DeadlineStop(rss) \/ DeadlinePause(rss)

ChildCallback(rss) ==
  \/ AllocateBlock(rss) \/ Deadline(rss) \/ GcSecondPass(rss) \/ ChildMessage(rss)

Next ==
  \/ Request
  \/ StopTimerElapses
  \/ StopTimerFires
  \/ \E r \in Runs : OnMessage(r)
  \/ OnDisconnect
  \/ OnExit
  \/ \E rss \in Rss : ChildCallback(rss)
  \/ ChildExits
  \/ HeapSnapshotWritten
  \/ HeapSnapshotFailed
  \/ \E file \in proc.stats : StatDone(file)
  \/ ProcessKilled
  \/ ProcessCrashes

Spec == Init /\ [][Next]_vars

(* Both event loops keep turning: every pending callback, timer and message *)
(* is eventually handled.  A loop visits its timers and its messages in     *)
(* turn, so a callback that other callbacks postpone (by filling the inbox  *)
(* or by blocking the child) still runs: strong fairness.  The stop timer   *)
(* is owed its second and its turn only while no stop re-arms it: weak      *)
(* fairness, which stops that never cease satisfy without it ever firing.   *)
(* Requests, and crashes, are not owed to anyone.                           *)
LoopsTurn ==
  /\ WF_vars(StopTimerElapses)
  /\ WF_vars(StopTimerFires)
  /\ \A r \in Runs : WF_vars(OnMessage(r))
  /\ WF_vars(OnExit)
  /\ SF_vars(\E rss \in Rss : Deadline(rss))
  /\ SF_vars(\E rss \in Rss : ChildMessage(rss))
  /\ SF_vars(\E file \in proc.stats : StatDone(file))
  /\ SF_vars(ChildExits)
  /\ WF_vars(ProcessKilled)

(* No fairness of the disk: a snapshot write may block the child forever.   *)
LiveSpec == Spec /\ LoopsTurn

(* The disk answers: writeHeapSnapshot returns or throws.  A premise of the *)
(* property that needs it.                                                  *)
WritesEnd == SF_vars(HeapSnapshotWritten \/ HeapSnapshotFailed)

(* Nobody goes on asking for a stop.  A premise of the property that needs  *)
(* it: a stop within the second of the last one postpones the kill.         *)
StopsCease == <>[][~RequestStop]_vars

-----------------------------------------------------------------------------
(* Safety.                                                                  *)

(* The allocation interval is active exactly while the child's status is    *)
(* "running": no handler of the child leaves an interval behind or loses    *)
(* the one it needs, in whatever order pauses, snapshots, limits, deadline  *)
(* and stop meet.                                                           *)
TimerIffRunning ==
  proc.os = "alive" => (proc.timer <=> proc.status = "running")

(* The child never retains more than the limit chosen for the run, whatever *)
(* numbers the start request carried, and a running experiment has room for *)
(* one more block.                                                          *)
RetainedWithinLimits ==
  /\ proc.retained <= lab.config.limitMb
  /\ lab.config.limitMb <= RetainedLimitMb
  /\ proc.status = "running" => proc.retained < lab.config.limitMb

(* The pending stop timer can kill no process but the one whose stop armed  *)
(* it: its callback reads this.child when it fires.                         *)
StopTimerOwnRun ==
  stopTimer # 0 => stopTimer = runs /\ child \in {0, stopTimer}

(* One memory experiment at a time: start() can fork only when the process  *)
(* of the earlier run is gone.                                              *)
OneExperiment == child = 0 /\ ~down => proc.os # "alive"

(* At most one heap snapshot is requested, being written or about to be     *)
(* reported, and state.snapshot, the only guard against a second one, which *)
(* the request and the child's messages both write, says so: it is          *)
(* "creating" while there is one, and as long as the process lives only     *)
(* then, so that no snapshot is refused for one that will not be answered.  *)
Answers(m) == m.type = "snapshot" /\ m.status \in {"ready", "error"}

SnapshotsPending ==
  {<<"asked", i>> : i \in {j \in 1..Len(outbox) : outbox[j] = "snapshot"}}
  \cup {<<"written", file>> : file \in IF proc.writing THEN {fileSeq} ELSE {}}
  \cup {<<"measured", file>> : file \in proc.stats}
  \cup {<<"answered", i>> : i \in {j \in 1..Len(inbox[runs]) : Answers(inbox[runs][j])}}

SnapshotExclusive ==
  runs # 0 =>
    /\ \A one, other \in SnapshotsPending : one = other
    /\ SnapshotsPending # {} => lab.snapshot = "creating"
    /\ lab.snapshot = "creating" /\ proc.os = "alive" => SnapshotsPending # {}

(* A snapshot offered for download is on disk: the cleanups of start, of a  *)
(* newer snapshot and of shutdown never remove the file being offered.      *)
OfferedSnapshotOnDisk ==
  lab.snapshot = "ready" /\ snapshotPath # 0 => snapshotPath \in files

(* Every SSE client was last sent the supervisor's current state.           *)
ClientsSeeCurrentState == view = lab

(* What the supervisor shows, once it has handled the samples on their way, *)
(* is what the child is in: no change of status or of retained memory goes  *)
(* unreported, and none is reported out of order.                           *)
SamplesOnTheWay == {i \in 1..Len(inbox[runs]) : inbox[runs][i].type = "sample"}

SupervisorCatchesUp ==
  proc.os = "alive" =>
    /\ SamplesOnTheWay = {} => lab.status = proc.status /\ lab.latest = proc.retained
    /\ \A i \in SamplesOnTheWay : (\A j \in SamplesOnTheWay : j <= i) =>
         /\ inbox[runs][i].status = proc.status
         /\ inbox[runs][i].retained = proc.retained

(* Liveness.                                                                *)

(* The public deadline ends every process, also one that already paused at  *)
(* its limit, was resumed or is writing a snapshot, if the disk answers.    *)
DeadlineEndsProcess == WritesEnd => (proc.os = "alive" ~> proc.os # "alive")

(* A stop ends the process even when a snapshot write never returns, if no  *)
(* further stop postpones the kill for ever: stops less than a second apart *)
(* keep a child that is blocked in the write alive.                         *)
StopEndsProcess ==
  StopsCease => (stopTimer # 0 /\ proc.os = "alive" ~> proc.os # "alive")

-----------------------------------------------------------------------------
(* What the documentation says and the code does not keep.                  *)

(* README.md:345: snapshots are allowed only up to the retained limit.      *)
SnapshotWithinLimit ==
  proc.writing => proc.retained <= SnapshotMaxRetainedMb

(* memory-lab.js:144 refuses a start because an experiment is already       *)
(* running: there is one, or its exit is still to be handled.               *)
RefusedOnlyWhileRunning == child # 0 => proc.os # "none"
=============================================================================
