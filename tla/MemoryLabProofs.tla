---------------------------- MODULE MemoryLabProofs ----------------------------
(***************************************************************************)
(* The memory experiment, for any configuration and any number of runs and *)
(* messages: types, limits, timers, one experiment at a time, and the      *)
(* snapshot that is offered.                                               *)
(***************************************************************************)
EXTENDS MemoryLab, SequenceTheorems, TLAPS

LEMMA Bounds == MaxRuns \in Nat /\ 0 \in 0..MaxRuns
  BY BoundAssumption DEF BoundAssumption

LEMMA Profile ==
  /\ AllocationMb \subseteq Nat \ {0} /\ LimitMb \subseteq Nat \ {0}
  /\ DefaultConfig \in Configs /\ RetainedLimitMb \in Nat /\ SnapshotMaxRetainedMb \in Nat
  /\ \A l \in LimitMb : l <= RetainedLimitMb
  /\ Rss \subseteq {"below", "at", "above"}
  BY ProfileAssumption DEF ProfileAssumption

Messages == SampleMsg \cup SnapshotMsg

-----------------------------------------------------------------------------
(* Types.  They rest on which run is whose: the child, and a stop timer,   *)
(* are of the last run, and only a process that is alive has messages to   *)
(* receive.                                                                *)
Owned ==
  /\ child \in {0, runs}
  /\ stopTimer \in {0, runs}
  /\ child = 0 /\ ~down => stopTimer = 0 /\ proc.os # "alive"
  /\ proc.os = "alive" => runs # 0
  /\ proc.os # "alive" => outbox = <<>>
  /\ proc.writing => proc.os = "alive" /\ fileSeq # 0

LEMMA Processes ==
  /\ NoProcess \in ChildVars /\ Forked \in ChildVars /\ Dead \in ChildVars
  /\ NoProcess.os = "none" /\ Forked.os = "alive" /\ Dead.os = "dead"
  /\ ~NoProcess.writing /\ ~Forked.writing /\ ~Dead.writing
  BY DEF NoProcess, Forked, Dead, ChildVars, ChildStatus

LEMMA KilledFacts ==
  ASSUME NEW p \in ChildVars
  PROVE  /\ Killed(p) \in ChildVars
         /\ Killed(p) = [p EXCEPT !.killed = (p.os = "alive")]
  BY DEF Killed, ChildVars

LEMMA QuietFacts ==
  ASSUME NEW p \in ChildVars, NEW status \in ChildStatus
  PROVE  /\ Quiet(p, status) \in ChildVars
         /\ Quiet(p, status) = [p EXCEPT !.timer = FALSE, !.status = status]
  BY DEF Quiet, ChildVars

LEMMA SampleFacts ==
  ASSUME NEW p \in ChildVars, NEW rss \in Rss
  PROVE  Sample(p, rss) \in Messages
  BY DEF Sample, ChildVars, Messages, SampleMsg

LEMMA NewsFacts ==
  ASSUME NEW status \in {"creating", "ready", "error"}, NEW file \in Nat
  PROVE  SnapshotNews(status, file) \in Messages
  BY DEF SnapshotNews, Messages, SnapshotMsg

(* What a callback of the child sends is added to the inbox of its run.    *)
LEMMA Sends ==
  ASSUME TypeOK, runs # 0, NEW p \in ChildVars, NEW msgs \in Seq(Messages),
         ChildStep(p, msgs)
  PROVE  /\ proc' \in ChildVars
         /\ inbox' \in [Runs -> Seq(Messages)]
         /\ inbox' = [inbox EXCEPT ![runs] = inbox[runs] \o msgs]
<1>1. runs \in Runs /\ inbox[runs] \in Seq(Messages) /\ inbox \in [Runs -> Seq(Messages)]
  BY DEF TypeOK, Runs, Messages
<1>2. inbox[runs] \o msgs \in Seq(Messages)
  BY <1>1, ConcatProperties
<1> QED BY <1>1, <1>2 DEF ChildStep

LEMMA InitTyped == Init => TypeOK /\ Owned
<1> SUFFICES ASSUME Init PROVE TypeOK /\ Owned
  OBVIOUS
<1>1. lab \in LabState /\ view \in LabState
  BY Profile DEF Init, LabState, ChildStatus
<1>2. inbox \in [Runs -> Seq(SampleMsg \cup SnapshotMsg)] /\ outbox \in Seq(Actions \cup {"start"})
  BY EmptySeq DEF Init
<1>3. Owned
  BY Processes DEF Init, Owned
<1>4. proc \in ChildVars
  BY Processes DEF Init
<1>5. /\ child \in 0..MaxRuns /\ stopTimer \in 0..MaxRuns /\ runs \in 0..MaxRuns
      /\ connected \in BOOLEAN /\ down \in BOOLEAN /\ stopDue \in BOOLEAN
      /\ snapshotPath \in Nat /\ fileSeq \in Nat
      /\ files \subseteq Nat \ {0}
  BY Bounds DEF Init
<1>6. TypeOK
  BY <1>1, <1>2, <1>4, <1>5 DEF TypeOK
<1> QED BY <1>3, <1>6

LEMMA ConfigTyped ==
  ASSUME NEW allocation, NEW limit
  PROVE  SafeConfig(allocation, limit) \in Configs
  BY Profile DEF SafeConfig, Configs

LEMMA RequestTyped ==
  ASSUME TypeOK, Owned, Request
  PROVE  (TypeOK /\ Owned)'
<1> USE DEF TypeOK, Owned
<1>0. \A a \in Actions \cup {"start"} : /\ <<a>> \in Seq(Actions \cup {"start"})
                                       /\ Append(outbox, a) \in Seq(Actions \cup {"start"})
  BY AppendProperties
<1>1. ASSUME NEW allocation \in Inputs, NEW limit \in Inputs, Start(allocation, limit)
      PROVE  (TypeOK /\ Owned)'
  <2>1. SafeConfig(allocation, limit) \in Configs
    BY ConfigTyped
  <2>2. lab' \in LabState /\ view' \in LabState
    BY <1>1, <2>1 DEF Start, Broadcast, LabState, ChildStatus
  <2>3. /\ proc' \in ChildVars /\ ~proc'.writing
        /\ outbox' \in Seq(Actions \cup {"start"})
        /\ proc'.os # "alive" => outbox' = <<>>
        /\ connected' \in BOOLEAN
    BY <1>0, <1>1, Processes, EmptySeq DEF Start
  <2> QED BY <1>1, <2>2, <2>3, Bounds DEF Start
<1>2. CASE StartThrows
  BY <1>2 DEF StartThrows
<1>3. CASE RequestSnapshot
  BY <1>0, <1>3 DEF RequestSnapshot, SendToChild, Broadcast, Reachable, LabState, Actions
<1>4. CASE RequestStop
  BY <1>0, <1>4 DEF RequestStop, SendToChild, Actions
<1>5. ASSUME NEW action \in Actions, RequestAction(action) PROVE (TypeOK /\ Owned)'
  BY <1>0, <1>5 DEF RequestAction, SendToChild, Reachable, supervisor
<1>6. CASE StopForShutdown
  BY <1>6, KilledFacts, Bounds DEF StopForShutdown, ChildVars
<1> QED BY <1>1, <1>2, <1>3, <1>4, <1>5, <1>6 DEF Request

(* The first message of a run, handled.                                    *)
LEMMA Delivers ==
  ASSUME TypeOK, NEW r \in Runs, NEW type, Deliver(r, type)
  PROVE  /\ inbox[r] \in Seq(Messages) /\ inbox[r] # <<>>
         /\ inbox[r][1] \in Messages /\ inbox[r][1].type = type
         /\ inbox' = [inbox EXCEPT ![r] = Tail(inbox[r])]
         /\ inbox' \in [Runs -> Seq(Messages)]
         /\ UNCHANGED <<child, connected, stopTimer, stopDue, runs, down, outbox, fileSeq>>
<1>1. inbox \in [Runs -> Seq(Messages)] /\ inbox[r] \in Seq(Messages) /\ inbox[r] # <<>>
  BY DEF TypeOK, Messages, Deliver
<1>2. Tail(inbox[r]) \in Seq(Messages) /\ inbox[r][1] \in Messages
  BY <1>1, HeadTailProperties, ElementOfSeq
<1> QED BY <1>1, <1>2 DEF Deliver

LEMMA CallbackTyped ==
  ASSUME TypeOK, Owned,
         \/ StopTimerElapses \/ StopTimerFires \/ OnDisconnect \/ OnExit
         \/ \E r \in Runs : OnMessage(r)
  PROVE  (TypeOK /\ Owned)'
<1> USE DEF TypeOK, Owned
<1>0. CASE StopTimerElapses
  BY <1>0 DEF StopTimerElapses
<1>1. CASE StopTimerFires
  <2>1. /\ stopTimer' = 0 /\ stopDue' = FALSE /\ proc' \in {proc, Killed(proc)}
        /\ UNCHANGED <<child, connected, lab, view, snapshotPath, runs, down, outbox, inbox,
                       files, fileSeq>>
    BY <1>1 DEF StopTimerFires
  <2>2. proc' \in ChildVars /\ proc'.os = proc.os /\ proc'.writing = proc.writing
    BY <2>1, KilledFacts DEF ChildVars
  <2>3. TypeOK'
    BY <2>1, <2>2, Bounds
  <2>4. Owned'
    BY <2>1, <2>2
  <2> QED BY <2>3, <2>4
<1>2. CASE OnDisconnect
  BY <1>2 DEF OnDisconnect
<1>3. CASE OnExit
  <2>1. lab' \in LabState /\ view' \in LabState
    BY <1>3 DEF OnExit, Broadcast, LabState, ChildStatus
  <2>2. proc' \in ChildVars /\ proc'.os = "none" /\ ~proc'.writing
    BY <1>3, Processes DEF OnExit
  <2>3. /\ child' = 0 /\ stopTimer' = 0 /\ stopDue' = FALSE /\ connected' = FALSE /\ outbox = <<>>
        /\ UNCHANGED <<snapshotPath, runs, down, outbox, inbox, files, fileSeq>>
    BY <1>3 DEF OnExit
  <2>4. TypeOK'
    BY <2>1, <2>2, <2>3, Bounds
  <2>5. Owned'
    BY <2>2, <2>3
  <2> QED BY <2>4, <2>5
<1>4. ASSUME NEW r \in Runs, OnSample(r) PROVE (TypeOK /\ Owned)'
  <2>1. Deliver(r, "sample")
    BY <1>4 DEF OnSample
  <2>2. inbox[r][1] \in SampleMsg
    BY <2>1, Delivers DEF Messages, SnapshotMsg, SampleMsg
  <2>3. lab' \in LabState /\ view' \in LabState
    BY <1>4, <2>2 DEF OnSample, Broadcast, LabState, SampleMsg
  <2>4. proc' \in ChildVars /\ proc'.os = proc.os /\ proc'.writing = proc.writing
    BY <1>4, KilledFacts DEF OnSample, ChildVars
  <2> QED BY <1>4, <2>1, <2>3, <2>4, Delivers DEF OnSample, Messages
<1>5. ASSUME NEW r \in Runs, OnSnapshotReady(r) \/ OnSnapshotProgress(r)
      PROVE  (TypeOK /\ Owned)'
  <2>1. Deliver(r, "snapshot")
    BY <1>5 DEF OnSnapshotReady, OnSnapshotProgress
  <2>2. inbox[r][1] \in SnapshotMsg
    BY <2>1, Delivers DEF Messages, SnapshotMsg, SampleMsg
  <2>3. lab' \in LabState /\ view' \in LabState
    <3>1. PICK news \in {"creating", "ready", "error"} :
            lab' = [lab EXCEPT !.snapshot = news] /\ view' = lab'
      BY <1>5, <2>2 DEF OnSnapshotReady, OnSnapshotProgress, Broadcast, SnapshotMsg
    <3> QED BY <3>1 DEF LabState
  <2>4. snapshotPath' \in Nat /\ files' \subseteq Nat \ {0} /\ UNCHANGED proc
    BY <1>5, <2>2 DEF OnSnapshotReady, OnSnapshotProgress, SnapshotMsg
  <2> QED BY <2>1, <2>3, <2>4, Delivers DEF Messages
<1> QED BY <1>0, <1>1, <1>2, <1>3, <1>4, <1>5 DEF OnMessage

-----------------------------------------------------------------------------
(* The child.  An interval is active exactly while it is running, it has   *)
(* room while it runs, and until it has been told to start it has nothing. *)
Within(p) ==
  /\ p.timer <=> p.status = "running"
  /\ p.retained <= lab.config.limitMb
  /\ p.status = "running" => p.retained < lab.config.limitMb

Told ==
  /\ \A i \in 2..Len(outbox) : outbox[i] # "start"
  /\ outbox # <<>> /\ outbox[1] = "start" => ~proc.timer /\ proc.retained = 0

Steady == Within(proc) /\ Told

LEMMA Limits ==
  ASSUME TypeOK
  PROVE  /\ lab.config.limitMb \in Nat \ {0} /\ lab.config.limitMb <= RetainedLimitMb
         /\ lab.config.allocationMb \in Nat \ {0} /\ RetainedLimitMb \in Nat
         /\ proc.retained \in Nat
  BY Profile DEF TypeOK, LabState, Configs, ChildVars

LEMMA InitSteady == Init => Steady
<1> SUFFICES ASSUME Init PROVE Steady
  OBVIOUS
<1>1. lab.config.limitMb \in Nat \ {0}
  BY Limits, InitTyped
<1>2. Len(outbox) = 0 /\ outbox = <<>>
  BY EmptySeq DEF Init
<1> QED BY <1>1, <1>2 DEF Init, Steady, Within, Told, NoProcess

(* Requests and callbacks of the supervisor leave the child what it is, or *)
(* fork a new one.                                                         *)
LEMMA RequestSteady ==
  ASSUME TypeOK, Owned, Steady, Request
  PROVE  Steady'
<1> USE DEF Within, Told
<1>0. /\ outbox \in Seq(Actions \cup {"start"}) /\ Len(outbox) \in Nat
      /\ \A a \in Actions : a # "start"
  BY LenProperties DEF TypeOK, Actions
<1>1. ASSUME NEW allocation \in Inputs, NEW limit \in Inputs, Start(allocation, limit)
      PROVE  Steady'
  <2>1. SafeConfig(allocation, limit).limitMb \in Nat \ {0}
    BY ConfigTyped, Profile DEF Configs
  <2>2. /\ lab'.config = SafeConfig(allocation, limit)
        /\ proc'.status = "starting" /\ proc'.retained = 0 /\ proc'.timer = FALSE
        /\ outbox' \in {<<>>, <<"start">>}
    BY <1>1 DEF Start, Forked, NoProcess
  <2>3. Len(outbox') \in {0, 1}
    BY <2>2
  <2> QED BY <2>1, <2>2, <2>3 DEF Steady
<1>2. ASSUME NEW action \in Actions, SendToChild(action) \/ UNCHANGED outbox,
             UNCHANGED proc, lab'.config = lab.config
      PROVE  Steady'
  <2>1. CASE UNCHANGED outbox
    BY <1>2, <2>1 DEF Steady
  <2>2. CASE outbox' = Append(outbox, action)
    <3>1. /\ Len(outbox') = Len(outbox) + 1
          /\ \A i \in 1..Len(outbox) : outbox'[i] = outbox[i]
          /\ outbox'[Len(outbox) + 1] = action
      BY <1>0, <2>2, AppendProperties
    <3>2. outbox # <<>> => Len(outbox) # 0
      BY <1>0, EmptySeq
    <3>3. \A i \in 2..Len(outbox') : outbox'[i] # "start"
      BY <1>0, <3>1 DEF Steady
    <3>4. outbox'[1] = "start" => outbox # <<>> /\ outbox[1] = "start"
      BY <1>0, <3>1, <3>2, EmptySeq
    <3> QED BY <1>2, <3>3, <3>4 DEF Steady
  <2> QED BY <1>2, <2>1, <2>2 DEF SendToChild
<1>3. CASE RequestSnapshot
  <2>1. SendToChild("snapshot") /\ UNCHANGED proc /\ "snapshot" \in Actions
    BY <1>3 DEF RequestSnapshot, Actions
  <2>2. lab'.config = lab.config
    BY <1>3 DEF RequestSnapshot, TypeOK, LabState
  <2> QED BY <1>2, <2>1, <2>2
<1>4. CASE RequestStop \/ \E action \in Actions : RequestAction(action)
  <2>1. /\ UNCHANGED <<proc, lab>>
        /\ \E action \in Actions : SendToChild(action) \/ UNCHANGED outbox
    BY <1>4 DEF RequestStop, RequestAction, supervisor, Actions
  <2> QED BY <1>2, <2>1
<1>5. CASE StartThrows
  BY <1>5 DEF StartThrows, Steady
<1>6. CASE StopForShutdown
  BY <1>6, KilledFacts DEF StopForShutdown, Steady, TypeOK, ChildVars
<1> QED BY <1>1, <1>3, <1>4, <1>5, <1>6 DEF Request

LEMMA CallbackSteady ==
  ASSUME TypeOK, Owned, Steady,
         \/ StopTimerElapses \/ StopTimerFires \/ OnDisconnect \/ OnExit
         \/ \E r \in Runs : OnMessage(r)
  PROVE  Steady'
<1> USE DEF Steady, Within, Told
<1>1. CASE StopTimerElapses \/ StopTimerFires
  BY <1>1, KilledFacts DEF StopTimerElapses, StopTimerFires, TypeOK, ChildVars
<1>2. CASE OnDisconnect
  BY <1>2 DEF OnDisconnect
<1>3. CASE OnExit
  <2>1. /\ lab'.config = lab.config /\ outbox' = <<>> /\ Len(outbox') = 0
        /\ proc'.timer = FALSE /\ proc'.status = "starting" /\ proc'.retained = 0
    BY <1>3, EmptySeq DEF OnExit, TypeOK, LabState, Owned, NoProcess
  <2> QED BY <2>1, Limits
<1>4. ASSUME NEW r \in Runs, OnMessage(r) PROVE Steady'
  <2>1. lab'.config = lab.config /\ UNCHANGED outbox
    BY <1>4 DEF OnMessage, OnSample, OnSnapshotReady, OnSnapshotProgress, Deliver, TypeOK,
       LabState
  <2>2. /\ proc'.timer = proc.timer /\ proc'.status = proc.status
        /\ proc'.retained = proc.retained
    <3>1. proc' = proc \/ proc' = Killed(proc)
      BY <1>4 DEF OnMessage, OnSample, OnSnapshotReady, OnSnapshotProgress
    <3>2. proc \in ChildVars
      BY DEF TypeOK
    <3> QED BY <3>1, <3>2, KilledFacts DEF ChildVars
  <2> QED BY <2>1, <2>2
<1> QED BY <1>1, <1>2, <1>3, <1>4

(* A callback of the child that leaves it as p, having sent msgs.          *)
LEMMA ChildKeeps ==
  ASSUME TypeOK, Owned, Steady, proc.os = "alive", UNCHANGED supervisor,
         NEW p \in ChildVars, NEW msgs \in Seq(Messages), ChildStep(p, msgs),
         p.os = "alive", Within(p),
         \/ UNCHANGED outbox /\ (proc.timer \/ (~p.timer /\ p.retained = proc.retained))
         \/ outbox # <<>> /\ outbox' = Tail(outbox),
         fileSeq' \in Nat, files' \subseteq Nat \ {0}, p.writing => fileSeq' # 0
  PROVE  (TypeOK /\ Owned /\ Steady)'
<1>1. proc' = p /\ inbox' \in [Runs -> Seq(Messages)] /\ lab' = lab /\ runs' = runs
  BY Sends DEF ChildStep, supervisor, Owned
<1>2. outbox' \in Seq(Actions \cup {"start"}) /\ Told'
  <2>1. CASE UNCHANGED outbox /\ (proc.timer \/ (~p.timer /\ p.retained = proc.retained))
    BY <1>1, <2>1 DEF TypeOK, Steady, Told
  <2>2. CASE outbox # <<>> /\ outbox' = Tail(outbox)
    <3>1. /\ outbox' \in Seq(Actions \cup {"start"}) /\ Len(outbox') = Len(outbox) - 1
          /\ Len(outbox) \in Nat /\ \A i \in 1..Len(outbox') : outbox'[i] = outbox[i + 1]
      BY <2>2, HeadTailProperties, LenProperties DEF TypeOK
    <3>2. \A i \in 1..Len(outbox') : outbox'[i] # "start"
      BY <3>1 DEF Steady, Told
    <3>3. outbox' # <<>> => Len(outbox') # 0
      BY <3>1, EmptySeq
    <3> QED BY <3>1, <3>2, <3>3 DEF Told
  <2> QED BY <2>1, <2>2
<1>3. TypeOK'
  BY <1>1, <1>2 DEF TypeOK, supervisor, Messages
<1>4. Owned'
  BY <1>1 DEF Owned, supervisor
<1>5. Within(proc)'
  BY <1>1 DEF Within
<1> QED BY <1>2, <1>3, <1>4, <1>5 DEF Steady

LEMMA ProcessFacts ==
  ASSUME TypeOK
  PROVE  /\ proc \in ChildVars /\ proc.status \in ChildStatus /\ proc.retained \in Nat
         /\ proc.timer \in BOOLEAN /\ proc.exiting \in BOOLEAN /\ proc.gc \in BOOLEAN
         /\ proc.stats \subseteq Nat \ {0}
  BY DEF TypeOK, ChildVars

LEMMA AtLimitFacts ==
  ASSUME NEW p \in ChildVars
  PROVE  /\ AtLimit(p) \in ChildVars /\ AtLimit(p).retained = p.retained
         /\ AtLimit(p).os = p.os /\ AtLimit(p).writing = p.writing
         /\ ~AtLimit(p).timer /\ AtLimit(p).status = "limit"
  BY DEF AtLimit, Quiet, ChildVars, ChildStatus

LEMMA AllocateKeeps ==
  ASSUME TypeOK, Owned, Steady, NEW rss \in Rss, AllocateBlock(rss)
  PROVE  (TypeOK /\ Owned /\ Steady)'
<1> DEFINE limit == lab.config.limitMb
           room == limit - proc.retained
           bytes == IF lab.config.allocationMb < room THEN lab.config.allocationMb ELSE room
           grown == [proc EXCEPT !.retained = proc.retained + bytes]
           full == grown.retained >= limit \/ grown.retained >= RetainedLimitMb
<1>1. /\ proc.os = "alive" /\ ~proc.writing /\ proc.timer /\ proc.status = "running"
      /\ UNCHANGED <<supervisor, outbox, files, fileSeq>>
  BY DEF AllocateBlock, Turn
<1>2. proc.retained < limit
  BY <1>1 DEF Steady, Within
<1>3. limit \in Nat /\ bytes \in Nat /\ bytes > 0 /\ proc.retained + bytes \in Nat
      /\ proc.retained + bytes <= limit
  BY <1>2, Limits
<1>4. /\ grown \in ChildVars /\ grown.retained = proc.retained + bytes /\ grown.os = "alive"
      /\ ~grown.writing /\ grown.timer /\ grown.status = "running"
  BY <1>1, <1>3, ProcessFacts DEF ChildVars
<1>5. /\ AtLimit(grown) \in ChildVars /\ AtLimit(grown).retained = proc.retained + bytes
      /\ AtLimit(grown).os = "alive" /\ ~AtLimit(grown).writing
      /\ ~AtLimit(grown).timer /\ AtLimit(grown).status = "limit"
  <2> HIDE DEF grown
  <2> QED BY <1>4, AtLimitFacts
<1>6. \/ ChildStep(AtLimit(grown), <<Sample(grown, rss), Sample(AtLimit(grown), rss)>>)
      \/ ~full /\ ChildStep(grown, <<Sample(grown, rss)>>)
  <2>1. ~(bytes <= 0)
    BY <1>3
  <2> QED BY <2>1 DEF AllocateBlock
<1>7. /\ <<Sample(grown, rss), Sample(AtLimit(grown), rss)>> \in Seq(Messages)
      /\ <<Sample(grown, rss)>> \in Seq(Messages)
  <2>1. Sample(grown, rss) \in Messages /\ Sample(AtLimit(grown), rss) \in Messages
    BY <1>4, <1>5, SampleFacts
  <2> QED BY <2>1
<1>8. Within(AtLimit(grown)) /\ (~full => Within(grown))
  BY <1>3, <1>4, <1>5 DEF Within
<1>9. fileSeq' \in Nat /\ files' \subseteq Nat \ {0}
  BY <1>1 DEF TypeOK
<1> HIDE DEF grown, full
<1>10. CASE ChildStep(AtLimit(grown), <<Sample(grown, rss), Sample(AtLimit(grown), rss)>>)
  BY <1>1, <1>5, <1>7, <1>8, <1>9, <1>10, ChildKeeps
<1>11. CASE ~full /\ ChildStep(grown, <<Sample(grown, rss)>>)
  BY <1>1, <1>4, <1>7, <1>8, <1>9, <1>11, ChildKeeps
<1> QED BY <1>6, <1>10, <1>11

(* Callbacks that stop the allocation: deadline, pause, release, stop.     *)
LEMMA QuietKeeps ==
  ASSUME TypeOK, Owned, Steady, proc.os = "alive", UNCHANGED supervisor,
         NEW status \in ChildStatus \ {"running"}, NEW rss \in Rss,
         NEW p \in ChildVars, p.os = "alive", ~p.timer, p.status = status,
         p.retained \in {0, proc.retained},
         NEW msgs \in Seq(Messages), ChildStep(p, msgs),
         \/ UNCHANGED outbox /\ p.retained = proc.retained
         \/ outbox # <<>> /\ outbox' = Tail(outbox),
         fileSeq' \in Nat, files' \subseteq Nat \ {0}, p.writing => fileSeq' # 0
  PROVE  (TypeOK /\ Owned /\ Steady)'
<1>1. Within(p)
  BY Limits DEF Steady, Within
<1> QED BY <1>1, ChildKeeps

LEMMA DeadlineKeeps ==
  ASSUME TypeOK, Owned, Steady, NEW rss \in Rss, Deadline(rss)
  PROVE  (TypeOK /\ Owned /\ Steady)'
<1>1. /\ proc.os = "alive" /\ ~proc.writing
      /\ UNCHANGED <<supervisor, outbox, files, fileSeq>>
  BY DEF Deadline, DeadlineStop, DeadlinePause, Turn
<1>2. fileSeq' \in Nat /\ files' \subseteq Nat \ {0}
  BY <1>1 DEF TypeOK
<1>3. CASE DeadlineStop(rss)
  <2>1. PICK p : /\ p = [Quiet(proc, "stopped") EXCEPT !.deadline = "done", !.exiting = TRUE]
                 /\ ChildStep(p, <<Sample(p, rss)>>)
    BY <1>3 DEF DeadlineStop
  <2>2. /\ p \in ChildVars /\ p.os = "alive" /\ ~p.timer /\ p.status = "stopped"
        /\ p.retained = proc.retained /\ ~p.writing
    BY <1>1, <2>1, ProcessFacts DEF Quiet, ChildVars, ChildStatus
  <2>3. <<Sample(p, rss)>> \in Seq(Messages)
    BY <2>2, SampleFacts
  <2> QED BY <1>1, <1>2, <2>1, <2>2, <2>3, QuietKeeps DEF ChildStatus
<1>4. CASE DeadlinePause(rss) /\ proc.status = "running"
  <2>1. PICK p : /\ p = Quiet([proc EXCEPT !.deadline = "done"], "paused")
                 /\ ChildStep(p, <<Sample(p, rss)>>)
    BY <1>4 DEF DeadlinePause
  <2>2. /\ p \in ChildVars /\ p.os = "alive" /\ ~p.timer /\ p.status = "paused"
        /\ p.retained = proc.retained /\ ~p.writing
    BY <1>1, <2>1, ProcessFacts DEF Quiet, ChildVars, ChildStatus
  <2>3. <<Sample(p, rss)>> \in Seq(Messages)
    BY <2>2, SampleFacts
  <2> QED BY <1>1, <1>2, <2>1, <2>2, <2>3, QuietKeeps DEF ChildStatus
<1>5. CASE DeadlinePause(rss) /\ proc.status # "running"
  <2>1. PICK p : p = [proc EXCEPT !.deadline = "done"] /\ ChildStep(p, <<>>)
    BY <1>5 DEF DeadlinePause
  <2>2. /\ p \in ChildVars /\ p.os = "alive" /\ p.timer = proc.timer
        /\ p.status = proc.status /\ p.retained = proc.retained /\ ~p.writing
    BY <1>1, <2>1, ProcessFacts DEF ChildVars
  <2>3. <<>> \in Seq(Messages) /\ Within(p)
    BY <2>2, EmptySeq DEF Steady, Within
  <2> QED BY <1>1, <1>2, <2>1, <2>2, <2>3, ProcessFacts, ChildKeeps
<1> QED BY <1>3, <1>4, <1>5 DEF Deadline

LEMMA Received ==
  ASSUME TypeOK, NEW action, Receive(action)
  PROVE  /\ proc.os = "alive" /\ ~proc.writing /\ UNCHANGED supervisor
         /\ outbox # <<>> /\ outbox' = Tail(outbox) /\ outbox[1] = action
  BY HeadTailProperties DEF Receive, Turn, TypeOK

LEMMA MessageKeeps ==
  ASSUME TypeOK, Owned, Steady, NEW rss \in Rss, ChildMessage(rss)
  PROVE  (TypeOK /\ Owned /\ Steady)'
<1>0. ChildStatus \ {"running"} = {"starting", "paused", "limit", "stopped"}
  BY DEF ChildStatus
<1>1. CASE StartExperiment(rss)
  <2>1. PICK p : /\ p = [proc EXCEPT !.status = "running", !.timer = TRUE, !.deadline = "armed"]
                 /\ ChildStep(p, <<Sample(p, rss)>>)
    BY <1>1 DEF StartExperiment
  <2>2. Receive("start") /\ UNCHANGED <<files, fileSeq>>
    BY <1>1 DEF StartExperiment
  <2>3. proc.retained = 0
    BY <2>2, Received DEF Steady, Told
  <2>4. /\ p \in ChildVars /\ p.os = "alive" /\ p.timer /\ p.status = "running"
        /\ p.retained = 0 /\ ~p.writing
    BY <2>1, <2>2, <2>3, Received, ProcessFacts DEF ChildVars, ChildStatus
  <2>5. <<Sample(p, rss)>> \in Seq(Messages) /\ Within(p)
    BY <2>4, SampleFacts, Limits DEF Within
  <2>6. fileSeq' \in Nat /\ files' \subseteq Nat \ {0}
    BY <2>2 DEF TypeOK
  <2> QED BY <2>1, <2>2, <2>4, <2>5, <2>6, Received, ChildKeeps
<1>2. CASE Resume(rss) /\ proc.status # "running" /\ ~(proc.retained >= lab.config.limitMb)
  <2>1. PICK p : /\ p = [proc EXCEPT !.status = "running", !.timer = TRUE]
                 /\ ChildStep(p, <<Sample(p, rss)>>)
    BY <1>2 DEF Resume
  <2>2. Receive("resume") /\ UNCHANGED <<files, fileSeq>>
    BY <1>2 DEF Resume
  <2>3. /\ p \in ChildVars /\ p.os = "alive" /\ p.timer /\ p.status = "running"
        /\ p.retained = proc.retained /\ ~p.writing
    BY <2>1, <2>2, Received, ProcessFacts DEF ChildVars, ChildStatus
  <2>4. <<Sample(p, rss)>> \in Seq(Messages) /\ Within(p)
    BY <1>2, <2>3, SampleFacts, Limits DEF Within
  <2>5. fileSeq' \in Nat /\ files' \subseteq Nat \ {0}
    BY <2>2 DEF TypeOK
  <2> QED BY <2>1, <2>2, <2>3, <2>4, <2>5, Received, ChildKeeps
<1>3. CASE Resume(rss) /\ proc.status # "running" /\ proc.retained >= lab.config.limitMb
  <2>1. /\ Receive("resume") /\ UNCHANGED <<files, fileSeq>>
        /\ ChildStep(AtLimit(proc), <<Sample(AtLimit(proc), rss)>>)
    BY <1>3 DEF Resume
  <2>2. PICK p : p = AtLimit(proc)
    OBVIOUS
  <2>3. /\ p \in ChildVars /\ p.os = "alive" /\ ~p.timer /\ p.status = "limit"
        /\ p.retained = proc.retained /\ ~p.writing
    BY <2>1, <2>2, Received, ProcessFacts, AtLimitFacts
  <2>4. <<Sample(p, rss)>> \in Seq(Messages)
    BY <2>3, SampleFacts
  <2>5. ChildStep(p, <<Sample(p, rss)>>)
    BY <2>1, <2>2 DEF ChildStep
  <2>6. fileSeq' \in Nat /\ files' \subseteq Nat \ {0}
    BY <2>1 DEF TypeOK
  <2> QED BY <1>0, <2>1, <2>3, <2>4, <2>5, <2>6, Received, QuietKeeps
<1>4. ASSUME NEW action \in Actions, Receive(action), UNCHANGED <<files, fileSeq>>,
             NEW p \in {proc, [proc EXCEPT !.gc = TRUE]}, ChildStep(p, <<>>)
      PROVE  (TypeOK /\ Owned /\ Steady)'
  <2>1. /\ p \in ChildVars /\ p.os = "alive" /\ p.timer = proc.timer
        /\ p.status = proc.status /\ p.retained = proc.retained /\ ~p.writing
    BY <1>4, Received, ProcessFacts DEF ChildVars
  <2>2. <<>> \in Seq(Messages) /\ Within(p)
    BY <2>1, EmptySeq DEF Steady, Within
  <2>3. fileSeq' \in Nat /\ files' \subseteq Nat \ {0}
    BY <1>4 DEF TypeOK
  <2> QED BY <1>4, <2>1, <2>2, <2>3, Received, ChildKeeps
<1>5. CASE (Pause(rss) /\ proc.status = "running") \/ Release(rss) \/ Stop(rss)
  <2>1. PICK action \in Actions : Receive(action) /\ UNCHANGED <<files, fileSeq>>
    BY <1>5 DEF Pause, Release, Stop, Actions
  <2>2. PICK p \in {Quiet(proc, "paused"), [Quiet(proc, "paused") EXCEPT !.retained = 0],
                    [Quiet(proc, "stopped") EXCEPT !.deadline = "done", !.exiting = TRUE]} :
          ChildStep(p, <<Sample(p, rss)>>)
    BY <1>5 DEF Pause, Release, Stop
  <2>3. /\ p \in ChildVars /\ p.os = "alive" /\ ~p.timer
        /\ p.status \in {"paused", "stopped"}
        /\ p.retained \in {0, proc.retained} /\ ~p.writing
    <3>0. proc.os = "alive" /\ ~proc.writing /\ proc \in ChildVars
      BY <2>1, Received, ProcessFacts
    <3>1. CASE p = Quiet(proc, "paused")
      BY <3>0, <3>1 DEF Quiet, ChildVars, ChildStatus
    <3>2. CASE p = [Quiet(proc, "paused") EXCEPT !.retained = 0]
      BY <3>0, <3>2 DEF Quiet, ChildVars, ChildStatus
    <3>3. CASE p = [Quiet(proc, "stopped") EXCEPT !.deadline = "done", !.exiting = TRUE]
      BY <3>0, <3>3 DEF Quiet, ChildVars, ChildStatus
    <3> QED BY <2>2, <3>1, <3>2, <3>3
  <2>4. <<Sample(p, rss)>> \in Seq(Messages)
    BY <2>3, SampleFacts
  <2>5. fileSeq' \in Nat /\ files' \subseteq Nat \ {0}
    BY <2>1 DEF TypeOK
  <2> QED BY <1>0, <2>1, <2>2, <2>3, <2>4, <2>5, Received, QuietKeeps
<1>6. CASE CreateHeapSnapshot(rss)
  <2>1. Receive("snapshot") /\ fileSeq' = fileSeq + 1 /\ files' = files \cup {fileSeq + 1}
    BY <1>6 DEF CreateHeapSnapshot, SnapshotName
  <2>2. fileSeq' \in Nat /\ files' \subseteq Nat \ {0} /\ fileSeq' # 0
    BY <2>1 DEF TypeOK
  <2>3. SnapshotNews("creating", 0) \in Messages
    BY NewsFacts
  <2>4. CASE proc.status = "running"
    <3>1. PICK p, m : /\ p = [Quiet(proc, "paused") EXCEPT !.writing = TRUE]
                      /\ m = Sample(Quiet(proc, "paused"), rss)
                      /\ ChildStep(p, <<m, SnapshotNews("creating", 0)>>)
      BY <1>6, <2>4 DEF CreateHeapSnapshot
    <3>2. /\ p \in ChildVars /\ p.os = "alive" /\ ~p.timer /\ p.status = "paused"
          /\ p.retained = proc.retained
      BY <2>1, <3>1, Received, ProcessFacts DEF Quiet, ChildVars, ChildStatus
    <3>3. m \in Messages
      BY <3>1, QuietFacts, SampleFacts, ProcessFacts DEF ChildStatus
    <3>4. <<m, SnapshotNews("creating", 0)>> \in Seq(Messages)
      BY <2>3, <3>3
    <3> QED BY <1>0, <2>1, <2>2, <3>1, <3>2, <3>4, Received, QuietKeeps
  <2>5. CASE proc.status # "running"
    <3>1. PICK p : /\ p = [proc EXCEPT !.writing = TRUE]
                   /\ ChildStep(p, <<SnapshotNews("creating", 0)>>)
      BY <1>6, <2>5 DEF CreateHeapSnapshot
    <3>2. /\ p \in ChildVars /\ p.os = "alive" /\ p.timer = proc.timer
          /\ p.status = proc.status /\ p.retained = proc.retained
      BY <2>1, <3>1, Received, ProcessFacts DEF ChildVars
    <3>3. <<SnapshotNews("creating", 0)>> \in Seq(Messages) /\ Within(p)
      BY <2>3, <3>2 DEF Steady, Within
    <3> QED BY <2>1, <2>2, <3>1, <3>2, <3>3, Received, ChildKeeps
  <2> QED BY <2>4, <2>5
<1>7. CASE Resume(rss)
  <2>1. CASE proc.status = "running"
    <3>1. Receive("resume") /\ UNCHANGED <<files, fileSeq>> /\ ChildStep(proc, <<>>)
      BY <1>7, <2>1 DEF Resume
    <3> QED BY <1>4, <3>1 DEF Actions
  <2>2. CASE proc.status # "running" /\ proc.retained >= lab.config.limitMb
    BY <1>3, <1>7, <2>2
  <2>3. CASE proc.status # "running" /\ ~(proc.retained >= lab.config.limitMb)
    BY <1>2, <1>7, <2>3
  <2> QED BY <2>1, <2>2, <2>3
<1>8. CASE Pause(rss)
  <2>1. CASE proc.status = "running"
    BY <1>5, <1>8, <2>1
  <2>2. CASE proc.status # "running"
    <3>1. Receive("pause") /\ UNCHANGED <<files, fileSeq>> /\ ChildStep(proc, <<>>)
      BY <1>8, <2>2 DEF Pause
    <3> QED BY <1>4, <3>1 DEF Actions
  <2> QED BY <2>1, <2>2
<1>9. CASE Gc
  <2>1. /\ Receive("gc") /\ UNCHANGED <<files, fileSeq>>
        /\ ChildStep([proc EXCEPT !.gc = TRUE], <<>>)
    BY <1>9 DEF Gc
  <2> QED BY <1>4, <2>1 DEF Actions
<1>10. CASE Release(rss) \/ Stop(rss)
  BY <1>5, <1>10
<1> QED BY <1>1, <1>6, <1>7, <1>8, <1>9, <1>10 DEF ChildMessage

-----------------------------------------------------------------------------
(* The awaits of createHeapSnapshot, the second GC pass, and the end.      *)
LEMMA CallbackKeeps ==
  ASSUME TypeOK, Owned, Steady,
         \/ \E rss \in Rss : GcSecondPass(rss)
         \/ HeapSnapshotWritten \/ HeapSnapshotFailed
         \/ \E file \in proc.stats : StatDone(file)
  PROVE  (TypeOK /\ Owned /\ Steady)'
<1>1. /\ proc.os = "alive" /\ UNCHANGED <<supervisor, outbox, fileSeq>>
      /\ files' \subseteq files
  BY DEF GcSecondPass, HeapSnapshotWritten, HeapSnapshotFailed, StatDone, Turn
<1>2. fileSeq' \in Nat /\ files' \subseteq Nat \ {0} /\ (proc.writing => fileSeq \in Nat \ {0})
  BY <1>1 DEF TypeOK, Owned
<1>3. ASSUME NEW p \in ChildVars, NEW msgs \in Seq(Messages), ChildStep(p, msgs),
             p.os = "alive", ~p.writing, p.timer = proc.timer, p.status = proc.status,
             p.retained = proc.retained
      PROVE  (TypeOK /\ Owned /\ Steady)'
  <2>1. Within(p)
    BY <1>3 DEF Steady, Within
  <2> QED BY <1>1, <1>2, <1>3, <2>1, ProcessFacts, ChildKeeps
<1>4. ASSUME NEW rss \in Rss, GcSecondPass(rss) PROVE (TypeOK /\ Owned /\ Steady)'
  <2>1. PICK p : p = [proc EXCEPT !.gc = FALSE] /\ ChildStep(p, <<Sample(proc, rss)>>)
    BY <1>4 DEF GcSecondPass
  <2>2. /\ p \in ChildVars /\ p.os = "alive" /\ ~p.writing /\ p.timer = proc.timer
        /\ p.status = proc.status /\ p.retained = proc.retained
    BY <1>4, <2>1, ProcessFacts DEF ChildVars, GcSecondPass, Turn
  <2>3. <<Sample(proc, rss)>> \in Seq(Messages)
    BY ProcessFacts, SampleFacts
  <2> QED BY <1>3, <2>1, <2>2, <2>3
<1>5. CASE HeapSnapshotWritten
  <2>1. PICK p : p = [proc EXCEPT !.writing = FALSE, !.stats = proc.stats \cup {fileSeq}]
    OBVIOUS
  <2>2. proc' = p /\ UNCHANGED inbox
    BY <1>5, <2>1 DEF HeapSnapshotWritten
  <2>3. proc.writing
    BY <1>5 DEF HeapSnapshotWritten
  <2>4. /\ p \in ChildVars /\ p.os = "alive" /\ ~p.writing /\ p.timer = proc.timer
        /\ p.status = proc.status /\ p.retained = proc.retained
    <3>1. proc.stats \cup {fileSeq} \in SUBSET (Nat \ {0})
      BY <1>2, <2>3, ProcessFacts
    <3> QED BY <1>1, <2>1, <3>1, ProcessFacts DEF ChildVars
  <2>5. runs \in Runs
    BY <1>1 DEF TypeOK, Owned, Runs
  <2>6. inbox[runs] \in Seq(Messages) /\ inbox \in [Runs -> Seq(Messages)]
    BY <2>5 DEF TypeOK, Messages
  <2>7. inbox[runs] \o <<>> = inbox[runs]
    BY <2>6, ConcatEmptySeq
  <2>8. ChildStep(p, <<>>) /\ <<>> \in Seq(Messages)
    BY <2>2, <2>6, <2>7, EmptySeq DEF ChildStep
  <2> QED BY <1>3, <2>4, <2>8
<1>6. CASE HeapSnapshotFailed
  <2>1. PICK p : p = [proc EXCEPT !.writing = FALSE] /\ ChildStep(p, <<SnapshotNews("error", 0)>>)
    BY <1>6 DEF HeapSnapshotFailed
  <2>2. /\ p \in ChildVars /\ p.os = "alive" /\ ~p.writing /\ p.timer = proc.timer
        /\ p.status = proc.status /\ p.retained = proc.retained
    BY <1>1, <2>1, ProcessFacts DEF ChildVars
  <2>3. <<SnapshotNews("error", 0)>> \in Seq(Messages)
    BY NewsFacts
  <2> QED BY <1>3, <2>1, <2>2, <2>3
<1>7. ASSUME NEW file \in proc.stats, StatDone(file) PROVE (TypeOK /\ Owned /\ Steady)'
  <2>0. PICK news \in {SnapshotNews("ready", file), SnapshotNews("error", 0)} :
          ChildStep([proc EXCEPT !.stats = proc.stats \ {file}], <<news>>)
    BY <1>7 DEF StatDone
  <2>1. PICK p : p = [proc EXCEPT !.stats = proc.stats \ {file}] /\ ChildStep(p, <<news>>)
    BY <2>0
  <2>2. /\ p \in ChildVars /\ p.os = "alive" /\ ~p.writing /\ p.timer = proc.timer
        /\ p.status = proc.status /\ p.retained = proc.retained
    <3>1. proc.stats \ {file} \in SUBSET (Nat \ {0})
      BY ProcessFacts
    <3>2. ~proc.writing
      BY <1>7 DEF StatDone, Turn
    <3> QED BY <1>1, <2>1, <3>1, <3>2, ProcessFacts DEF ChildVars
  <2>3. file \in Nat
    BY ProcessFacts
  <2>4. <<news>> \in Seq(Messages)
    BY <2>0, <2>3, NewsFacts
  <2> QED BY <1>3, <2>1, <2>2, <2>4
<1> QED BY <1>4, <1>5, <1>6, <1>7

LEMMA EndKeeps ==
  ASSUME TypeOK, Owned, Steady, ChildExits \/ ProcessKilled \/ ProcessCrashes
  PROVE  (TypeOK /\ Owned /\ Steady)'
<1>1. /\ proc.os = "alive" /\ proc' = Dead /\ outbox' = <<>>
      /\ UNCHANGED <<supervisor, inbox, files, fileSeq>>
  BY DEF ChildExits, ProcessKilled, ProcessCrashes
<1>2. /\ proc' \in ChildVars /\ proc'.os = "dead" /\ ~proc'.writing /\ ~proc'.timer
      /\ proc'.status = "starting" /\ proc'.retained = 0
  BY <1>1, Processes DEF Dead, NoProcess
<1>3. outbox' \in Seq(Actions \cup {"start"}) /\ Len(outbox') = 0
  BY <1>1, EmptySeq
<1>4. TypeOK'
  BY <1>1, <1>2, <1>3 DEF TypeOK, supervisor
<1>5. Owned'
  BY <1>1, <1>2 DEF Owned, supervisor
<1>6. Steady'
  BY <1>1, <1>2, <1>3, Limits DEF Steady, Within, Told, supervisor
<1> QED BY <1>4, <1>5, <1>6

LabInv == TypeOK /\ Owned /\ Steady

LEMMA Invariant == Spec => []LabInv
<1>1. Init => LabInv
  BY InitTyped, InitSteady DEF LabInv
<1>2. LabInv /\ [Next]_vars => LabInv'
  <2> SUFFICES ASSUME LabInv, [Next]_vars PROVE LabInv'
    OBVIOUS
  <2> USE DEF LabInv
  <2>1. CASE Request
    BY <2>1, RequestTyped, RequestSteady
  <2>2. CASE \/ StopTimerElapses \/ StopTimerFires \/ OnDisconnect \/ OnExit
             \/ \E r \in Runs : OnMessage(r)
    BY <2>2, CallbackTyped, CallbackSteady
  <2>3. ASSUME NEW rss \in Rss, ChildCallback(rss) PROVE LabInv'
    BY <2>3, AllocateKeeps, DeadlineKeeps, CallbackKeeps, MessageKeeps DEF ChildCallback
  <2>4. CASE HeapSnapshotWritten \/ HeapSnapshotFailed \/ \E file \in proc.stats : StatDone(file)
    BY <2>4, CallbackKeeps
  <2>5. CASE ChildExits \/ ProcessKilled \/ ProcessCrashes
    BY <2>5, EndKeeps
  <2>6. CASE UNCHANGED vars
    BY <2>6 DEF vars, TypeOK, Owned, Steady, Within, Told
  <2> QED BY <2>1, <2>2, <2>3, <2>4, <2>5, <2>6 DEF Next
<1> QED BY <1>1, <1>2, PTL DEF Spec

(* Every variable of the supervisor, the child and the channels stays in   *)
(* its type, for any profile and any number of runs and messages.          *)
THEOREM MemoryTyped == Spec => []TypeOK
<1>1. LabInv => TypeOK
  BY DEF LabInv
<1> QED BY <1>1, Invariant, PTL

(* The child's allocation interval is active exactly while it reports      *)
(* itself running, in whatever order pauses, snapshots, limits, the        *)
(* deadline and a stop meet.                                               *)
THEOREM AllocatesWhileRunning == Spec => []TimerIffRunning
<1>1. LabInv => TimerIffRunning
  BY DEF LabInv, Steady, Within, TimerIffRunning
<1> QED BY <1>1, Invariant, PTL

(* No run retains more than its limit, or the profile's, for every profile *)
(* whose limits are within it and every start request.                     *)
THEOREM WithinLimits == Spec => []RetainedWithinLimits
<1>1. LabInv => RetainedWithinLimits
  BY Limits DEF LabInv, Steady, Within, RetainedWithinLimits
<1> QED BY <1>1, Invariant, PTL

(* start() forks only when the process of the earlier run is gone.         *)
THEOREM OneAtATime == Spec => []OneExperiment
<1>1. LabInv => OneExperiment
  BY DEF LabInv, Owned, OneExperiment
<1> QED BY <1>1, Invariant, PTL

(* The pending stop timer kills no process but the one whose stop armed it. *)
THEOREM StopTimerIsOwn == Spec => []StopTimerOwnRun
<1>1. LabInv => StopTimerOwnRun
  BY DEF LabInv, Owned, StopTimerOwnRun, TypeOK
<1> QED BY <1>1, Invariant, PTL

(* Every SSE client was last sent the supervisor's current state: each      *)
(* handler that changes it also broadcasts it.                             *)
THEOREM ClientsCurrent == Spec => []ClientsSeeCurrentState
<1> USE DEF ClientsSeeCurrentState, supervisor
<1>1. Init => ClientsSeeCurrentState
  BY DEF Init
<1>2. ClientsSeeCurrentState /\ [Next]_vars => ClientsSeeCurrentState'
  <2> SUFFICES ASSUME ClientsSeeCurrentState, [Next]_vars PROVE view' = lab'
    OBVIOUS
  <2>1. CASE Request
    BY <2>1 DEF Request, Start, StartThrows, RequestSnapshot, RequestStop, RequestAction,
       StopForShutdown, Broadcast
  <2>2. CASE \/ StopTimerElapses \/ StopTimerFires \/ OnDisconnect \/ OnExit
             \/ \E r \in Runs : OnMessage(r)
    BY <2>2 DEF StopTimerElapses, StopTimerFires, OnDisconnect, OnExit, OnMessage,
       OnSample, OnSnapshotReady, OnSnapshotProgress, Broadcast
  <2>3. ASSUME NEW rss \in Rss, ChildCallback(rss) PROVE view' = lab'
    BY <2>3 DEF ChildCallback, AllocateBlock, Deadline, DeadlineStop, DeadlinePause,
       GcSecondPass, ChildMessage, StartExperiment, Pause, Resume, Release, Gc, Stop,
       CreateHeapSnapshot, Receive
  <2>4. CASE HeapSnapshotWritten \/ HeapSnapshotFailed \/ \E file \in proc.stats : StatDone(file)
    BY <2>4 DEF HeapSnapshotWritten, HeapSnapshotFailed, StatDone
  <2>5. CASE ChildExits \/ ProcessKilled \/ ProcessCrashes
    BY <2>5 DEF ChildExits, ProcessKilled, ProcessCrashes
  <2>6. CASE UNCHANGED vars
    BY <2>6 DEF vars
  <2> QED BY <2>1, <2>2, <2>3, <2>4, <2>5, <2>6 DEF Next
<1> QED BY <1>1, <1>2, PTL DEF Spec

-----------------------------------------------------------------------------
(* Snapshot files.  A file that is being written, whose stat is awaited, or *)
(* that a "ready" message on its way names, is on disk, is in only one of   *)
(* these places, and is not the one on offer: the cleanup of the one on     *)
(* offer, which no handler compares with the others, takes none of them.    *)
Names(m, file) == m.type = "snapshot" /\ m.status = "ready" /\ m.file = file

Announces(r, i, file) == i \in 1..Len(inbox[r]) /\ Names(inbox[r][i], file)

Pending ==
  /\ proc.writing => fileSeq \in files \ (proc.stats \cup {snapshotPath})
  /\ proc.stats \subseteq files \ {snapshotPath}

Kept ==
  /\ files \subseteq 1..fileSeq
  /\ snapshotPath \in files \cup {0}
  /\ Pending
  /\ \A r \in Runs, i, file \in Nat : Announces(r, i, file) =>
       /\ file \in files \ (proc.stats \cup {snapshotPath})
       /\ proc.writing => file # fileSeq
       /\ \A q \in Runs, j \in Nat : Announces(q, j, file) => q = r /\ j = i

LEMMA Handled ==
  ASSUME TypeOK, NEW r \in Runs, NEW type, Deliver(r, type),
         NEW q \in Runs, NEW i \in Nat, NEW file, Announces(q, i, file)'
  PROVE  Announces(q, IF q = r THEN i + 1 ELSE i, file)
<1>1. /\ inbox \in [Runs -> Seq(Messages)] /\ inbox[r] # <<>> /\ inbox[r] \in Seq(Messages)
      /\ inbox' = [inbox EXCEPT ![r] = Tail(inbox[r])]
  BY Delivers DEF TypeOK, Messages
<1>2. /\ Len(Tail(inbox[r])) = Len(inbox[r]) - 1 /\ Len(inbox[r]) \in Nat
      /\ \A k \in 1..Len(Tail(inbox[r])) : Tail(inbox[r])[k] = inbox[r][k + 1]
  BY <1>1, HeadTailProperties, LenProperties
<1>3. CASE q = r
  <2>1. inbox'[q] = Tail(inbox[r])
    BY <1>1, <1>3
  <2> QED BY <1>2, <1>3, <2>1 DEF Announces
<1>4. CASE q # r
  BY <1>1, <1>4 DEF Announces
<1> QED BY <1>3, <1>4

(* What is added to the inbox of the last run.                             *)
LEMMA Sent ==
  ASSUME TypeOK, runs # 0, NEW p, NEW msgs \in Seq(Messages), ChildStep(p, msgs),
         NEW q \in Runs, NEW i \in Nat, NEW file, Announces(q, i, file)'
  PROVE  \/ Announces(q, i, file)
         \/ /\ q = runs /\ i > Len(inbox[runs])
            /\ i - Len(inbox[runs]) \in 1..Len(msgs)
            /\ Names(msgs[i - Len(inbox[runs])], file)
<1>1. /\ runs \in Runs /\ inbox \in [Runs -> Seq(Messages)] /\ inbox[runs] \in Seq(Messages)
      /\ inbox' = [inbox EXCEPT ![runs] = inbox[runs] \o msgs]
  <2>1. runs \in Runs /\ inbox \in [Runs -> Seq(Messages)]
    BY DEF TypeOK, Runs, Messages
  <2> QED BY <2>1 DEF ChildStep
<1>2. /\ Len(inbox[runs] \o msgs) = Len(inbox[runs]) + Len(msgs)
      /\ Len(inbox[runs]) \in Nat /\ Len(msgs) \in Nat
      /\ \A k \in 1..Len(inbox[runs]) + Len(msgs) : (inbox[runs] \o msgs)[k] =
           IF k <= Len(inbox[runs]) THEN inbox[runs][k] ELSE msgs[k - Len(inbox[runs])]
  BY <1>1, ConcatProperties, LenProperties
<1>3. CASE q = runs
  <2>1. inbox'[q] = inbox[runs] \o msgs
    BY <1>1, <1>3
  <2> QED BY <1>2, <1>3, <2>1 DEF Announces
<1>4. CASE q # runs
  BY <1>1, <1>4 DEF Announces
<1> QED BY <1>3, <1>4

(* A callback of the child that announces nothing.                         *)
LEMMA QuietlyKept ==
  ASSUME TypeOK, Kept, runs # 0, NEW p, NEW msgs \in Seq(Messages), ChildStep(p, msgs),
         \A k \in 1..Len(msgs), file \in Nat : ~Names(msgs[k], file),
         UNCHANGED <<files, fileSeq, snapshotPath>>,
         p.writing => proc.writing, p.stats \subseteq proc.stats
  PROVE  Kept'
<1>1. proc' = p /\ inbox' = [inbox EXCEPT ![runs] = inbox[runs] \o msgs]
  BY DEF ChildStep
<1>2. \A q \in Runs, i, file \in Nat : Announces(q, i, file)' => Announces(q, i, file)
  BY Sent
<1> QED BY <1>1, <1>2 DEF Kept, Pending

LEMMA NothingNamed ==
  ASSUME NEW p, NEW rss, NEW file \in Nat
  PROVE  /\ ~Names(Sample(p, rss), file)
         /\ ~Names(SnapshotNews("creating", 0), file) /\ ~Names(SnapshotNews("error", 0), file)
         /\ \A g : Names(SnapshotNews("ready", g), file) => file = g
  BY DEF Names, Sample, SnapshotNews

(* A step that announces nothing, and gives up at most the file on offer.  *)
LEMMA LeavesFiles ==
  ASSUME TypeOK, Kept, UNCHANGED <<inbox, fileSeq>>,
         \/ UNCHANGED <<files, snapshotPath>>
         \/ files' = files \ {snapshotPath} /\ snapshotPath' = 0,
         proc'.writing => proc.writing, proc'.stats \subseteq proc.stats
  PROVE  Kept'
<1>1. 0 \notin files
  BY DEF TypeOK
<1>2. \A q \in Runs, i, file \in Nat : Announces(q, i, file)' => Announces(q, i, file)
  BY DEF Announces
<1>3. Pending'
  BY <1>1 DEF Kept, Pending
<1>4. ASSUME NEW q \in Runs, NEW i \in Nat, NEW file \in Nat, Announces(q, i, file)'
      PROVE  /\ file \in (files \ (proc.stats \cup {snapshotPath}))'
             /\ proc'.writing => file # fileSeq'
             /\ \A p \in Runs, j \in Nat : Announces(p, j, file)' => p = q /\ j = i
  <2>1. Announces(q, i, file)
    BY <1>2, <1>4
  <2>2. file \in files \ (proc.stats \cup {snapshotPath}) /\ (proc.writing => file # fileSeq)
    BY <2>1 DEF Kept
  <2>3. \A p \in Runs, j \in Nat : Announces(p, j, file)' => p = q /\ j = i
    BY <1>2, <2>1 DEF Kept
  <2> QED BY <1>1, <2>2, <2>3
<1>5. (files \subseteq 1..fileSeq /\ snapshotPath \in files \cup {0})'
  BY DEF Kept
<1> QED BY <1>3, <1>4, <1>5 DEF Kept

LEMMA RequestKept ==
  ASSUME TypeOK, Kept, Request
  PROVE  Kept'
<1>1. UNCHANGED <<inbox, fileSeq>>
  BY DEF Request, Start, StartThrows, RequestSnapshot, RequestStop, RequestAction,
     StopForShutdown
<1>2. \/ UNCHANGED <<files, snapshotPath>>
      \/ files' = files \ {snapshotPath} /\ snapshotPath' = 0
  BY DEF Request, Start, StartThrows, RequestSnapshot, RequestStop, RequestAction,
     StopForShutdown, supervisor
<1>3. (proc'.writing => proc.writing) /\ proc'.stats \subseteq proc.stats
  <2>1. proc' \in {Forked, NoProcess, proc, Killed(proc)}
    BY DEF Request, Start, StartThrows, RequestSnapshot, RequestStop, RequestAction,
       StopForShutdown
  <2>2. Killed(proc).writing = proc.writing /\ Killed(proc).stats = proc.stats
    BY KilledFacts DEF TypeOK, ChildVars
  <2>3. proc' \in {Forked, NoProcess} => ~proc'.writing /\ proc'.stats = {}
    BY DEF Forked, NoProcess
  <2> QED BY <2>1, <2>2, <2>3
<1> QED BY <1>1, <1>2, <1>3, LeavesFiles

LEMMA CallbackKept ==
  ASSUME TypeOK, Kept,
         \/ StopTimerElapses \/ StopTimerFires \/ OnDisconnect \/ OnExit
         \/ \E r \in Runs : OnMessage(r)
  PROVE  Kept'
<1>0. Killed(proc).writing = proc.writing /\ Killed(proc).stats = proc.stats
  BY KilledFacts DEF TypeOK, ChildVars
<1>1. CASE StopTimerElapses \/ StopTimerFires \/ OnDisconnect \/ OnExit
  <2>1. UNCHANGED <<inbox, files, fileSeq, snapshotPath>>
    BY <1>1 DEF StopTimerElapses, StopTimerFires, OnDisconnect, OnExit
  <2>2. (proc'.writing => proc.writing) /\ proc'.stats \subseteq proc.stats
    <3>1. proc' \in {NoProcess, proc, Killed(proc)}
      BY <1>1 DEF StopTimerElapses, StopTimerFires, OnDisconnect, OnExit
    <3>2. proc' = NoProcess => ~proc'.writing /\ proc'.stats = {}
      BY DEF NoProcess
    <3> QED BY <1>0, <3>1, <3>2
  <2> QED BY <2>1, <2>2, LeavesFiles
<1>2. ASSUME NEW r \in Runs, OnSample(r) \/ OnSnapshotProgress(r)
      PROVE  Kept'
  <2>1. PICK type : Deliver(r, type) /\ UNCHANGED <<files, snapshotPath>>
    BY <1>2 DEF OnSample, OnSnapshotProgress
  <2>2. UNCHANGED fileSeq /\ proc'.writing = proc.writing /\ proc'.stats = proc.stats
    BY <1>0, <1>2 DEF OnSample, OnSnapshotProgress, Deliver
  <2>3. \A q \in Runs, i, file \in Nat :
          Announces(q, i, file)' => Announces(q, IF q = r THEN i + 1 ELSE i, file)
    BY <2>1, Handled
  <2>4. Pending'
    BY <2>1, <2>2 DEF Kept, Pending
  <2>5. ASSUME NEW q \in Runs, NEW i \in Nat, NEW file \in Nat, Announces(q, i, file)'
        PROVE  /\ file \in (files \ (proc.stats \cup {snapshotPath}))'
               /\ proc'.writing => file # fileSeq'
               /\ \A p \in Runs, j \in Nat : Announces(p, j, file)' => p = q /\ j = i
    <3>1. Announces(q, IF q = r THEN i + 1 ELSE i, file)
      BY <2>3, <2>5
    <3>2. /\ file \in files \ (proc.stats \cup {snapshotPath})
          /\ proc.writing => file # fileSeq
      BY <3>1 DEF Kept
    <3>3. ASSUME NEW p \in Runs, NEW j \in Nat, Announces(p, j, file)'
          PROVE  p = q /\ j = i
      <4>1. Announces(p, IF p = r THEN j + 1 ELSE j, file)
        BY <2>3, <3>3
      <4> QED BY <3>1, <4>1 DEF Kept
    <3> QED BY <2>1, <2>2, <3>2, <3>3
  <2> QED BY <2>1, <2>2, <2>4, <2>5 DEF Kept
<1>3. ASSUME NEW r \in Runs, OnSnapshotReady(r)
      PROVE  Kept'
  <2>1. /\ Deliver(r, "snapshot") /\ UNCHANGED <<proc, fileSeq>>
        /\ files' = files \ {snapshotPath} /\ snapshotPath' = inbox[r][1].file
        /\ inbox[r][1].status = "ready"
    BY <1>3 DEF OnSnapshotReady, Deliver
  <2>2. PICK f \in Nat : f = inbox[r][1].file
    <3>1. inbox[r][1] \in SnapshotMsg
      BY <2>1, Delivers DEF Messages, SnapshotMsg, SampleMsg
    <3> QED BY <3>1 DEF SnapshotMsg
  <2>3. Announces(r, 1, f)
    <3>1. inbox[r] \in Seq(Messages) /\ inbox[r] # <<>> /\ inbox[r][1].type = "snapshot"
      BY <2>1, Delivers
    <3>2. Len(inbox[r]) \in Nat /\ Len(inbox[r]) # 0
      BY <3>1, EmptySeq, LenProperties
    <3> QED BY <2>1, <2>2, <3>1, <3>2 DEF Announces, Names
  <2>4. \A q \in Runs, i, file \in Nat :
          Announces(q, i, file)' => Announces(q, IF q = r THEN i + 1 ELSE i, file)
    BY <2>1, Handled
  <2>5. /\ f \in files \ (proc.stats \cup {snapshotPath}) /\ f \in files'
        /\ proc.writing => f # fileSeq
    BY <2>1, <2>3 DEF Kept
  <2>6. Pending' /\ snapshotPath' = f
    BY <2>1, <2>2, <2>5 DEF Kept, Pending
  <2>7. ASSUME NEW q \in Runs, NEW i \in Nat, NEW file \in Nat, Announces(q, i, file)'
        PROVE  /\ file \in (files \ (proc.stats \cup {snapshotPath}))'
               /\ proc'.writing => file # fileSeq'
               /\ \A p \in Runs, j \in Nat : Announces(p, j, file)' => p = q /\ j = i
    <3>1. Announces(q, IF q = r THEN i + 1 ELSE i, file) /\ i # 0
      BY <2>4, <2>7 DEF Announces
    <3>2. file # f
      <4>1. CASE q = r
        BY <2>3, <3>1, <4>1 DEF Kept
      <4>2. CASE q # r
        BY <2>3, <3>1, <4>2 DEF Kept
      <4> QED BY <4>1, <4>2
    <3>3. /\ file \in files \ (proc.stats \cup {snapshotPath})
          /\ proc.writing => file # fileSeq
      BY <3>1 DEF Kept
    <3>4. ASSUME NEW p \in Runs, NEW j \in Nat, Announces(p, j, file)'
          PROVE  p = q /\ j = i
      BY <2>4, <3>1, <3>4 DEF Kept
    <3> QED BY <2>1, <2>6, <3>2, <3>3, <3>4
  <2> QED BY <2>1, <2>5, <2>6, <2>7 DEF Kept
<1> QED BY <1>1, <1>2, <1>3 DEF OnMessage

(* A callback of the child that sends samples only.                        *)
LEMMA SamplesKept ==
  ASSUME TypeOK, Kept, runs # 0, UNCHANGED <<supervisor, files, fileSeq>>, NEW rss \in Rss,
         NEW p, p.writing => proc.writing, p.stats \subseteq proc.stats,
         NEW a \in ChildVars, NEW b \in ChildVars,
         \/ ChildStep(p, <<>>) \/ ChildStep(p, <<Sample(a, rss)>>)
         \/ ChildStep(p, <<Sample(a, rss), Sample(b, rss)>>)
  PROVE  Kept'
<1>1. Sample(a, rss) \in Messages /\ Sample(b, rss) \in Messages
  BY SampleFacts
<1>2. UNCHANGED snapshotPath
  BY DEF supervisor
<1>3. CASE ChildStep(p, <<>>)
  <2>1. PICK msgs : msgs = <<>>
    OBVIOUS
  <2>2. msgs \in Seq(Messages) /\ \A k \in 1..Len(msgs), file \in Nat : ~Names(msgs[k], file)
    BY <2>1, EmptySeq
  <2>3. ChildStep(p, msgs)
    BY <1>3, <2>1
  <2> QED BY <1>2, <2>2, <2>3, QuietlyKept
<1>4. CASE ChildStep(p, <<Sample(a, rss)>>)
  <2>1. PICK m : m = Sample(a, rss)
    OBVIOUS
  <2>2. \A file \in Nat : ~Names(m, file)
    BY <2>1, NothingNamed
  <2>3. <<m>> \in Seq(Messages) /\ \A k \in 1..Len(<<m>>), file \in Nat : ~Names(<<m>>[k], file)
    BY <1>1, <2>1, <2>2
  <2> QED BY <1>2, <1>4, <2>1, <2>3, QuietlyKept
<1>5. CASE ChildStep(p, <<Sample(a, rss), Sample(b, rss)>>)
  <2>1. PICK m, n : m = Sample(a, rss) /\ n = Sample(b, rss)
    OBVIOUS
  <2>2. \A file \in Nat : ~Names(m, file) /\ ~Names(n, file)
    BY <2>1, NothingNamed
  <2>3. /\ <<m, n>> \in Seq(Messages)
        /\ \A k \in 1..Len(<<m, n>>), file \in Nat : ~Names(<<m, n>>[k], file)
    BY <1>1, <2>1, <2>2
  <2> QED BY <1>2, <1>5, <2>1, <2>3, QuietlyKept
<1> QED BY <1>3, <1>4, <1>5

LEMMA AllocateKept ==
  ASSUME TypeOK, Owned, Steady, Kept, NEW rss \in Rss, AllocateBlock(rss)
  PROVE  Kept'
<1>1. /\ runs # 0 /\ UNCHANGED <<supervisor, files, fileSeq>>
      /\ proc.status = "running" /\ proc.retained < lab.config.limitMb
  BY DEF AllocateBlock, Turn, Owned, Steady, Within
<1>2. PICK bytes, g :
        /\ bytes \in Nat
        /\ g = [proc EXCEPT !.retained = proc.retained + bytes]
        /\ \/ ChildStep(AtLimit(g), <<Sample(g, rss), Sample(AtLimit(g), rss)>>)
           \/ ChildStep(g, <<Sample(g, rss)>>)
  <2>1. PICK room : room = lab.config.limitMb - proc.retained
    OBVIOUS
  <2>2. PICK bytes :
          bytes = IF lab.config.allocationMb < room THEN lab.config.allocationMb ELSE room
    OBVIOUS
  <2>3. bytes \in Nat /\ ~(bytes <= 0)
    BY <1>1, <2>1, <2>2, Limits
  <2>4. PICK g : g = [proc EXCEPT !.retained = proc.retained + bytes]
    OBVIOUS
  <2>5. \/ ChildStep(AtLimit(g), <<Sample(g, rss), Sample(AtLimit(g), rss)>>)
        \/ ChildStep(g, <<Sample(g, rss)>>)
    BY <2>1, <2>2, <2>3, <2>4 DEF AllocateBlock
  <2> QED BY <2>3, <2>4, <2>5
<1>3. g \in ChildVars /\ g.writing = proc.writing /\ g.stats = proc.stats
  BY <1>2, ProcessFacts DEF ChildVars
<1>4. AtLimit(g) \in ChildVars /\ AtLimit(g).writing = g.writing /\ AtLimit(g).stats = g.stats
  BY <1>3 DEF AtLimit, Quiet, ChildVars, ChildStatus
<1> QED BY <1>1, <1>2, <1>3, <1>4, SamplesKept

(* The deadline, the second pass of GC and every message but "snapshot".   *)
LEMMA CallbacksKept ==
  ASSUME TypeOK, Owned, Kept, NEW rss \in Rss,
         \/ Deadline(rss) \/ GcSecondPass(rss) \/ StartExperiment(rss) \/ Pause(rss)
         \/ Resume(rss) \/ Release(rss) \/ Gc \/ Stop(rss)
  PROVE  Kept'
<1>1. runs # 0 /\ UNCHANGED <<supervisor, files, fileSeq>>
  BY DEF Deadline, DeadlineStop, DeadlinePause, GcSecondPass, StartExperiment, Pause, Resume,
     Release, Gc, Stop, Receive, Turn, Owned
<1>2. ASSUME NEW p \in ChildVars, p.writing = proc.writing, p.stats = proc.stats,
             ChildStep(p, <<>>) \/ ChildStep(p, <<Sample(p, rss)>>)
      PROVE  Kept'
  BY <1>1, <1>2, SamplesKept
<1>3. CASE DeadlineStop(rss) \/ Stop(rss)
  <2>1. PICK p : /\ p = [Quiet(proc, "stopped") EXCEPT !.deadline = "done", !.exiting = TRUE]
                 /\ ChildStep(p, <<Sample(p, rss)>>)
    BY <1>3 DEF DeadlineStop, Stop
  <2>2. p \in ChildVars /\ p.writing = proc.writing /\ p.stats = proc.stats
    BY <2>1, ProcessFacts DEF Quiet, ChildVars, ChildStatus
  <2> QED BY <1>2, <2>1, <2>2
<1>4. CASE DeadlinePause(rss)
  <2>1. PICK p \in {[proc EXCEPT !.deadline = "done"],
                    Quiet([proc EXCEPT !.deadline = "done"], "paused")} :
          ChildStep(p, <<>>) \/ ChildStep(p, <<Sample(p, rss)>>)
    BY <1>4 DEF DeadlinePause
  <2>2. p \in ChildVars /\ p.writing = proc.writing /\ p.stats = proc.stats
    BY <2>1, ProcessFacts DEF Quiet, ChildVars, ChildStatus
  <2> QED BY <1>2, <2>1, <2>2
<1>5. CASE GcSecondPass(rss)
  <2>1. PICK p : p = [proc EXCEPT !.gc = FALSE] /\ ChildStep(p, <<Sample(proc, rss)>>)
    BY <1>5 DEF GcSecondPass
  <2>2. p.writing = proc.writing /\ p.stats = proc.stats
    BY <2>1, ProcessFacts DEF ChildVars
  <2> QED BY <1>1, <2>1, <2>2, ProcessFacts, SamplesKept
<1>6. CASE StartExperiment(rss)
  <2>1. PICK p : /\ p = [proc EXCEPT !.status = "running", !.timer = TRUE, !.deadline = "armed"]
                 /\ ChildStep(p, <<Sample(p, rss)>>)
    BY <1>6 DEF StartExperiment
  <2>2. p \in ChildVars /\ p.writing = proc.writing /\ p.stats = proc.stats
    BY <2>1, ProcessFacts DEF ChildVars, ChildStatus
  <2> QED BY <1>2, <2>1, <2>2
<1>7. CASE Pause(rss) \/ Gc
  <2>1. PICK p \in {proc, Quiet(proc, "paused"), [proc EXCEPT !.gc = TRUE]} :
          ChildStep(p, <<>>) \/ ChildStep(p, <<Sample(p, rss)>>)
    BY <1>7 DEF Pause, Gc
  <2>2. p \in ChildVars /\ p.writing = proc.writing /\ p.stats = proc.stats
    BY <2>1, ProcessFacts DEF Quiet, ChildVars, ChildStatus
  <2> QED BY <1>2, <2>1, <2>2
<1>8. CASE Resume(rss)
  <2>1. PICK p \in {proc, AtLimit(proc), [proc EXCEPT !.status = "running", !.timer = TRUE]} :
          ChildStep(p, <<>>) \/ ChildStep(p, <<Sample(p, rss)>>)
    BY <1>8 DEF Resume
  <2>2. p \in ChildVars /\ p.writing = proc.writing /\ p.stats = proc.stats
    BY <2>1, ProcessFacts DEF AtLimit, Quiet, ChildVars, ChildStatus
  <2> QED BY <1>2, <2>1, <2>2
<1>9. CASE Release(rss)
  <2>1. PICK p : /\ p = [Quiet(proc, "paused") EXCEPT !.retained = 0]
                 /\ ChildStep(p, <<Sample(p, rss)>>)
    BY <1>9 DEF Release
  <2>2. p \in ChildVars /\ p.writing = proc.writing /\ p.stats = proc.stats
    BY <2>1, ProcessFacts DEF Quiet, ChildVars, ChildStatus
  <2> QED BY <1>2, <2>1, <2>2
<1> QED BY <1>3, <1>4, <1>5, <1>6, <1>7, <1>8, <1>9 DEF Deadline

(* A new snapshot has a name of its own.                                   *)
LEMMA CreateKept ==
  ASSUME TypeOK, Owned, Kept, NEW rss \in Rss, CreateHeapSnapshot(rss)
  PROVE  Kept'
<1>1. /\ runs # 0 /\ UNCHANGED snapshotPath /\ fileSeq \in Nat
      /\ fileSeq' = fileSeq + 1 /\ files' = files \cup {fileSeq + 1}
  BY DEF CreateHeapSnapshot, SnapshotName, Receive, Turn, supervisor, Owned, TypeOK
<1>2. PICK p : \E msgs \in Seq(Messages) :
        /\ ChildStep(p, msgs) /\ p.writing /\ p.stats = proc.stats
        /\ \A k \in 1..Len(msgs), file \in Nat : ~Names(msgs[k], file)
  <2>1. PICK m, n : /\ m = Sample(Quiet(proc, "paused"), rss)
                    /\ n = SnapshotNews("creating", 0)
    OBVIOUS
  <2>2. m \in Messages /\ n \in Messages /\ \A file \in Nat : ~Names(m, file) /\ ~Names(n, file)
    BY <2>1, ProcessFacts, QuietFacts, SampleFacts, NewsFacts, NothingNamed DEF ChildStatus
  <2>3. /\ <<m, n>> \in Seq(Messages) /\ <<n>> \in Seq(Messages)
        /\ \A k \in 1..Len(<<m, n>>), file \in Nat : ~Names(<<m, n>>[k], file)
        /\ \A k \in 1..Len(<<n>>), file \in Nat : ~Names(<<n>>[k], file)
    BY <2>2
  <2>4. CASE proc.status = "running"
    <3>1. PICK p : /\ p = [Quiet(proc, "paused") EXCEPT !.writing = TRUE]
                   /\ ChildStep(p, <<m, n>>)
      BY <2>1, <2>4 DEF CreateHeapSnapshot
    <3>2. p.writing /\ p.stats = proc.stats
      BY <3>1, ProcessFacts DEF Quiet, ChildVars, ChildStatus
    <3> QED BY <2>3, <3>1, <3>2
  <2>5. CASE proc.status # "running"
    <3>1. PICK p : p = [proc EXCEPT !.writing = TRUE] /\ ChildStep(p, <<n>>)
      BY <2>1, <2>5 DEF CreateHeapSnapshot
    <3>2. p.writing /\ p.stats = proc.stats
      BY <3>1, ProcessFacts DEF ChildVars
    <3> QED BY <2>3, <3>1, <3>2
  <2> QED BY <2>4, <2>5
<1>3. \A q \in Runs, i, file \in Nat : Announces(q, i, file)' => Announces(q, i, file)
  BY <1>1, <1>2, Sent
<1>4. proc' = p
  BY <1>2 DEF ChildStep
<1>5. /\ files' \subseteq 1..fileSeq' /\ fileSeq' \notin files /\ fileSeq' # 0
      /\ (snapshotPath \in files \cup {0})'
  BY <1>1 DEF Kept
<1>6. Pending'
  BY <1>1, <1>2, <1>4, <1>5 DEF Kept, Pending
<1>7. ASSUME NEW q \in Runs, NEW i \in Nat, NEW file \in Nat, Announces(q, i, file)'
      PROVE  /\ file \in (files \ (proc.stats \cup {snapshotPath}))'
             /\ proc'.writing => file # fileSeq'
             /\ \A r \in Runs, j \in Nat : Announces(r, j, file)' => r = q /\ j = i
  <2>1. Announces(q, i, file)
    BY <1>3, <1>7
  <2>2. file \in files \ (proc.stats \cup {snapshotPath})
    BY <2>1 DEF Kept
  <2>3. \A r \in Runs, j \in Nat : Announces(r, j, file)' => r = q /\ j = i
    BY <1>3, <2>1 DEF Kept
  <2> QED BY <1>1, <1>2, <1>4, <1>5, <2>2, <2>3
<1> QED BY <1>5, <1>6, <1>7 DEF Kept

(* The file that was written is awaited, then announced or given up.       *)
LEMMA WrittenKept ==
  ASSUME TypeOK, Owned, Kept, HeapSnapshotWritten
  PROVE  Kept'
<1>1. /\ proc.writing /\ proc' = [proc EXCEPT !.writing = FALSE,
                                              !.stats = proc.stats \cup {fileSeq}]
      /\ UNCHANGED <<inbox, files, fileSeq, snapshotPath>>
  BY DEF HeapSnapshotWritten, supervisor
<1>2. ~proc'.writing /\ proc'.stats = proc.stats \cup {fileSeq}
  BY <1>1, ProcessFacts DEF ChildVars
<1>3. \A q \in Runs, i, file \in Nat : Announces(q, i, file)' = Announces(q, i, file)
  BY <1>1 DEF Announces
<1>4. Pending'
  BY <1>1, <1>2 DEF Kept, Pending
<1>5. \A q \in Runs, i, file \in Nat : Announces(q, i, file) =>
        file \in files \ (proc'.stats \cup {snapshotPath})
  BY <1>1, <1>2 DEF Kept
<1> QED BY <1>1, <1>2, <1>3, <1>4, <1>5 DEF Kept

LEMMA FailedKept ==
  ASSUME TypeOK, Owned, Kept, HeapSnapshotFailed
  PROVE  Kept'
<1>1. /\ proc.os = "alive" /\ proc.writing /\ runs # 0
      /\ files' \in {files, files \ {fileSeq}} /\ UNCHANGED <<fileSeq, snapshotPath>>
  BY DEF HeapSnapshotFailed, supervisor, Owned
<1>2. PICK p, n : /\ p = [proc EXCEPT !.writing = FALSE]
                  /\ n = SnapshotNews("error", 0) /\ ChildStep(p, <<n>>)
  BY DEF HeapSnapshotFailed
<1>3. proc' = p /\ ~p.writing /\ p.stats = proc.stats
  BY <1>2, ProcessFacts DEF ChildVars, ChildStep
<1>4. \A q \in Runs, i, file \in Nat : Announces(q, i, file)' => Announces(q, i, file)
  <2>1. n \in Messages /\ \A file \in Nat : ~Names(n, file)
    BY <1>2, NewsFacts, NothingNamed
  <2>2. /\ <<n>> \in Seq(Messages)
        /\ \A k \in 1..Len(<<n>>), file \in Nat : ~Names(<<n>>[k], file)
    BY <2>1
  <2> QED BY <1>1, <1>2, <2>2, Sent
<1>5. Pending' /\ (files \subseteq 1..fileSeq /\ snapshotPath \in files \cup {0})'
  BY <1>1, <1>3 DEF Kept, Pending
<1>6. ASSUME NEW q \in Runs, NEW i \in Nat, NEW file \in Nat, Announces(q, i, file)'
      PROVE  /\ file \in (files \ (proc.stats \cup {snapshotPath}))'
             /\ \A r \in Runs, j \in Nat : Announces(r, j, file)' => r = q /\ j = i
  <2>1. Announces(q, i, file)
    BY <1>4, <1>6
  <2>2. file \in files \ (proc.stats \cup {snapshotPath}) /\ file # fileSeq
    BY <1>1, <2>1 DEF Kept
  <2>3. \A r \in Runs, j \in Nat : Announces(r, j, file)' => r = q /\ j = i
    BY <1>4, <2>1 DEF Kept
  <2> QED BY <1>1, <1>3, <2>2, <2>3
<1> QED BY <1>3, <1>5, <1>6 DEF Kept

LEMMA StatKept ==
  ASSUME TypeOK, Owned, Kept, NEW g \in proc.stats, StatDone(g)
  PROVE  Kept'
<1>1. runs # 0 /\ g \in Nat /\ UNCHANGED <<files, fileSeq, snapshotPath>> /\ ~proc.writing
  BY ProcessFacts DEF StatDone, Turn, supervisor, Owned
<1>2. PICK n \in {SnapshotNews("ready", g), SnapshotNews("error", 0)} :
        ChildStep([proc EXCEPT !.stats = proc.stats \ {g}], <<n>>)
  BY DEF StatDone
<1>3. proc' = [proc EXCEPT !.stats = proc.stats \ {g}]
  BY <1>2 DEF ChildStep
<1>4. ~proc'.writing /\ proc'.stats = proc.stats \ {g}
  BY <1>1, <1>3, ProcessFacts DEF ChildVars
<1>5. n \in Messages /\ \A file \in Nat : Names(n, file) => file = g
  BY <1>1, <1>2, NewsFacts, NothingNamed
<1>6. /\ <<n>> \in Seq(Messages)
      /\ \A k \in 1..Len(<<n>>), file \in Nat : Names(<<n>>[k], file) => file = g /\ k = 1
  BY <1>5
<1>7. inbox[runs] \in Seq(Messages) /\ Len(inbox[runs]) \in Nat
  BY <1>1, LenProperties DEF TypeOK, Runs, Messages
<1>8. \A q \in Runs, i, file \in Nat : Announces(q, i, file)' =>
        \/ Announces(q, i, file)
        \/ q = runs /\ i = Len(inbox[runs]) + 1 /\ file = g
  <2> SUFFICES ASSUME NEW q \in Runs, NEW i \in Nat, NEW file \in Nat, Announces(q, i, file)',
                      ~Announces(q, i, file)
               PROVE  q = runs /\ i = Len(inbox[runs]) + 1 /\ file = g
    OBVIOUS
  <2>1. /\ q = runs /\ i - Len(inbox[runs]) \in 1..Len(<<n>>)
        /\ Names(<<n>>[i - Len(inbox[runs])], file)
    BY <1>1, <1>2, <1>6, Sent
  <2> QED BY <1>6, <1>7, <2>1
<1>9. Pending' /\ (files \subseteq 1..fileSeq /\ snapshotPath \in files \cup {0})'
  BY <1>1, <1>4 DEF Kept, Pending
<1>10. g \in files \ {snapshotPath} /\ \A q \in Runs, i \in Nat : ~Announces(q, i, g)
  BY <1>1 DEF Kept, Pending
<1>11. ASSUME NEW q \in Runs, NEW i \in Nat, NEW file \in Nat, Announces(q, i, file)'
       PROVE  /\ file \in (files \ (proc.stats \cup {snapshotPath}))'
              /\ \A r \in Runs, j \in Nat : Announces(r, j, file)' => r = q /\ j = i
  <2>1. CASE file = g
    <3>1. \A r \in Runs, j \in Nat : Announces(r, j, g)' => r = runs /\ j = Len(inbox[runs]) + 1
      BY <1>1, <1>8, <1>10
    <3> QED BY <1>1, <1>4, <1>10, <1>11, <2>1, <3>1
  <2>2. CASE file # g
    <3>1. \A r \in Runs, j \in Nat : Announces(r, j, file)' => Announces(r, j, file)
      BY <1>8, <2>2
    <3>2. Announces(q, i, file)
      BY <1>11, <3>1
    <3>3. file \in files \ (proc.stats \cup {snapshotPath})
      BY <3>2 DEF Kept
    <3>4. \A r \in Runs, j \in Nat : Announces(r, j, file)' => r = q /\ j = i
      BY <3>1, <3>2 DEF Kept
    <3> QED BY <1>1, <1>4, <3>3, <3>4
  <2> QED BY <2>1, <2>2
<1> QED BY <1>4, <1>9, <1>11 DEF Kept

(* The snapshot on offer is on disk, whatever start, a newer snapshot, a    *)
(* failed write, a crash of the child or the shutdown removes, and also     *)
(* when 'exit' overtakes the messages of a run.                            *)
THEOREM OfferedOnDisk == Spec => []OfferedSnapshotOnDisk
<1>1. Init => Kept
  <2> SUFFICES ASSUME Init PROVE Kept
    OBVIOUS
  <2>1. \A r \in Runs : inbox[r] = <<>> /\ Len(inbox[r]) = 0
    BY DEF Init
  <2> QED BY <2>1 DEF Init, Kept, Pending, Announces, NoProcess
<1>2. LabInv /\ Kept /\ [Next]_vars => Kept'
  <2> SUFFICES ASSUME LabInv, Kept, [Next]_vars PROVE Kept'
    OBVIOUS
  <2> USE DEF LabInv
  <2>1. CASE Request
    BY <2>1, RequestKept
  <2>2. CASE \/ StopTimerElapses \/ StopTimerFires \/ OnDisconnect \/ OnExit
             \/ \E r \in Runs : OnMessage(r)
    BY <2>2, CallbackKept
  <2>3. ASSUME NEW rss \in Rss, ChildCallback(rss) PROVE Kept'
    BY <2>3, AllocateKept, CallbacksKept, CreateKept DEF ChildCallback, ChildMessage
  <2>4. CASE HeapSnapshotWritten \/ HeapSnapshotFailed \/ \E file \in proc.stats : StatDone(file)
    BY <2>4, WrittenKept, FailedKept, StatKept
  <2>5. CASE ChildExits \/ ProcessKilled \/ ProcessCrashes
    <3>1. /\ ~proc'.writing /\ proc'.stats = {}
          /\ UNCHANGED <<inbox, files, fileSeq, snapshotPath>>
      BY <2>5 DEF ChildExits, ProcessKilled, ProcessCrashes, Dead, NoProcess, supervisor
    <3> QED BY <3>1, LeavesFiles
  <2>6. CASE UNCHANGED vars
    BY <2>6, LeavesFiles DEF vars
  <2> QED BY <2>1, <2>2, <2>3, <2>4, <2>5, <2>6 DEF Next
<1>3. Kept => OfferedSnapshotOnDisk
  BY DEF Kept, OfferedSnapshotOnDisk
<1> QED BY <1>1, <1>2, <1>3, Invariant, PTL DEF Spec

-----------------------------------------------------------------------------
(* What a callback of the child tells: its last sample is what the child is *)
(* in afterwards, and without a sample it is in what it was in before.      *)
Tells(p, msgs) ==
  /\ (\A i \in 1..Len(msgs) : msgs[i].type # "sample")
       => p.status = proc.status /\ p.retained = proc.retained
  /\ \A i \in 1..Len(msgs) :
       msgs[i].type = "sample" /\ (\A j \in 1..Len(msgs) : msgs[j].type = "sample" => j <= i)
         => msgs[i].status = p.status /\ msgs[i].retained = p.retained

SampleStep(p, msgs) ==
  /\ ChildStep(p, msgs)
  /\ p.os = proc.os /\ p.writing = proc.writing /\ p.stats = proc.stats
  /\ Tells(p, msgs)
  /\ \A i \in 1..Len(msgs) : msgs[i].type = "sample"

SameChild(p) == p.os = proc.os /\ p.writing = proc.writing /\ p.stats = proc.stats

LEMMA TellsFacts ==
  ASSUME NEW p, NEW k, NEW m, NEW n, k.type = "sample", m.type = "sample",
         m.status = p.status, m.retained = p.retained, n.type = "snapshot"
  PROVE  /\ Tells(p, <<m>>) /\ Tells(p, <<k, m>>) /\ Tells(p, <<m, n>>)
         /\ p.status = proc.status /\ p.retained = proc.retained
              => Tells(p, <<>>) /\ Tells(p, <<n>>)
<1>1. Tells(p, <<m>>)
  BY DEF Tells
<1>2. Tells(p, <<k, m>>)
  <2>1. Len(<<k, m>>) = 2 /\ <<k, m>>[1] = k /\ <<k, m>>[2] = m
    OBVIOUS
  <2>2. \A i \in 1..2 : i = 1 \/ i = 2
    OBVIOUS
  <2> QED BY <2>1, <2>2 DEF Tells
<1>3. Tells(p, <<m, n>>)
  <2>1. Len(<<m, n>>) = 2 /\ <<m, n>>[1] = m /\ <<m, n>>[2] = n
    OBVIOUS
  <2>2. \A i \in 1..2 : i = 1 \/ i = 2
    OBVIOUS
  <2> QED BY <2>1, <2>2 DEF Tells
<1>4. p.status = proc.status /\ p.retained = proc.retained => Tells(p, <<>>) /\ Tells(p, <<n>>)
  BY DEF Tells
<1> QED BY <1>1, <1>2, <1>3, <1>4

LEMMA SampleOf ==
  ASSUME NEW p \in ChildVars, NEW rss \in Rss
  PROVE  /\ Sample(p, rss) \in Messages /\ Sample(p, rss).type = "sample"
         /\ Sample(p, rss).status = p.status /\ Sample(p, rss).retained = p.retained
  BY SampleFacts DEF Sample

LEMMA NewsOf ==
  ASSUME NEW status \in {"creating", "ready", "error"}, NEW file \in Nat
  PROVE  /\ SnapshotNews(status, file) \in Messages
         /\ SnapshotNews(status, file).type = "snapshot"
         /\ SnapshotNews(status, file).status = status
  BY NewsFacts DEF SnapshotNews

(* Every handler of the child but those of a snapshot.                     *)
LEMMA SilentStep ==
  ASSUME TypeOK, NEW p \in ChildVars, SameChild(p), ChildStep(p, <<>>),
         p.status = proc.status, p.retained = proc.retained
  PROVE  \E q \in ChildVars, msgs \in Seq(Messages) : SampleStep(q, msgs)
<1>1. PICK m : m \in {<<>>}
  OBVIOUS
<1>2. m \in Seq(Messages) /\ Len(m) = 0 /\ ChildStep(p, m)
  BY <1>1, EmptySeq
<1>3. Tells(p, m)
  BY <1>2 DEF Tells
<1>4. SampleStep(p, m)
  BY <1>2, <1>3 DEF SampleStep, SameChild
<1> QED BY <1>2, <1>4

LEMMA OneSampleStep ==
  ASSUME TypeOK, NEW rss \in Rss, NEW p \in ChildVars, NEW a \in ChildVars, SameChild(p),
         ChildStep(p, <<Sample(a, rss)>>), a.status = p.status, a.retained = p.retained
  PROVE  \E q \in ChildVars, msgs \in Seq(Messages) : SampleStep(q, msgs)
<1>1. PICK m : m = Sample(a, rss)
  OBVIOUS
<1>2. m \in Messages /\ m.type = "sample" /\ m.status = p.status /\ m.retained = p.retained
  BY <1>1, SampleOf
<1>3. PICK n : n = SnapshotNews("error", 0)
  OBVIOUS
<1>4. n.type = "snapshot"
  BY <1>3, NewsOf
<1>5. Tells(p, <<m>>)
  BY <1>2, <1>4, TellsFacts
<1>6. <<m>> \in Seq(Messages) /\ \A i \in 1..Len(<<m>>) : <<m>>[i].type = "sample"
  BY <1>2
<1>7. SampleStep(p, <<m>>)
  BY <1>1, <1>5, <1>6 DEF SampleStep, SameChild
<1> QED BY <1>6, <1>7

LEMMA AllocateSends ==
  ASSUME TypeOK, Owned, Steady, NEW rss \in Rss, AllocateBlock(rss)
  PROVE  \E q \in ChildVars, msgs \in Seq(Messages) : SampleStep(q, msgs)
<1>1. proc.status = "running" /\ proc.retained < lab.config.limitMb
  BY DEF AllocateBlock, Turn, Steady, Within
<1>2. PICK bytes, g :
        /\ bytes \in Nat
        /\ g = [proc EXCEPT !.retained = proc.retained + bytes]
        /\ \/ ChildStep(AtLimit(g), <<Sample(g, rss), Sample(AtLimit(g), rss)>>)
           \/ ChildStep(g, <<Sample(g, rss)>>)
  <2>1. PICK room : room = lab.config.limitMb - proc.retained
    OBVIOUS
  <2>2. PICK bytes :
          bytes = IF lab.config.allocationMb < room THEN lab.config.allocationMb ELSE room
    OBVIOUS
  <2>3. bytes \in Nat /\ ~(bytes <= 0)
    BY <1>1, <2>1, <2>2, Limits
  <2>4. PICK g : g = [proc EXCEPT !.retained = proc.retained + bytes]
    OBVIOUS
  <2>5. \/ ChildStep(AtLimit(g), <<Sample(g, rss), Sample(AtLimit(g), rss)>>)
        \/ ChildStep(g, <<Sample(g, rss)>>)
    BY <2>1, <2>2, <2>3, <2>4 DEF AllocateBlock
  <2> QED BY <2>3, <2>4, <2>5
<1>3. g \in ChildVars /\ SameChild(g)
  BY <1>2, ProcessFacts DEF ChildVars, SameChild
<1>4. PICK h : h = AtLimit(g)
  OBVIOUS
<1>5. h \in ChildVars /\ SameChild(h)
  BY <1>3, <1>4, AtLimitFacts DEF AtLimit, Quiet, ChildVars, SameChild
<1>6. CASE ChildStep(h, <<Sample(g, rss), Sample(h, rss)>>)
  <2>1. PICK k, m, n : /\ k = Sample(g, rss) /\ m = Sample(h, rss)
                       /\ n = SnapshotNews("error", 0)
    OBVIOUS
  <2>2. /\ k \in Messages /\ m \in Messages /\ k.type = "sample" /\ m.type = "sample"
        /\ m.status = h.status /\ m.retained = h.retained /\ n.type = "snapshot"
    BY <1>3, <1>5, <2>1, SampleOf, NewsOf
  <2>3. Tells(h, <<k, m>>)
    BY <2>2, TellsFacts
  <2>4. /\ <<k, m>> \in Seq(Messages)
        /\ \A i \in 1..Len(<<k, m>>) : <<k, m>>[i].type = "sample"
    BY <2>2
  <2>5. SampleStep(h, <<k, m>>)
    BY <1>5, <1>6, <2>1, <2>3, <2>4 DEF SampleStep, SameChild
  <2> QED BY <1>5, <2>4, <2>5
<1>7. CASE ChildStep(g, <<Sample(g, rss)>>)
  BY <1>3, <1>7, OneSampleStep
<1> QED BY <1>2, <1>4, <1>6, <1>7

LEMMA CallbackSends ==
  ASSUME TypeOK, NEW rss \in Rss,
         \/ Deadline(rss) \/ GcSecondPass(rss) \/ StartExperiment(rss) \/ Pause(rss)
         \/ Resume(rss) \/ Release(rss) \/ Gc \/ Stop(rss)
  PROVE  \E q \in ChildVars, msgs \in Seq(Messages) : SampleStep(q, msgs)
<1>1. ASSUME NEW p \in ChildVars, SameChild(p), ChildStep(p, <<Sample(p, rss)>>)
      PROVE  \E q \in ChildVars, msgs \in Seq(Messages) : SampleStep(q, msgs)
  BY <1>1, OneSampleStep
<1>2. CASE DeadlineStop(rss) \/ Stop(rss)
  <2>1. PICK p : /\ p = [Quiet(proc, "stopped") EXCEPT !.deadline = "done", !.exiting = TRUE]
                 /\ ChildStep(p, <<Sample(p, rss)>>)
    BY <1>2 DEF DeadlineStop, Stop
  <2>2. p \in ChildVars /\ SameChild(p)
    BY <2>1, ProcessFacts DEF Quiet, ChildVars, ChildStatus, SameChild
  <2> QED BY <1>1, <2>1, <2>2
<1>3. CASE DeadlinePause(rss) /\ proc.status = "running"
  <2>1. PICK p : /\ p = Quiet([proc EXCEPT !.deadline = "done"], "paused")
                 /\ ChildStep(p, <<Sample(p, rss)>>)
    BY <1>3 DEF DeadlinePause
  <2>2. p \in ChildVars /\ SameChild(p)
    BY <2>1, ProcessFacts DEF Quiet, ChildVars, ChildStatus, SameChild
  <2> QED BY <1>1, <2>1, <2>2
<1>4. CASE DeadlinePause(rss) /\ proc.status # "running"
  <2>1. PICK p : p = [proc EXCEPT !.deadline = "done"] /\ ChildStep(p, <<>>)
    BY <1>4 DEF DeadlinePause
  <2>2. /\ p \in ChildVars /\ SameChild(p) /\ p.status = proc.status
        /\ p.retained = proc.retained
    BY <2>1, ProcessFacts DEF ChildVars, SameChild
  <2> QED BY <2>1, <2>2, SilentStep
<1>5. CASE GcSecondPass(rss)
  <2>1. PICK p : p = [proc EXCEPT !.gc = FALSE] /\ ChildStep(p, <<Sample(proc, rss)>>)
    BY <1>5 DEF GcSecondPass
  <2>2. /\ p \in ChildVars /\ SameChild(p) /\ p.status = proc.status
        /\ p.retained = proc.retained
    BY <2>1, ProcessFacts DEF ChildVars, SameChild
  <2> QED BY <2>1, <2>2, ProcessFacts, OneSampleStep
<1>6. CASE StartExperiment(rss)
  <2>1. PICK p : /\ p = [proc EXCEPT !.status = "running", !.timer = TRUE, !.deadline = "armed"]
                 /\ ChildStep(p, <<Sample(p, rss)>>)
    BY <1>6 DEF StartExperiment
  <2>2. p \in ChildVars /\ SameChild(p)
    BY <2>1, ProcessFacts DEF ChildVars, ChildStatus, SameChild
  <2> QED BY <1>1, <2>1, <2>2
<1>7. ASSUME NEW p \in {proc, [proc EXCEPT !.gc = TRUE]}, ChildStep(p, <<>>)
      PROVE  \E q \in ChildVars, msgs \in Seq(Messages) : SampleStep(q, msgs)
  <2>1. /\ p \in ChildVars /\ SameChild(p) /\ p.status = proc.status
        /\ p.retained = proc.retained
    BY <1>7, ProcessFacts DEF ChildVars, SameChild
  <2> QED BY <1>7, <2>1, SilentStep
<1>8. CASE Pause(rss)
  <2>1. PICK p : p = Quiet(proc, "paused")
    OBVIOUS
  <2>2. p \in ChildVars /\ SameChild(p)
    BY <2>1, ProcessFacts DEF Quiet, ChildVars, ChildStatus, SameChild
  <2>3. ChildStep(proc, <<>>) \/ ChildStep(p, <<Sample(p, rss)>>)
    BY <1>8, <2>1 DEF Pause
  <2> QED BY <1>1, <1>7, <2>2, <2>3
<1>9. CASE Resume(rss)
  <2>1. PICK p, q : p = AtLimit(proc) /\ q = [proc EXCEPT !.status = "running", !.timer = TRUE]
    OBVIOUS
  <2>2. p \in ChildVars /\ SameChild(p) /\ q \in ChildVars /\ SameChild(q)
    BY <2>1, ProcessFacts DEF AtLimit, Quiet, ChildVars, ChildStatus, SameChild
  <2>3. \/ ChildStep(proc, <<>>) \/ ChildStep(p, <<Sample(p, rss)>>)
        \/ ChildStep(q, <<Sample(q, rss)>>)
    BY <1>9, <2>1 DEF Resume
  <2> QED BY <1>1, <1>7, <2>2, <2>3
<1>10. CASE Release(rss)
  <2>1. PICK p : /\ p = [Quiet(proc, "paused") EXCEPT !.retained = 0]
                 /\ ChildStep(p, <<Sample(p, rss)>>)
    BY <1>10 DEF Release
  <2>2. p \in ChildVars /\ SameChild(p)
    BY <2>1, ProcessFacts DEF Quiet, ChildVars, ChildStatus, SameChild
  <2> QED BY <1>1, <2>1, <2>2
<1>11. CASE Gc
  BY <1>7, <1>11 DEF Gc
<1> QED BY <1>2, <1>3, <1>4, <1>5, <1>6, <1>8, <1>9, <1>10, <1>11 DEF Deadline

(* The snapshot: asked for, being written, being measured, answered.  A    *)
(* callback of the child that reaches none of these leaves them alone.     *)
LEMMA SnapshotSends ==
  ASSUME TypeOK, NEW rss \in Rss, CreateHeapSnapshot(rss)
  PROVE  \E p \in ChildVars, msgs \in Seq(Messages) :
           /\ ChildStep(p, msgs) /\ Tells(p, msgs)
           /\ p.os = proc.os /\ p.writing /\ p.stats = proc.stats
           /\ \A i \in 1..Len(msgs) : ~Answers(msgs[i])
<1>1. PICK k, n : k = Sample(Quiet(proc, "paused"), rss) /\ n = SnapshotNews("creating", 0)
  OBVIOUS
<1>2. Quiet(proc, "paused") \in ChildVars
  BY QuietFacts, ProcessFacts DEF ChildStatus
<1>3. /\ k \in Messages /\ k.type = "sample"
      /\ k.status = Quiet(proc, "paused").status
      /\ k.retained = Quiet(proc, "paused").retained
  BY <1>1, <1>2, SampleOf
<1>4. n \in Messages /\ n.type = "snapshot" /\ n.status = "creating"
  BY <1>1, NewsOf
<1>5. ~Answers(k) /\ ~Answers(n)
  BY <1>3, <1>4 DEF Answers
<1>6. CASE proc.status = "running"
  <2>1. PICK p : p = [Quiet(proc, "paused") EXCEPT !.writing = TRUE] /\ ChildStep(p, <<k, n>>)
    BY <1>1, <1>6 DEF CreateHeapSnapshot
  <2>2. /\ p \in ChildVars /\ p.os = proc.os /\ p.writing /\ p.stats = proc.stats
        /\ k.status = p.status /\ k.retained = p.retained
    BY <1>3, <2>1, ProcessFacts DEF Quiet, ChildVars, ChildStatus
  <2>3. Tells(p, <<k, n>>)
    BY <1>3, <1>4, <2>2, TellsFacts
  <2>4. <<k, n>> \in Seq(Messages) /\ \A i \in 1..Len(<<k, n>>) : ~Answers(<<k, n>>[i])
    BY <1>3, <1>4, <1>5
  <2> QED BY <2>1, <2>2, <2>3, <2>4
<1>7. CASE proc.status # "running"
  <2>1. PICK p : p = [proc EXCEPT !.writing = TRUE] /\ ChildStep(p, <<n>>)
    BY <1>1, <1>7 DEF CreateHeapSnapshot
  <2>2. /\ p \in ChildVars /\ p.os = proc.os /\ p.writing /\ p.stats = proc.stats
        /\ p.status = proc.status /\ p.retained = proc.retained
    BY <2>1, ProcessFacts DEF ChildVars
  <2>3. Tells(p, <<n>>)
    BY <1>4, <2>2 DEF Tells
  <2>4. <<n>> \in Seq(Messages) /\ \A i \in 1..Len(<<n>>) : ~Answers(<<n>>[i])
    BY <1>4, <1>5
  <2> QED BY <2>1, <2>2, <2>3, <2>4
<1> QED BY <1>6, <1>7

(* The two ways a snapshot is answered.                                    *)
LEMMA AnswerSends ==
  ASSUME TypeOK, HeapSnapshotFailed \/ \E file \in proc.stats : StatDone(file)
  PROVE  \E p \in ChildVars, n \in Messages :
           /\ ChildStep(p, <<n>>) /\ Tells(p, <<n>>) /\ Answers(n) /\ n.type = "snapshot"
           /\ p.os = proc.os /\ ~p.writing
           /\ \/ proc.writing /\ p.stats = proc.stats
              \/ ~proc.writing /\ \E file \in proc.stats : p.stats = proc.stats \ {file}
<1>1. CASE HeapSnapshotFailed
  <2>1. PICK p, n : /\ p = [proc EXCEPT !.writing = FALSE] /\ n = SnapshotNews("error", 0)
                    /\ ChildStep(p, <<n>>)
    BY <1>1 DEF HeapSnapshotFailed
  <2>2. /\ p \in ChildVars /\ p.os = proc.os /\ ~p.writing /\ p.stats = proc.stats
        /\ p.status = proc.status /\ p.retained = proc.retained
    BY <2>1, ProcessFacts DEF ChildVars
  <2>3. n \in Messages /\ n.type = "snapshot" /\ Answers(n)
    BY <2>1, NewsOf DEF Answers
  <2>4. Tells(p, <<n>>)
    BY <2>2, <2>3 DEF Tells
  <2>5. proc.writing
    BY <1>1 DEF HeapSnapshotFailed
  <2> QED BY <2>1, <2>2, <2>3, <2>4, <2>5
<1>2. ASSUME NEW file \in proc.stats, StatDone(file)
      PROVE  \E p \in ChildVars, n \in Messages :
               /\ ChildStep(p, <<n>>) /\ Tells(p, <<n>>) /\ Answers(n) /\ n.type = "snapshot"
               /\ p.os = proc.os /\ ~p.writing
               /\ ~proc.writing /\ \E f \in proc.stats : p.stats = proc.stats \ {f}
  <2>1. PICK n \in {SnapshotNews("ready", file), SnapshotNews("error", 0)} :
          ChildStep([proc EXCEPT !.stats = proc.stats \ {file}], <<n>>)
    BY <1>2 DEF StatDone
  <2>2. PICK p : p = [proc EXCEPT !.stats = proc.stats \ {file}] /\ ChildStep(p, <<n>>)
    BY <2>1
  <2>3. ~proc.writing
    BY <1>2 DEF StatDone, Turn
  <2>4. proc.stats \ {file} \in SUBSET (Nat \ {0})
    BY ProcessFacts
  <2>5. /\ p \in ChildVars /\ p.os = proc.os /\ ~p.writing /\ p.stats = proc.stats \ {file}
        /\ p.status = proc.status /\ p.retained = proc.retained
    BY <2>2, <2>3, <2>4, ProcessFacts DEF ChildVars
  <2>6. file \in Nat
    BY ProcessFacts
  <2>7. n \in Messages /\ n.type = "snapshot" /\ Answers(n)
    BY <2>1, <2>6, NewsOf DEF Answers
  <2>8. Tells(p, <<n>>)
    BY <2>5, <2>7 DEF Tells
  <2> QED BY <2>2, <2>3, <2>5, <2>7, <2>8
<1> QED BY <1>1, <1>2

-----------------------------------------------------------------------------
(* The inbox of the last run, when a callback of the child adds to it and  *)
(* when its first message is handled.                                      *)
LEMMA InboxGrows ==
  ASSUME TypeOK, runs # 0, NEW p, NEW msgs \in Seq(Messages), ChildStep(p, msgs)
  PROVE  /\ Len(inbox[runs]) \in Nat /\ Len(msgs) \in Nat
         /\ Len(inbox'[runs]) = Len(inbox[runs]) + Len(msgs)
         /\ \A i \in 1..Len(inbox[runs]) : inbox'[runs][i] = inbox[runs][i]
         /\ \A i \in 1..Len(msgs) : inbox'[runs][Len(inbox[runs]) + i] = msgs[i]
         /\ \A r \in Runs : r # runs => inbox'[r] = inbox[r]
<1>1. runs \in Runs /\ inbox \in [Runs -> Seq(Messages)]
  BY DEF TypeOK, Runs, Messages
<1>2. inbox[runs] \in Seq(Messages) /\ inbox' = [inbox EXCEPT ![runs] = inbox[runs] \o msgs]
  BY <1>1 DEF ChildStep
<1>3. /\ Len(inbox[runs] \o msgs) = Len(inbox[runs]) + Len(msgs)
      /\ Len(inbox[runs]) \in Nat /\ Len(msgs) \in Nat
      /\ \A k \in 1..Len(inbox[runs]) + Len(msgs) : (inbox[runs] \o msgs)[k] =
           IF k <= Len(inbox[runs]) THEN inbox[runs][k] ELSE msgs[k - Len(inbox[runs])]
  BY <1>2, ConcatProperties, LenProperties
<1>4. inbox'[runs] = inbox[runs] \o msgs /\ \A r \in Runs : r # runs => inbox'[r] = inbox[r]
  BY <1>1, <1>2
<1>5. \A i \in 1..Len(inbox[runs]) : inbox'[runs][i] = inbox[runs][i]
  BY <1>3, <1>4
<1>6. ASSUME NEW i \in 1..Len(msgs) PROVE inbox'[runs][Len(inbox[runs]) + i] = msgs[i]
  <2>1. PICK k : k = Len(inbox[runs]) + i
    OBVIOUS
  <2>2. k \in 1..Len(inbox[runs]) + Len(msgs) /\ ~(k <= Len(inbox[runs]))
        /\ k - Len(inbox[runs]) = i
    BY <1>3, <2>1
  <2> QED BY <1>3, <1>4, <2>1, <2>2
<1> QED BY <1>3, <1>4, <1>5, <1>6

LEMMA InboxShrinks ==
  ASSUME TypeOK, NEW r \in Runs, NEW type, Deliver(r, type)
  PROVE  /\ Len(inbox[r]) \in Nat \ {0} /\ Len(inbox'[r]) = Len(inbox[r]) - 1
         /\ \A i \in 1..Len(inbox'[r]) : inbox'[r][i] = inbox[r][i + 1]
         /\ \A q \in Runs : q # r => inbox'[q] = inbox[q]
         /\ inbox[r][1] \in Messages /\ inbox[r][1].type = type
<1>1. /\ inbox \in [Runs -> Seq(Messages)] /\ inbox[r] # <<>> /\ inbox[r] \in Seq(Messages)
      /\ inbox' = [inbox EXCEPT ![r] = Tail(inbox[r])]
      /\ inbox[r][1] \in Messages /\ inbox[r][1].type = type
  BY Delivers DEF TypeOK, Messages
<1>2. /\ Len(Tail(inbox[r])) = Len(inbox[r]) - 1 /\ Len(inbox[r]) \in Nat
      /\ \A k \in 1..Len(Tail(inbox[r])) : Tail(inbox[r])[k] = inbox[r][k + 1]
  BY <1>1, HeadTailProperties, LenProperties
<1>3. Len(inbox[r]) # 0
  BY <1>1, EmptySeq
<1>4. inbox'[r] = Tail(inbox[r]) /\ \A q \in Runs : q # r => inbox'[q] = inbox[q]
  BY <1>1
<1> QED BY <1>1, <1>2, <1>3, <1>4

(* The messages of a process are handled before its exit: none of an       *)
(* earlier run is left when the next one starts.                           *)
OwnMessages ==
  /\ \A r \in Runs : r # runs => inbox[r] = <<>>
  /\ runs # 0 /\ child = 0 /\ ~down => inbox[runs] = <<>>

LEMMA InitOwnMessages == Init => OwnMessages
  BY DEF Init, OwnMessages

LEMMA StepOwnMessages ==
  ASSUME DrainBeforeExit, LabInv, OwnMessages, [Next]_vars
  PROVE  OwnMessages'
<1> USE DEF LabInv
<1>0. ASSUME UNCHANGED <<inbox, runs>>, child' = child \/ down', down => down'
      PROVE  OwnMessages'
  BY <1>0 DEF OwnMessages
<1>1. CASE Request
  <2>1. ASSUME NEW allocation \in Inputs, NEW limit \in Inputs, Start(allocation, limit)
        PROVE  OwnMessages'
    BY <2>1, Bounds DEF Start, OwnMessages, Runs, TypeOK
  <2>2. CASE StartThrows \/ RequestSnapshot \/ RequestStop \/ StopForShutdown
             \/ \E action \in Actions : RequestAction(action)
    BY <1>0, <2>2 DEF StartThrows, RequestSnapshot, RequestStop, RequestAction,
       StopForShutdown, supervisor
  <2> QED BY <1>1, <2>1, <2>2 DEF Request
<1>2. CASE StopTimerElapses \/ StopTimerFires \/ OnDisconnect
  BY <1>0, <1>2 DEF StopTimerElapses, StopTimerFires, OnDisconnect
<1>3. CASE OnExit
  <2>1. inbox[runs] = <<>> /\ UNCHANGED <<inbox, runs>>
    BY <1>3 DEF OnExit
  <2> QED BY <2>1 DEF OwnMessages
<1>4. ASSUME NEW r \in Runs, OnMessage(r) PROVE OwnMessages'
  <2>1. PICK type : Deliver(r, type)
    BY <1>4 DEF OnMessage, OnSample, OnSnapshotReady, OnSnapshotProgress
  <2>2. r = runs /\ inbox[r] # <<>> /\ UNCHANGED <<child, runs, down>>
    BY <2>1, Delivers DEF OwnMessages
  <2>3. \A q \in Runs : q # r => inbox'[q] = inbox[q]
    BY <2>1, InboxShrinks
  <2>4. ~(runs # 0 /\ child = 0 /\ ~down)
    BY <2>2 DEF OwnMessages
  <2> QED BY <2>2, <2>3, <2>4 DEF OwnMessages
<1>5. ASSUME proc.os = "alive", UNCHANGED supervisor,
             NEW msgs, inbox' = [inbox EXCEPT ![runs] = msgs]
      PROVE  OwnMessages'
  <2>1. \A q \in Runs : q # runs => inbox'[q] = inbox[q]
    BY <1>5 DEF TypeOK
  <2>2. ~(child = 0 /\ ~down) /\ UNCHANGED <<child, runs, down>>
    BY <1>5 DEF Owned, supervisor
  <2> QED BY <2>1, <2>2 DEF OwnMessages
<1>6. ASSUME NEW rss \in Rss, ChildCallback(rss) PROVE OwnMessages'
  <2>1. proc.os = "alive" /\ UNCHANGED supervisor
    BY <1>6 DEF ChildCallback, AllocateBlock, Deadline, DeadlineStop, DeadlinePause,
       GcSecondPass, ChildMessage, StartExperiment, Pause, Resume, Release, Gc, Stop,
       CreateHeapSnapshot, Receive, Turn
  <2>2. \E p, msgs : ChildStep(p, msgs)
    <3>1. CASE AllocateBlock(rss)
      BY <3>1, AllocateSends DEF SampleStep
    <3>2. CASE CreateHeapSnapshot(rss)
      BY <3>2, SnapshotSends
    <3>3. CASE ~AllocateBlock(rss) /\ ~CreateHeapSnapshot(rss)
      BY <1>6, <3>3, CallbackSends DEF ChildCallback, ChildMessage, SampleStep
    <3> QED BY <3>1, <3>2, <3>3
  <2> QED BY <1>5, <2>1, <2>2 DEF ChildStep
<1>7. CASE HeapSnapshotWritten
  BY <1>0, <1>7 DEF HeapSnapshotWritten, supervisor
<1>8. CASE HeapSnapshotFailed \/ \E file \in proc.stats : StatDone(file)
  <2>1. proc.os = "alive" /\ UNCHANGED supervisor
    BY <1>8 DEF HeapSnapshotFailed, StatDone, Turn
  <2> QED BY <1>5, <1>8, <2>1, AnswerSends DEF ChildStep
<1>9. CASE ChildExits \/ ProcessKilled \/ ProcessCrashes
  BY <1>0, <1>9 DEF ChildExits, ProcessKilled, ProcessCrashes, supervisor
<1>10. CASE UNCHANGED vars
  BY <1>0, <1>10 DEF vars
<1> QED BY <1>1, <1>2, <1>3, <1>4, <1>6, <1>7, <1>8, <1>9, <1>10 DEF Next

-----------------------------------------------------------------------------
(* Status and retained memory.                                             *)
LEMMA ToldCatchesUp ==
  ASSUME TypeOK, runs # 0, proc.os = "alive", SupervisorCatchesUp, UNCHANGED <<lab, runs>>,
         NEW p, NEW msgs \in Seq(Messages), ChildStep(p, msgs), Tells(p, msgs)
  PROVE  SupervisorCatchesUp'
<1>1. PICK n \in Nat : n = Len(inbox[runs])
  BY InboxGrows
<1>2. PICK k \in Nat : k = Len(msgs)
  BY InboxGrows
<1>3. /\ runs' = runs /\ lab' = lab /\ proc' = p /\ Len(inbox'[runs]) = n + k
      /\ \A i \in 1..n : inbox'[runs][i] = inbox[runs][i]
      /\ \A i \in 1..k : inbox'[runs][n + i] = msgs[i]
  <2>1. runs' = runs /\ lab' = lab /\ proc' = p
    BY DEF ChildStep
  <2>2. /\ Len(inbox'[runs]) = Len(inbox[runs]) + Len(msgs)
        /\ \A i \in 1..Len(inbox[runs]) : inbox'[runs][i] = inbox[runs][i]
        /\ \A i \in 1..Len(msgs) : inbox'[runs][Len(inbox[runs]) + i] = msgs[i]
    BY InboxGrows
  <2> QED BY <1>1, <1>2, <2>1, <2>2
<1>4. \A i \in 1..n : i \in SamplesOnTheWay' <=> i \in SamplesOnTheWay
  BY <1>1, <1>3 DEF SamplesOnTheWay
<1>5. \A i \in 1..k : n + i \in SamplesOnTheWay' <=> msgs[i].type = "sample"
  BY <1>3 DEF SamplesOnTheWay
<1>6. \A i \in SamplesOnTheWay' : i \in 1..n \/ \E j \in 1..k : i = n + j
  <2> SUFFICES ASSUME NEW i \in SamplesOnTheWay', i \notin 1..n PROVE \E j \in 1..k : i = n + j
    OBVIOUS
  <2>1. i \in 1..n + k
    BY <1>3 DEF SamplesOnTheWay
  <2>2. i - n \in 1..k /\ i = n + (i - n)
    BY <2>1
  <2> QED BY <2>2
<1>7. SamplesOnTheWay \subseteq 1..n
  BY <1>1 DEF SamplesOnTheWay
<1>8. (\A i \in 1..k : msgs[i].type # "sample") => p.status = proc.status /\ p.retained = proc.retained
  BY <1>2 DEF Tells
<1>9. ASSUME SamplesOnTheWay' = {} PROVE lab.status = p.status /\ lab.latest = p.retained
  <2>1. SamplesOnTheWay = {} /\ \A i \in 1..k : msgs[i].type # "sample"
    BY <1>4, <1>5, <1>7, <1>9
  <2> QED BY <1>8, <2>1 DEF SupervisorCatchesUp
<1>10. ASSUME NEW i \in SamplesOnTheWay', \A j \in SamplesOnTheWay' : j <= i
       PROVE  inbox'[runs][i].status = p.status /\ inbox'[runs][i].retained = p.retained
  <2>1. CASE i \in 1..n
    <3>1. \A j \in 1..k : msgs[j].type # "sample"
      <4> SUFFICES ASSUME NEW j \in 1..k, msgs[j].type = "sample" PROVE FALSE
        OBVIOUS
      <4>1. n + j <= i
        BY <1>5, <1>10
      <4> QED BY <2>1, <4>1
    <3>2. i \in SamplesOnTheWay /\ \A j \in SamplesOnTheWay : j <= i
      BY <1>4, <1>7, <1>10, <2>1
    <3> QED BY <1>3, <1>8, <2>1, <3>1, <3>2 DEF SupervisorCatchesUp
  <2>2. ASSUME NEW g \in 1..k, i = n + g
        PROVE  inbox'[runs][i].status = p.status /\ inbox'[runs][i].retained = p.retained
    <3>1. msgs[g].type = "sample" /\ inbox'[runs][i] = msgs[g]
      BY <1>3, <1>5, <1>10, <2>2
    <3>2. \A j \in 1..k : msgs[j].type = "sample" => j <= g
      BY <1>5, <1>10, <2>2
    <3> QED BY <1>2, <3>1, <3>2 DEF Tells
  <2> QED BY <1>6, <1>10, <2>1, <2>2
<1> QED BY <1>3, <1>9, <1>10 DEF SupervisorCatchesUp

(* A message is handled: a sample is shown, anything else leaves status    *)
(* and retained memory as they are shown.                                  *)
LEMMA HandledCatchesUp ==
  ASSUME TypeOK, OwnMessages, SupervisorCatchesUp, NEW r \in Runs, OnMessage(r)
  PROVE  SupervisorCatchesUp'
<1>1. PICK type : Deliver(r, type)
  BY DEF OnMessage, OnSample, OnSnapshotReady, OnSnapshotProgress
<1>2. r = runs /\ runs' = runs
  BY <1>1, Delivers DEF OwnMessages
<1>3. PICK n \in Nat \ {0} : n = Len(inbox[runs])
  BY <1>1, <1>2, InboxShrinks
<1>4. /\ Len(inbox'[runs]) = n - 1 /\ \A i \in 1..n - 1 : inbox'[runs][i] = inbox[runs][i + 1]
      /\ inbox[runs][1].type = type
  BY <1>1, <1>2, <1>3, InboxShrinks
<1>5. proc'.os = proc.os /\ proc'.status = proc.status /\ proc'.retained = proc.retained
  <2>1. proc' = proc \/ proc' = Killed(proc)
    BY DEF OnMessage, OnSample, OnSnapshotReady, OnSnapshotProgress
  <2> QED BY <2>1, KilledFacts, ProcessFacts DEF ChildVars
<1>6. /\ SamplesOnTheWay \subseteq 1..n
      /\ \A i \in Int : i \in SamplesOnTheWay' <=> i # 0 /\ i + 1 \in SamplesOnTheWay
      /\ 1 \in SamplesOnTheWay <=> type = "sample"
  BY <1>2, <1>3, <1>4 DEF SamplesOnTheWay
<1>7. SamplesOnTheWay' \subseteq 1..n - 1
  BY <1>2, <1>4 DEF SamplesOnTheWay
<1>8. IF type = "sample"
      THEN lab'.status = inbox[runs][1].status /\ lab'.latest = inbox[runs][1].retained
      ELSE lab'.status = lab.status /\ lab'.latest = lab.latest
  <2>1. CASE OnSample(r)
    <3>1. inbox[runs][1].type = "sample" /\ lab' =
            [lab EXCEPT !.status = inbox[runs][1].status, !.latest = inbox[runs][1].retained]
      BY <1>2, <2>1 DEF OnSample, Deliver
    <3> QED BY <1>4, <3>1 DEF TypeOK, LabState
  <2>2. CASE OnSnapshotReady(r) \/ OnSnapshotProgress(r)
    <3>1. inbox[runs][1].type = "snapshot"
      BY <1>2, <2>2 DEF OnSnapshotReady, OnSnapshotProgress, Deliver
    <3>2. PICK news : lab' = [lab EXCEPT !.snapshot = news]
      BY <2>2 DEF OnSnapshotReady, OnSnapshotProgress
    <3> QED BY <1>4, <3>1, <3>2 DEF TypeOK, LabState
  <2> QED BY <2>1, <2>2 DEF OnMessage
<1>9. ASSUME proc.os = "alive", SamplesOnTheWay' = {}
      PROVE  lab'.status = proc.status /\ lab'.latest = proc.retained
  <2>1. \A i \in SamplesOnTheWay : i = 1
    <3> SUFFICES ASSUME NEW i \in SamplesOnTheWay, i # 1 PROVE FALSE
      OBVIOUS
    <3>1. i - 1 \in Int /\ i - 1 # 0 /\ (i - 1) + 1 = i
      BY <1>6
    <3> QED BY <1>6, <1>9, <3>1
  <2>2. CASE type = "sample"
    BY <1>6, <1>8, <1>9, <2>1, <2>2 DEF SupervisorCatchesUp
  <2>3. CASE type # "sample"
    <3>1. SamplesOnTheWay = {}
      BY <1>6, <2>1, <2>3
    <3> QED BY <1>8, <1>9, <2>3, <3>1 DEF SupervisorCatchesUp
  <2> QED BY <2>2, <2>3
<1>10. ASSUME proc.os = "alive", NEW i \in SamplesOnTheWay', \A j \in SamplesOnTheWay' : j <= i
       PROVE  inbox'[runs][i].status = proc.status /\ inbox'[runs][i].retained = proc.retained
  <2>1. i \in 1..n - 1 /\ i + 1 \in SamplesOnTheWay /\ inbox'[runs][i] = inbox[runs][i + 1]
    BY <1>4, <1>6, <1>7
  <2>2. ASSUME NEW j \in SamplesOnTheWay PROVE j <= i + 1
    <3>1. CASE j = 1
      BY <2>1, <3>1
    <3>2. CASE j # 1
      <4>1. j - 1 \in Int /\ j - 1 # 0 /\ (j - 1) + 1 = j
        BY <1>6, <3>2
      <4>2. j - 1 <= i
        BY <1>6, <1>10, <4>1
      <4> QED BY <2>1, <4>1, <4>2
    <3> QED BY <3>1, <3>2
  <2> QED BY <1>10, <2>1, <2>2 DEF SupervisorCatchesUp
<1> QED BY <1>2, <1>5, <1>9, <1>10 DEF SupervisorCatchesUp

LEMMA StepCatchesUp ==
  ASSUME LabInv, OwnMessages, SupervisorCatchesUp, [Next]_vars
  PROVE  SupervisorCatchesUp'
<1> USE DEF LabInv
<1>0. ASSUME UNCHANGED <<inbox, runs>>, proc'.os = "alive" => proc.os = "alive",
             proc'.status = proc.status, proc'.retained = proc.retained,
             lab'.status = lab.status, lab'.latest = lab.latest
      PROVE  SupervisorCatchesUp'
  <2>1. SamplesOnTheWay' = SamplesOnTheWay
    BY <1>0 DEF SamplesOnTheWay
  <2> QED BY <1>0, <2>1 DEF SupervisorCatchesUp
<1>1. ASSUME NEW allocation \in Inputs, NEW limit \in Inputs, Start(allocation, limit)
      PROVE  SupervisorCatchesUp'
  <2>1. /\ runs' = runs + 1 /\ runs' \in Runs /\ runs' # runs /\ UNCHANGED inbox
        /\ lab'.status = "starting" /\ lab'.latest = 0
    BY <1>1, Bounds DEF Start, TypeOK, Runs
  <2>2. Len(inbox'[runs']) = 0
    BY <2>1 DEF OwnMessages
  <2>3. proc'.os = "alive" => proc'.status = "starting" /\ proc'.retained = 0
    BY <1>1 DEF Start, Forked, NoProcess
  <2>4. SamplesOnTheWay' = {}
    BY <2>2 DEF SamplesOnTheWay
  <2> QED BY <2>1, <2>3, <2>4 DEF SupervisorCatchesUp
<1>2. /\ Killed(proc).os = proc.os /\ Killed(proc).status = proc.status
      /\ Killed(proc).retained = proc.retained
  BY KilledFacts, ProcessFacts DEF ChildVars
<1>3. CASE \/ StartThrows \/ RequestStop \/ StopForShutdown
           \/ StopTimerElapses \/ StopTimerFires \/ OnDisconnect
           \/ \E action \in Actions : RequestAction(action)
  <2>1. UNCHANGED <<inbox, runs, lab>> /\ proc' \in {proc, Killed(proc)}
    BY <1>3 DEF StartThrows, RequestStop, RequestAction, StopForShutdown,
       StopTimerElapses, StopTimerFires, OnDisconnect, supervisor
  <2> QED BY <1>0, <1>2, <2>1
<1>4. CASE RequestSnapshot
  BY <1>0, <1>4 DEF RequestSnapshot, TypeOK, LabState
<1>5. CASE OnExit
  BY <1>5, Processes DEF OnExit, SupervisorCatchesUp
<1>6. ASSUME NEW r \in Runs, OnMessage(r) PROVE SupervisorCatchesUp'
  BY <1>6, HandledCatchesUp
<1>7. ASSUME NEW rss \in Rss, ChildCallback(rss) PROVE SupervisorCatchesUp'
  <2>1. proc.os = "alive" /\ UNCHANGED supervisor /\ runs # 0
    BY <1>7 DEF ChildCallback, AllocateBlock, Deadline, DeadlineStop, DeadlinePause,
       GcSecondPass, ChildMessage, StartExperiment, Pause, Resume, Release, Gc, Stop,
       CreateHeapSnapshot, Receive, Turn, Owned
  <2>2. \E p \in ChildVars, msgs \in Seq(Messages) : ChildStep(p, msgs) /\ Tells(p, msgs)
    <3>1. CASE AllocateBlock(rss)
      BY <3>1, AllocateSends DEF SampleStep
    <3>2. CASE CreateHeapSnapshot(rss)
      BY <3>2, SnapshotSends
    <3>3. CASE ~AllocateBlock(rss) /\ ~CreateHeapSnapshot(rss)
      BY <1>7, <3>3, CallbackSends DEF ChildCallback, ChildMessage, SampleStep
    <3> QED BY <3>1, <3>2, <3>3
  <2> QED BY <2>1, <2>2, ToldCatchesUp DEF supervisor
<1>8. CASE HeapSnapshotWritten
  BY <1>0, <1>8, ProcessFacts DEF HeapSnapshotWritten, supervisor, ChildVars
<1>9. CASE HeapSnapshotFailed \/ \E file \in proc.stats : StatDone(file)
  <2>1. proc.os = "alive" /\ UNCHANGED supervisor /\ runs # 0
    BY <1>9 DEF HeapSnapshotFailed, StatDone, Turn, Owned
  <2>2. PICK p, n : n \in Messages /\ ChildStep(p, <<n>>) /\ Tells(p, <<n>>)
    BY <1>9, AnswerSends
  <2>3. <<n>> \in Seq(Messages)
    BY <2>2
  <2> QED BY <2>1, <2>2, <2>3, ToldCatchesUp DEF supervisor
<1>10. CASE ChildExits \/ ProcessKilled \/ ProcessCrashes
  BY <1>10, Processes DEF ChildExits, ProcessKilled, ProcessCrashes, SupervisorCatchesUp
<1>11. CASE UNCHANGED vars
  BY <1>0, <1>11 DEF vars
<1> QED BY <1>1, <1>3, <1>4, <1>5, <1>6, <1>7, <1>8, <1>9, <1>10, <1>11 DEF Next, Request

LEMMA OwnMessagesAlways == DrainBeforeExit => (Spec => []OwnMessages)
<1> SUFFICES ASSUME DrainBeforeExit PROVE Spec => []OwnMessages
  OBVIOUS
<1>1. LabInv /\ OwnMessages /\ [Next]_vars => OwnMessages'
  BY StepOwnMessages
<1> QED BY <1>1, InitOwnMessages, Invariant, PTL DEF Spec

(* When 'exit' waits for the channel, what the supervisor shows once it    *)
(* has handled the samples on their way is what the child is in, in every  *)
(* run and whatever happened in the runs before it.                        *)
THEOREM CatchesUp == DrainBeforeExit => (Spec => []SupervisorCatchesUp)
<1> SUFFICES ASSUME DrainBeforeExit PROVE Spec => []SupervisorCatchesUp
  OBVIOUS
<1>1. Init => SupervisorCatchesUp
  BY Processes DEF Init, SupervisorCatchesUp
<1>2. LabInv /\ OwnMessages /\ SupervisorCatchesUp /\ [Next]_vars => SupervisorCatchesUp'
  BY StepCatchesUp
<1> QED BY <1>1, <1>2, OwnMessagesAlways, Invariant, PTL DEF Spec

-----------------------------------------------------------------------------
(* Snapshots.  The one that is pending is asked for, being written, being  *)
(* measured or answered; state.snapshot is "creating" while it is at one   *)
(* of these stages and, in a live process, then only.  Its answer is the   *)
(* last news of it: no "creating" comes after.                             *)
Asked(i) == i \in 1..Len(outbox) /\ outbox[i] = "snapshot"
News(i) == i \in 1..Len(inbox[runs]) /\ inbox[runs][i].type = "snapshot"
Answered(i) == News(i) /\ inbox[runs][i].status \in {"ready", "error"}

Stages == {"none", "asked", "writing", "measured", "answered"}

InStage(s) ==
  /\ (\E i \in Nat : Asked(i)) <=> s = "asked"
  /\ proc.writing <=> s = "writing"
  /\ proc.stats # {} <=> s = "measured"
  /\ (\E i \in Nat : Answered(i)) <=> s = "answered"
  /\ s # "none" => lab.snapshot = "creating"
  /\ proc.os = "alive" /\ lab.snapshot = "creating" => s # "none"
  /\ \A i, j \in Nat : Asked(i) /\ Asked(j) => i = j
  /\ \A f, g \in proc.stats : f = g
  /\ \A i, j \in Nat : Answered(i) /\ News(j) => j <= i
  /\ proc.os = "alive" /\ s = "none" => \A j \in Nat : ~News(j)

OneStage == runs # 0 => \E s \in Stages : InStage(s)

LEMMA StageExcludes == TypeOK /\ OneStage => SnapshotExclusive
<1> SUFFICES ASSUME TypeOK, OneStage, runs # 0
             PROVE  /\ \A one, other \in SnapshotsPending : one = other
                    /\ SnapshotsPending # {} => lab.snapshot = "creating"
                    /\ lab.snapshot = "creating" /\ proc.os = "alive" => SnapshotsPending # {}
  BY DEF SnapshotExclusive
<1>1. PICK s \in Stages : InStage(s)
  BY DEF OneStage
<1>2. Len(outbox) \in Nat /\ Len(inbox[runs]) \in Nat
  BY LenProperties DEF TypeOK, Runs
<1>3. /\ \A i : Asked(i) => i \in Nat /\ s = "asked"
      /\ \A i : Answered(i) => i \in Nat /\ s = "answered"
      /\ \A i : Answered(i) <=> i \in 1..Len(inbox[runs]) /\ Answers(inbox[runs][i])
  BY <1>1, <1>2 DEF Asked, News, Answered, Answers, InStage
<1>4. \A t \in SnapshotsPending :
        \/ s = "asked" /\ \E i \in Nat : Asked(i) /\ t = <<"asked", i>>
        \/ s = "writing" /\ t = <<"written", fileSeq>>
        \/ s = "measured" /\ \E f \in proc.stats : t = <<"measured", f>>
        \/ s = "answered" /\ \E i \in Nat : Answered(i) /\ t = <<"answered", i>>
  BY <1>1, <1>3 DEF SnapshotsPending, InStage, Asked
<1>5. \A one, other \in SnapshotsPending : one = other
  <2> SUFFICES ASSUME NEW one \in SnapshotsPending, NEW other \in SnapshotsPending
               PROVE  one = other
    OBVIOUS
  <2>1. CASE s = "asked"
    <3>1. PICK i, j \in Nat : Asked(i) /\ Asked(j) /\ one = <<"asked", i>> /\ other = <<"asked", j>>
      BY <1>4, <2>1
    <3>2. i = j
      BY <1>1, <3>1 DEF InStage
    <3> QED BY <3>1, <3>2
  <2>2. CASE s = "writing"
    BY <1>4, <2>2
  <2>3. CASE s = "measured"
    BY <1>1, <1>4, <2>3 DEF InStage
  <2>4. CASE s = "answered"
    <3>1. PICK i, j \in Nat :
            Answered(i) /\ Answered(j) /\ one = <<"answered", i>> /\ other = <<"answered", j>>
      BY <1>4, <2>4
    <3>2. j <= i /\ i <= j
      BY <1>1, <3>1 DEF InStage, Answered
    <3> QED BY <3>1, <3>2
  <2>5. CASE s = "none"
    BY <1>4, <2>5
  <2> QED BY <2>1, <2>2, <2>3, <2>4, <2>5 DEF Stages
<1>6. SnapshotsPending # {} => lab.snapshot = "creating"
  BY <1>1, <1>4 DEF InStage
<1>7. s # "none" => SnapshotsPending # {}
  <2>1. CASE s = "asked"
    <3>1. PICK i \in Nat : Asked(i)
      BY <1>1, <2>1 DEF InStage
    <3>2. <<"asked", i>> \in SnapshotsPending
      BY <3>1 DEF SnapshotsPending, Asked
    <3> QED BY <3>2
  <2>2. CASE s = "writing"
    <3>1. <<"written", fileSeq>> \in SnapshotsPending
      BY <1>1, <2>2 DEF SnapshotsPending, InStage
    <3> QED BY <3>1
  <2>3. CASE s = "measured"
    <3>1. PICK f \in proc.stats : TRUE
      BY <1>1, <2>3 DEF InStage
    <3>2. <<"measured", f>> \in SnapshotsPending
      BY <3>1 DEF SnapshotsPending
    <3> QED BY <3>2
  <2>4. CASE s = "answered"
    <3>1. PICK i \in Nat : Answered(i)
      BY <1>1, <2>4 DEF InStage
    <3>2. <<"answered", i>> \in SnapshotsPending
      BY <1>3, <3>1 DEF SnapshotsPending
    <3> QED BY <3>2
  <2> QED BY <2>1, <2>2, <2>3, <2>4 DEF Stages
<1>8. lab.snapshot = "creating" /\ proc.os = "alive" => SnapshotsPending # {}
  BY <1>1, <1>7 DEF InStage
<1> QED BY <1>5, <1>6, <1>8

(* A callback of the child that sends samples only, and at most handles a  *)
(* request that is not for a snapshot.                                     *)
LEMMA OutboxShrinks ==
  ASSUME TypeOK, outbox # <<>>, outbox' = Tail(outbox)
  PROVE  \A i \in Nat : Asked(i)' <=> i # 0 /\ Asked(i + 1)
<1>1. /\ Len(outbox') = Len(outbox) - 1 /\ Len(outbox) \in Nat
      /\ \A i \in 1..Len(outbox') : outbox'[i] = outbox[i + 1]
  BY HeadTailProperties, LenProperties DEF TypeOK
<1> QED BY <1>1 DEF Asked

LEMMA SamplesInStage ==
  ASSUME TypeOK, OneStage, runs # 0, UNCHANGED <<lab, runs>>,
         NEW p \in ChildVars, NEW msgs \in Seq(Messages), SampleStep(p, msgs),
         \/ UNCHANGED outbox
         \/ outbox # <<>> /\ outbox' = Tail(outbox) /\ outbox[1] # "snapshot"
  PROVE  OneStage'
<1>1. PICK s \in Stages : InStage(s)
  BY DEF OneStage
<1>2. /\ proc'.os = proc.os /\ proc'.writing = proc.writing /\ proc'.stats = proc.stats
      /\ ChildStep(p, msgs)
  BY DEF SampleStep, ChildStep
<1>3. \A i \in Nat : News(i)' <=> News(i)
  <2> SUFFICES ASSUME NEW i \in Nat PROVE News(i)' <=> News(i)
    OBVIOUS
  <2>1. /\ Len(inbox[runs]) \in Nat /\ Len(msgs) \in Nat
        /\ Len(inbox'[runs]) = Len(inbox[runs]) + Len(msgs)
        /\ \A k \in 1..Len(inbox[runs]) : inbox'[runs][k] = inbox[runs][k]
        /\ \A k \in 1..Len(msgs) : inbox'[runs][Len(inbox[runs]) + k] = msgs[k]
    BY <1>2, InboxGrows
  <2>2. CASE i <= Len(inbox[runs])
    BY <2>1, <2>2 DEF News
  <2>3. CASE i > Len(inbox[runs]) /\ i <= Len(inbox[runs]) + Len(msgs)
    <3>1. PICK k \in 1..Len(msgs) : i = Len(inbox[runs]) + k
      <4>1. i - Len(inbox[runs]) \in 1..Len(msgs) /\ i = Len(inbox[runs]) + (i - Len(inbox[runs]))
        BY <2>1, <2>3
      <4> QED BY <4>1
    <3>2. inbox'[runs][i].type = "sample"
      BY <2>1, <3>1 DEF SampleStep
    <3> QED BY <2>3, <3>2 DEF News
  <2>4. CASE i > Len(inbox[runs]) + Len(msgs)
    BY <2>1, <2>4 DEF News
  <2> QED BY <2>1, <2>2, <2>3, <2>4
<1>4. \A i \in Nat : Answered(i)' <=> Answered(i)
  <2>1. \A i \in 1..Len(inbox[runs]) : inbox'[runs][i] = inbox[runs][i]
    BY <1>2, InboxGrows
  <2> QED BY <1>3, <2>1 DEF Answered, News
<1>5. /\ (\E i \in Nat : Asked(i)') <=> (\E i \in Nat : Asked(i))
      /\ \A i, j \in Nat : Asked(i)' /\ Asked(j)' => i = j
  <2>1. CASE UNCHANGED outbox
    BY <1>1, <2>1 DEF Asked, InStage
  <2>2. CASE outbox # <<>> /\ outbox' = Tail(outbox) /\ outbox[1] # "snapshot"
    <3>1. \A i \in Nat : Asked(i)' <=> i # 0 /\ Asked(i + 1)
      BY <2>2, OutboxShrinks
    <3>2. \A i \in Nat : Asked(i) => i # 0 /\ i # 1
      BY <2>2 DEF Asked
    <3>3. ASSUME NEW i \in Nat, Asked(i) PROVE \E j \in Nat : Asked(j)'
      <4>1. i - 1 \in Nat /\ i - 1 # 0 /\ (i - 1) + 1 = i
        BY <3>2, <3>3
      <4> QED BY <3>1, <3>3, <4>1
    <3>4. \A i, j \in Nat : Asked(i + 1) /\ Asked(j + 1) => i = j
      <4> SUFFICES ASSUME NEW i \in Nat, NEW j \in Nat, Asked(i + 1), Asked(j + 1) PROVE i = j
        OBVIOUS
      <4>1. i + 1 \in Nat /\ j + 1 \in Nat
        OBVIOUS
      <4>2. i + 1 = j + 1
        BY <1>1, <4>1 DEF InStage
      <4> QED BY <4>2
    <3>5. \A i, j \in Nat : Asked(i)' /\ Asked(j)' => i = j
      BY <3>1, <3>4
    <3>6. (\E i \in Nat : Asked(i)') => (\E i \in Nat : Asked(i))
      <4> SUFFICES ASSUME NEW i \in Nat, Asked(i)' PROVE \E j \in Nat : Asked(j)
        OBVIOUS
      <4>1. i + 1 \in Nat /\ Asked(i + 1)
        BY <3>1
      <4> QED BY <4>1
    <3> QED BY <3>3, <3>5, <3>6
  <2> QED BY <2>1, <2>2
<1>6. InStage(s)'
  BY <1>1, <1>2, <1>3, <1>4, <1>5 DEF InStage
<1> QED BY <1>6 DEF OneStage

(* The child starts to write the snapshot it was asked for.                *)
LEMMA CreateInStage ==
  ASSUME TypeOK, Owned, OneStage, NEW rss \in Rss, CreateHeapSnapshot(rss)
  PROVE  OneStage'
<1>1. /\ proc.os = "alive" /\ runs # 0 /\ UNCHANGED <<lab, runs>> /\ ~proc.writing
      /\ outbox # <<>> /\ outbox' = Tail(outbox) /\ outbox[1] = "snapshot"
  BY Received DEF CreateHeapSnapshot, supervisor, Owned
<1>2. PICK s \in Stages : InStage(s)
  BY <1>1 DEF OneStage
<1>3. Len(outbox) \in Nat /\ Len(outbox) # 0
  BY <1>1, EmptySeq, LenProperties DEF TypeOK
<1>4. Asked(1)
  BY <1>1, <1>3 DEF Asked
<1>5. s = "asked" /\ lab.snapshot = "creating" /\ proc.stats = {}
  BY <1>2, <1>4 DEF InStage
<1>6. \A i \in Nat : ~Asked(i)'
  <2> SUFFICES ASSUME NEW i \in Nat, i # 0, Asked(i + 1) PROVE FALSE
    BY <1>1, OutboxShrinks
  <2>1. i + 1 \in Nat /\ i + 1 # 1
    OBVIOUS
  <2> QED BY <1>2, <1>4, <2>1 DEF InStage
<1>7. PICK p \in ChildVars, msgs \in Seq(Messages) :
        /\ ChildStep(p, msgs) /\ p.os = proc.os /\ p.writing /\ p.stats = proc.stats
        /\ \A i \in 1..Len(msgs) : ~Answers(msgs[i])
  BY SnapshotSends
<1>8. proc'.os = "alive" /\ proc'.writing /\ proc'.stats = {}
  BY <1>1, <1>5, <1>7 DEF ChildStep
<1>9. \A i \in Nat : ~Answered(i)'
  <2> SUFFICES ASSUME NEW i \in Nat, Answered(i)' PROVE FALSE
    OBVIOUS
  <2>1. /\ Len(inbox[runs]) \in Nat /\ Len(msgs) \in Nat
        /\ Len(inbox'[runs]) = Len(inbox[runs]) + Len(msgs)
        /\ \A k \in 1..Len(inbox[runs]) : inbox'[runs][k] = inbox[runs][k]
        /\ \A k \in 1..Len(msgs) : inbox'[runs][Len(inbox[runs]) + k] = msgs[k]
    BY <1>1, <1>7, InboxGrows
  <2>2. i \in 1..Len(inbox[runs]) + Len(msgs) /\ Answers(inbox'[runs][i])
    BY <1>1, <2>1 DEF Answered, News, Answers
  <2>3. CASE i <= Len(inbox[runs])
    BY <1>2, <1>5, <2>1, <2>2, <2>3 DEF InStage, Answered, News, Answers
  <2>4. CASE i > Len(inbox[runs])
    <3>1. i - Len(inbox[runs]) \in 1..Len(msgs) /\ i = Len(inbox[runs]) + (i - Len(inbox[runs]))
      BY <2>1, <2>2, <2>4
    <3> QED BY <1>7, <2>1, <2>2, <3>1
  <2> QED BY <2>1, <2>3, <2>4
<1>10. InStage("writing")'
  BY <1>1, <1>5, <1>6, <1>8, <1>9 DEF InStage
<1> QED BY <1>10 DEF OneStage, Stages

LEMMA WrittenInStage ==
  ASSUME TypeOK, Owned, OneStage, HeapSnapshotWritten
  PROVE  OneStage'
<1>1. /\ proc.os = "alive" /\ proc.writing /\ runs # 0
      /\ UNCHANGED <<lab, runs, outbox, inbox>>
      /\ proc' = [proc EXCEPT !.writing = FALSE, !.stats = proc.stats \cup {fileSeq}]
  BY DEF HeapSnapshotWritten, supervisor, Owned
<1>2. PICK s \in Stages : InStage(s)
  BY <1>1 DEF OneStage
<1>3. s = "writing" /\ proc.stats = {} /\ lab.snapshot = "creating"
  BY <1>1, <1>2 DEF InStage
<1>4. proc'.os = "alive" /\ ~proc'.writing /\ proc'.stats = {fileSeq}
  BY <1>1, <1>3, ProcessFacts DEF ChildVars
<1>5. \A i \in Nat : ~Asked(i)' /\ ~Answered(i)'
  BY <1>1, <1>2, <1>3 DEF InStage, Asked, Answered, News
<1>6. InStage("measured")'
  BY <1>1, <1>3, <1>4, <1>5 DEF InStage
<1> QED BY <1>6 DEF OneStage, Stages

(* The answer is the last message of the child, and ends what was pending. *)
LEMMA AnswerInStage ==
  ASSUME TypeOK, Owned, OneStage, HeapSnapshotFailed \/ \E file \in proc.stats : StatDone(file)
  PROVE  OneStage'
<1>1. proc.os = "alive" /\ runs # 0 /\ UNCHANGED <<lab, runs, outbox>>
  BY DEF HeapSnapshotFailed, StatDone, Turn, supervisor, Owned
<1>2. PICK s \in Stages : InStage(s)
  BY <1>1 DEF OneStage
<1>3. PICK p \in ChildVars, n \in Messages :
        /\ ChildStep(p, <<n>>) /\ Answers(n) /\ n.type = "snapshot"
        /\ p.os = proc.os /\ ~p.writing
        /\ \/ proc.writing /\ p.stats = proc.stats
           \/ ~proc.writing /\ \E file \in proc.stats : p.stats = proc.stats \ {file}
  BY AnswerSends
<1>4. /\ proc'.os = "alive" /\ ~proc'.writing /\ proc'.stats = {}
      /\ s # "none" /\ s # "asked" /\ s # "answered"
  BY <1>1, <1>2, <1>3 DEF InStage, ChildStep
<1>5. \A i \in Nat : ~Asked(i)' /\ ~Answered(i)
  BY <1>1, <1>2, <1>4 DEF InStage, Asked
<1>6. PICK k \in Nat : k = Len(inbox[runs])
  BY <1>1, LenProperties DEF TypeOK, Runs
<1>7. /\ Len(inbox'[runs]) = k + 1 /\ inbox'[runs][k + 1] = n
      /\ \A i \in 1..k : inbox'[runs][i] = inbox[runs][i]
  <2>1. <<n>> \in Seq(Messages) /\ Len(<<n>>) = 1 /\ <<n>>[1] = n /\ 1 \in 1..Len(<<n>>)
    BY <1>3
  <2> HIDE DEF ChildStep
  <2>2. /\ Len(inbox'[runs]) = Len(inbox[runs]) + Len(<<n>>)
        /\ \A i \in 1..Len(inbox[runs]) : inbox'[runs][i] = inbox[runs][i]
        /\ \A i \in 1..Len(<<n>>) : inbox'[runs][Len(inbox[runs]) + i] = <<n>>[i]
    BY <1>1, <1>3, <2>1, InboxGrows
  <2> QED BY <1>6, <2>1, <2>2
<1>8. Answered(k + 1)' /\ k + 1 \in Nat
  BY <1>1, <1>3, <1>7 DEF Answered, News, Answers
<1>9. \A i \in Nat : /\ News(i)' => i <= k + 1
                     /\ Answered(i)' => i = k + 1
  <2> SUFFICES ASSUME NEW i \in Nat, News(i)' PROVE i <= k + 1 /\ (Answered(i)' => i = k + 1)
    BY DEF Answered
  <2>1. i \in 1..k + 1
    BY <1>1, <1>7 DEF News
  <2>2. CASE i \in 1..k
    <3>1. Answered(i)' => Answered(i)
      BY <1>1, <1>6, <1>7, <2>2 DEF Answered, News
    <3> QED BY <1>5, <2>2, <3>1
  <2> QED BY <2>1, <2>2
<1>10. lab'.snapshot = "creating"
  BY <1>1, <1>2, <1>4 DEF InStage
<1>11. (\E i \in Nat : Answered(i))' /\ ~(\E i \in Nat : Asked(i))'
  BY <1>5, <1>8
<1>12. \A i, j \in Nat : Answered(i)' /\ News(j)' => j <= i
  BY <1>9
<1>13. InStage("answered")'
  BY <1>4, <1>5, <1>10, <1>11, <1>12 DEF InStage
<1> QED BY <1>13 DEF OneStage, Stages

(* What the supervisor asks its child for.                                 *)
LEMMA OutboxGrows ==
  ASSUME TypeOK, NEW action \in Actions, outbox' = Append(outbox, action)
  PROVE  /\ Len(outbox) \in Nat
         /\ \A i \in Nat : Asked(i)' <=>
              Asked(i) \/ (action = "snapshot" /\ i = Len(outbox) + 1)
<1>1. outbox \in Seq(Actions \cup {"start"}) /\ Len(outbox) \in Nat
  BY LenProperties DEF TypeOK
<1>2. /\ Len(outbox') = Len(outbox) + 1
      /\ \A i \in 1..Len(outbox) : outbox'[i] = outbox[i]
      /\ outbox'[Len(outbox) + 1] = action
  BY <1>1, AppendProperties
<1>3. ASSUME NEW i \in Nat
      PROVE  Asked(i)' <=> Asked(i) \/ (action = "snapshot" /\ i = Len(outbox) + 1)
  <2>1. CASE i <= Len(outbox)
    BY <1>1, <1>2, <2>1 DEF Asked
  <2>2. CASE i = Len(outbox) + 1
    BY <1>1, <1>2, <2>2 DEF Asked
  <2>3. CASE i > Len(outbox) + 1
    BY <1>1, <1>2, <2>3 DEF Asked
  <2> QED BY <1>1, <2>1, <2>2, <2>3
<1> QED BY <1>1, <1>3

LEMMA RequestInStage ==
  ASSUME LabInv, OwnMessages, OneStage, Request
  PROVE  OneStage'
<1> USE DEF LabInv
<1>1. ASSUME NEW allocation \in Inputs, NEW limit \in Inputs, Start(allocation, limit)
      PROVE  OneStage'
  <2>1. /\ runs' = runs + 1 /\ runs' \in Runs /\ runs' # runs /\ UNCHANGED inbox
        /\ lab'.snapshot = "idle" /\ outbox' \in {<<>>, <<"start">>}
        /\ ~proc'.writing /\ proc'.stats = {}
    <3>1. runs' = runs + 1 /\ runs' \in Runs /\ runs' # runs /\ UNCHANGED inbox
      BY <1>1, Bounds DEF Start, TypeOK, Runs
    <3>2. lab'.snapshot = "idle" /\ outbox' \in {<<>>, <<"start">>}
      BY <1>1 DEF Start
    <3>3. proc' \in {Forked, NoProcess}
      BY <1>1 DEF Start
    <3>4. ~proc'.writing /\ proc'.stats = {}
      BY <3>3 DEF Forked, NoProcess
    <3> QED BY <3>1, <3>2, <3>4
  <2>2. Len(inbox'[runs']) = 0
    BY <2>1 DEF OwnMessages
  <2>3. \A i \in Nat : ~Asked(i)'
    <3>1. Len(outbox') \in {0, 1} /\ (Len(outbox') = 1 => outbox'[1] # "snapshot")
      BY <2>1
    <3> QED BY <3>1 DEF Asked
  <2>4. \A i \in Nat : ~News(i)' /\ ~Answered(i)'
    BY <2>2 DEF News, Answered
  <2>5. InStage("none")'
    BY <2>1, <2>3, <2>4 DEF InStage
  <2> QED BY <2>5 DEF OneStage, Stages
<1>2. CASE RequestSnapshot
  <2>1. /\ runs # 0 /\ UNCHANGED <<runs, proc, inbox>> /\ lab.snapshot # "creating"
        /\ lab'.snapshot = "creating" /\ SendToChild("snapshot")
    BY <1>2 DEF RequestSnapshot, Reachable, TypeOK, LabState, Owned
  <2>2. InStage("none")
    BY <2>1 DEF OneStage, InStage
  <2>3. \A i \in Nat : (News(i)' <=> News(i)) /\ (Answered(i)' <=> Answered(i)) /\ ~Answered(i)
    BY <2>1, <2>2 DEF InStage, News, Answered
  <2>4. ~proc'.writing /\ proc'.stats = {} /\ UNCHANGED proc
    BY <2>1, <2>2 DEF InStage
  <2>5. CASE proc.os = "alive"
    <3>1. PICK n \in Nat : n = Len(outbox) + 1
      BY LenProperties DEF TypeOK
    <3>2. \A i \in Nat : Asked(i)' <=> i = n
      <4>1. outbox' = Append(outbox, "snapshot") /\ "snapshot" \in Actions
        BY <2>1, <2>5 DEF SendToChild, Actions
      <4>2. \A i \in Nat : ~Asked(i)
        BY <2>2 DEF InStage
      <4> QED BY <3>1, <4>1, <4>2, OutboxGrows
    <3>3. InStage("asked")'
      BY <2>1, <2>3, <2>4, <3>1, <3>2 DEF InStage
    <3> QED BY <3>3 DEF OneStage, Stages
  <2>6. CASE proc.os # "alive"
    <3>1. UNCHANGED outbox
      BY <2>1, <2>6 DEF SendToChild
    <3>2. \A i \in Nat : ~Asked(i)'
      BY <2>2, <3>1 DEF InStage, Asked
    <3>3. InStage("none")'
      BY <2>3, <2>4, <2>6, <3>2 DEF InStage
    <3> QED BY <3>3 DEF OneStage, Stages
  <2> QED BY <2>5, <2>6
<1>3. CASE RequestStop \/ \E action \in Actions : RequestAction(action)
  <2>1. /\ runs # 0 /\ UNCHANGED <<runs, proc, inbox, lab>>
        /\ \/ UNCHANGED outbox
           \/ \E action \in Actions \ {"snapshot"} : SendToChild(action)
    BY <1>3 DEF RequestStop, RequestAction, Reachable, Owned, TypeOK, supervisor, Actions
  <2>2. \A i \in Nat : Asked(i)' <=> Asked(i)
    <3>1. CASE UNCHANGED outbox
      BY <3>1 DEF Asked
    <3>2. CASE \E action \in Actions \ {"snapshot"} : outbox' = Append(outbox, action)
      BY <3>2, OutboxGrows
    <3> QED BY <2>1, <3>1, <3>2 DEF SendToChild
  <2>3. \A i \in Nat : (News(i)' <=> News(i)) /\ (Answered(i)' <=> Answered(i))
    BY <2>1 DEF News, Answered
  <2>4. PICK s \in Stages : InStage(s)
    BY <2>1 DEF OneStage
  <2>5. InStage(s)'
    BY <2>1, <2>2, <2>3, <2>4 DEF InStage
  <2> QED BY <2>5 DEF OneStage
<1>4. CASE StartThrows
  BY <1>4 DEF StartThrows, OneStage, InStage, Asked, News, Answered
<1>5. CASE StopForShutdown
  <2>1. UNCHANGED <<runs, inbox, outbox, lab>> /\ proc' \in {proc, Killed(proc)}
    BY <1>5 DEF StopForShutdown
  <2>2. proc'.os = proc.os /\ proc'.writing = proc.writing /\ proc'.stats = proc.stats
    BY <2>1, KilledFacts, ProcessFacts DEF ChildVars
  <2> QED BY <2>1, <2>2 DEF OneStage, InStage, Asked, News, Answered
<1> QED BY <1>1, <1>2, <1>3, <1>4, <1>5 DEF Request

(* A message is handled: a sample, the "creating" of the snapshot that is  *)
(* pending, or its answer, after which nothing is pending.                 *)
LEMMA HandledInStage ==
  ASSUME LabInv, OwnMessages, OneStage, NEW r \in Runs, OnMessage(r)
  PROVE  OneStage'
<1> USE DEF LabInv
<1>1. PICK type : Deliver(r, type)
  BY DEF OnMessage, OnSample, OnSnapshotReady, OnSnapshotProgress
<1>2. r = runs /\ runs # 0 /\ UNCHANGED <<runs, outbox>>
  BY <1>1, Delivers DEF OwnMessages, Runs
<1>3. PICK s \in Stages : InStage(s)
  BY <1>2 DEF OneStage
<1>4. PICK n \in Nat \ {0} : n = Len(inbox[runs])
  BY <1>1, <1>2, InboxShrinks
<1>5. /\ Len(inbox'[runs]) = n - 1 /\ \A i \in 1..n - 1 : inbox'[runs][i] = inbox[runs][i + 1]
      /\ inbox[runs][1].type = type
  BY <1>1, <1>2, <1>4, InboxShrinks
<1>6. \A i \in Nat : /\ News(i)' <=> i # 0 /\ News(i + 1)
                     /\ Answered(i)' <=> i # 0 /\ Answered(i + 1)
  BY <1>2, <1>4, <1>5 DEF News, Answered
<1>7. proc'.os = proc.os /\ proc'.writing = proc.writing /\ proc'.stats = proc.stats
  <2>1. proc' = proc \/ proc' = Killed(proc)
    BY DEF OnMessage, OnSample, OnSnapshotReady, OnSnapshotProgress
  <2> QED BY <2>1, KilledFacts, ProcessFacts DEF ChildVars
<1>8. \A i \in Nat : Asked(i)' <=> Asked(i)
  BY <1>2 DEF Asked
<1>9. \A i \in Nat : News(i) => i # 0
  BY DEF News
<1>10. ASSUME ~Answered(1), lab'.snapshot = lab.snapshot
       PROVE  OneStage'
  <2>1. ASSUME NEW i \in Nat, Answered(i) PROVE \E j \in Nat : Answered(j)'
    <3>1. i # 0 /\ i # 1
      BY <1>10, <2>1 DEF Answered, News
    <3>2. i - 1 \in Nat /\ i - 1 # 0 /\ (i - 1) + 1 = i
      BY <3>1
    <3> QED BY <1>6, <2>1, <3>2
  <2>2. ASSUME NEW i \in Nat, NEW j \in Nat, Answered(i)', News(j)' PROVE j <= i
    <3>1. Answered(i + 1) /\ News(j + 1) /\ i + 1 \in Nat /\ j + 1 \in Nat
      BY <1>6, <2>2
    <3>2. j + 1 <= i + 1
      BY <1>3, <3>1 DEF InStage
    <3> QED BY <3>2
  <2>3. ASSUME NEW i \in Nat, Answered(i)' PROVE \E j \in Nat : Answered(j)
    <3>1. Answered(i + 1) /\ i + 1 \in Nat
      BY <1>6, <2>3
    <3> QED BY <3>1
  <2>4. ASSUME NEW i \in Nat, News(i)' PROVE \E j \in Nat : News(j)
    <3>1. News(i + 1) /\ i + 1 \in Nat
      BY <1>6, <2>4
    <3> QED BY <3>1
  <2>5. (\E i \in Nat : Answered(i))' <=> (\E i \in Nat : Answered(i))
    BY <2>1, <2>3
  <2>6. InStage(s)'
    BY <1>3, <1>7, <1>8, <1>10, <2>2, <2>4, <2>5 DEF InStage
  <2> QED BY <2>6, <1>3 DEF OneStage
<1>11. CASE OnSample(r)
  <2>1. inbox[runs][1].type = "sample" /\ lab' =
          [lab EXCEPT !.status = inbox[runs][1].status, !.latest = inbox[runs][1].retained]
    BY <1>2, <1>11 DEF OnSample, Deliver
  <2>2. ~Answered(1) /\ lab'.snapshot = lab.snapshot
    BY <2>1 DEF Answered, News, TypeOK, LabState
  <2> QED BY <1>10, <2>2
<1>12. CASE OnSnapshotReady(r) \/ OnSnapshotProgress(r)
  <2>1. PICK status : /\ status = inbox[runs][1].status
                      /\ status \in {"ready", "creating", "error"}
                      /\ lab' = [lab EXCEPT !.snapshot = status]
                      /\ inbox[runs][1].type = "snapshot"
    BY <1>2, <1>12 DEF OnSnapshotReady, OnSnapshotProgress, Deliver
  <2>2. lab'.snapshot = status /\ News(1)
    BY <1>4, <2>1 DEF TypeOK, LabState, News
  <2>3. CASE status = "creating" /\ s # "none"
    BY <1>3, <1>10, <2>1, <2>2, <2>3 DEF InStage, Answered
  <2>4. CASE status = "creating" /\ s = "none"
    <3>1. proc.os # "alive" /\ \A i \in Nat : ~Answered(i)
      BY <1>3, <2>2, <2>4 DEF InStage
    <3>2. \A i \in Nat : ~Answered(i)'
      BY <1>6, <3>1
    <3>3. InStage("none")'
      BY <1>3, <1>7, <1>8, <2>4, <3>1, <3>2 DEF InStage
    <3> QED BY <3>3 DEF OneStage, Stages
  <2>5. CASE status # "creating"
    <3>1. Answered(1) /\ s = "answered"
      BY <1>3, <2>1, <2>2, <2>5 DEF Answered, InStage
    <3>2. \A i \in Nat : ~News(i)' /\ ~Answered(i)'
      <4> SUFFICES ASSUME NEW i \in Nat, i # 0, News(i + 1) PROVE FALSE
        BY <1>6 DEF Answered
      <4>1. i + 1 \in Nat /\ ~(i + 1 <= 1)
        OBVIOUS
      <4> QED BY <1>3, <3>1, <4>1 DEF InStage
    <3>3. ~proc'.writing /\ proc'.stats = {} /\ \A i \in Nat : ~Asked(i)'
      BY <1>3, <1>7, <1>8, <3>1 DEF InStage
    <3>4. InStage("none")'
      BY <2>2, <2>5, <3>2, <3>3 DEF InStage
    <3> QED BY <3>4 DEF OneStage, Stages
  <2> QED BY <2>3, <2>4, <2>5
<1> QED BY <1>11, <1>12 DEF OnMessage

(* A process that ends leaves nothing pending but an answer on its way.    *)
LEMMA EndInStage ==
  ASSUME OneStage, proc'.os # "alive", ~proc'.writing, proc'.stats = {}, outbox' = <<>>,
         UNCHANGED <<inbox, runs>>, lab'.snapshot = lab.snapshot
  PROVE  OneStage'
<1> SUFFICES ASSUME runs # 0 PROVE OneStage'
  BY DEF OneStage
<1>1. PICK s \in Stages : InStage(s)
  BY DEF OneStage
<1>2. \A i \in Nat : (News(i)' <=> News(i)) /\ (Answered(i)' <=> Answered(i))
  BY DEF News, Answered
<1>3. \A i \in Nat : ~Asked(i)'
  BY DEF Asked
<1>4. InStage(IF s = "answered" THEN "answered" ELSE "none")'
  <2>1. CASE s = "answered"
    BY <1>1, <1>2, <1>3, <2>1 DEF InStage
  <2>2. CASE s # "answered"
    BY <1>1, <1>2, <1>3, <2>2 DEF InStage
  <2> QED BY <2>1, <2>2
<1> QED BY <1>4 DEF OneStage, Stages

LEMMA StepInStage ==
  ASSUME LabInv, OwnMessages, OneStage, [Next]_vars
  PROVE  OneStage'
<1> USE DEF LabInv
<1>1. CASE Request
  BY <1>1, RequestInStage
<1>2. CASE StopTimerElapses \/ StopTimerFires \/ OnDisconnect
  <2>1. UNCHANGED <<runs, inbox, outbox, lab>> /\ proc' \in {proc, Killed(proc)}
    BY <1>2 DEF StopTimerElapses, StopTimerFires, OnDisconnect
  <2>2. proc'.os = proc.os /\ proc'.writing = proc.writing /\ proc'.stats = proc.stats
    BY <2>1, KilledFacts, ProcessFacts DEF ChildVars
  <2> QED BY <2>1, <2>2 DEF OneStage, InStage, Asked, News, Answered
<1>3. CASE OnExit
  <2>1. /\ proc'.os # "alive" /\ ~proc'.writing /\ proc'.stats = {} /\ outbox' = <<>>
        /\ UNCHANGED <<inbox, runs>> /\ lab'.snapshot = lab.snapshot
    BY <1>3 DEF OnExit, NoProcess, Owned, TypeOK, LabState
  <2> QED BY <2>1, EndInStage
<1>4. ASSUME NEW r \in Runs, OnMessage(r) PROVE OneStage'
  BY <1>4, HandledInStage
<1>5. ASSUME NEW rss \in Rss, ChildCallback(rss) PROVE OneStage'
  <2>1. CASE CreateHeapSnapshot(rss)
    BY <2>1, CreateInStage
  <2>2. CASE ~CreateHeapSnapshot(rss)
    <3>1. runs # 0 /\ UNCHANGED <<lab, runs>>
      BY <1>5 DEF ChildCallback, AllocateBlock, Deadline, DeadlineStop, DeadlinePause,
         GcSecondPass, ChildMessage, StartExperiment, Pause, Resume, Release, Gc, Stop,
         CreateHeapSnapshot, Receive, Turn, Owned, supervisor
    <3>2. \/ UNCHANGED outbox
          \/ outbox # <<>> /\ outbox' = Tail(outbox) /\ outbox[1] # "snapshot"
      <4>1. CASE AllocateBlock(rss) \/ Deadline(rss) \/ GcSecondPass(rss)
        BY <4>1 DEF AllocateBlock, Deadline, DeadlineStop, DeadlinePause, GcSecondPass
      <4>2. CASE StartExperiment(rss) \/ Pause(rss) \/ Resume(rss) \/ Release(rss) \/ Gc
                 \/ Stop(rss)
        <5>1. \E action : Receive(action) /\ action # "snapshot"
          BY <4>2 DEF StartExperiment, Pause, Resume, Release, Gc, Stop
        <5> QED BY <5>1, Received
      <4> QED BY <1>5, <2>2, <4>1, <4>2 DEF ChildCallback, ChildMessage
    <3>3. \E p \in ChildVars, msgs \in Seq(Messages) : SampleStep(p, msgs)
      BY <1>5, <2>2, AllocateSends, CallbackSends DEF ChildCallback, ChildMessage
    <3> QED BY <3>1, <3>2, <3>3, SamplesInStage
  <2> QED BY <2>1, <2>2
<1>6. CASE HeapSnapshotWritten
  BY <1>6, WrittenInStage
<1>7. CASE HeapSnapshotFailed \/ \E file \in proc.stats : StatDone(file)
  BY <1>7, AnswerInStage
<1>8. CASE ChildExits \/ ProcessKilled \/ ProcessCrashes
  <2>1. /\ proc'.os # "alive" /\ ~proc'.writing /\ proc'.stats = {} /\ outbox' = <<>>
        /\ UNCHANGED <<inbox, runs, lab>>
    BY <1>8 DEF ChildExits, ProcessKilled, ProcessCrashes, Dead, NoProcess, supervisor
  <2> QED BY <2>1, EndInStage
<1>9. CASE UNCHANGED vars
  BY <1>9 DEF vars, OneStage, InStage, Asked, News, Answered
<1> QED BY <1>1, <1>2, <1>3, <1>4, <1>5, <1>6, <1>7, <1>8, <1>9 DEF Next

(* When 'exit' waits for the channel, at most one heap snapshot is asked   *)
(* for, being written, being measured or answered, in every run, and       *)
(* state.snapshot is "creating" while there is one; in a process that      *)
(* lives it is "creating" only then.                                       *)
THEOREM SnapshotsExclude == DrainBeforeExit => (Spec => []SnapshotExclusive)
<1> SUFFICES ASSUME DrainBeforeExit PROVE Spec => []SnapshotExclusive
  OBVIOUS
<1>1. Init => OneStage
  BY DEF Init, OneStage
<1>2. LabInv /\ OwnMessages /\ OneStage /\ [Next]_vars => OneStage'
  BY StepInStage
<1>3. LabInv /\ OneStage => SnapshotExclusive
  BY StageExcludes DEF LabInv
<1> QED BY <1>1, <1>2, <1>3, OwnMessagesAlways, Invariant, PTL DEF Spec
=============================================================================
