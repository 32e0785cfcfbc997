----------------------------- MODULE RoutesProofs -----------------------------
(***************************************************************************)
(* Proofs about what a page is shown: the trace of demo runs (RunPage) and *)
(* the state of the memory laboratory (MemoryPage), for any number of      *)
(* runs, connections and changes; and about the three components of Routes *)
(* together, which share no state.                                         *)
(***************************************************************************)
EXTENDS Routes, RateLimiterProofs, FiniteSetTheorems

-----------------------------------------------------------------------------
(* The trace.  TraceOfOneRun is not inductive: an event of an older run    *)
(* would add to the trace.  While the page waits only the latest run, or   *)
(* one that was let go, may be under way; otherwise every one under way    *)
(* was let go.                                                             *)
Alone == UnderWay \subseteq letGo \cup {latest}
Released == runStatus # "running" => UnderWay \subseteq letGo
TraceInv == RunPageTypeOK /\ TraceOfOneRun /\ Alone /\ Released

LEMMA TraceInit == RunPageInit => TraceInv
  BY DEF RunPageInit, TraceInv, RunPageTypeOK, TraceOfOneRun, Alone, Released, UnderWay

LEMMA RunDemoKeeps ==
  ASSUME TraceInv, NEW r \in Runs, RunDemo(r)
  PROVE  TraceInv'
<1> USE DEF RunDemo, Status, TraceInv, RunPageTypeOK
<1>1. UnderWay' = UnderWay \cup {r} /\ UnderWay \subseteq letGo
  BY DEF Released, UnderWay
<1> QED BY <1>1 DEF TraceOfOneRun, Alone, Released, UnderWay

LEMMA RunStreamKeeps ==
  ASSUME TraceInv, NEW r \in Runs, RunPageStep(r)
  PROVE  TraceInv'
<1> USE DEF Status, TraceInv, RunPageTypeOK, UnderWay
<1>1. r \in UnderWay /\ UnderWay' \subseteq UnderWay /\ UNCHANGED latest
  BY DEF RunPageStep, OnResponse, OnEvent, OnReportedError, OnLastEvent, OnEnd, OnFailure
<1>2. shown' \subseteq shown \cup {r} /\ letGo \subseteq letGo'
  BY DEF RunPageStep, OnResponse, OnEvent, OnReportedError, OnLastEvent, OnEnd, OnFailure
<1>3. RunPageTypeOK'
  BY DEF RunPageStep, OnResponse, OnEvent, OnReportedError, OnLastEvent, OnEnd, OnFailure
<1>4. TraceOfOneRun' /\ Alone'
  BY <1>1, <1>2 DEF TraceOfOneRun, Alone
<1>5. Released'
  <2>1. CASE UNCHANGED <<runStatus, letGo>>
    BY <1>1, <2>1 DEF Released
  <2>2. CASE letGo' = letGo \cup UnderWay
    BY <1>1, <2>2 DEF Released
  <2> QED BY <2>1, <2>2
          DEF RunPageStep, OnResponse, OnEvent, OnReportedError, OnLastEvent, OnEnd, OnFailure
<1> QED BY <1>3, <1>4, <1>5

LEMMA TraceStep == TraceInv /\ [RunPageNext]_runVars => TraceInv'
<1> SUFFICES ASSUME TraceInv, [RunPageNext]_runVars PROVE TraceInv'
  OBVIOUS
<1>1. CASE UNCHANGED runVars
  BY <1>1 DEF runVars, TraceInv, RunPageTypeOK, TraceOfOneRun, Alone, Released, UnderWay
<1>2. CASE NewChapter
  BY <1>2 DEF NewChapter, Status, TraceInv, RunPageTypeOK, TraceOfOneRun, Alone, Released,
     UnderWay
<1>3. ASSUME NEW r \in Runs, RunDemo(r) PROVE TraceInv'
  BY <1>3, RunDemoKeeps
<1>4. ASSUME NEW r \in Runs, RunPageStep(r) PROVE TraceInv'
  BY <1>4, RunStreamKeeps
<1> QED BY <1>1, <1>2, <1>3, <1>4 DEF RunPageNext

LEMMA TraceInvariant == RunPageSpec => []TraceInv
  BY TraceInit, TraceStep, PTL DEF RunPageSpec

(* For any number of runs started from one page: events of another run     *)
(* than the latest reach the trace only from a run that was let go.        *)
THEOREM PageShowsOneRun == RunPageSpec => []TraceOfOneRun
<1>1. TraceInv => TraceOfOneRun
  BY DEF TraceInv
<1> QED BY <1>1, TraceInvariant, PTL

-----------------------------------------------------------------------------
(* The memory laboratory.  At most one stream is open, the one the page    *)
(* follows; nothing on its way to the page, on a stream or as an answer,   *)
(* is newer than the laboratory; the last frame under way is its current   *)
(* state, and when none is, the page has been shown that state; and while  *)
(* it shows "starting" its request is under way.                           *)
LabConstants == MaxVersion \in Nat /\ MaxSseClients \in Nat \ {0}
                /\ "none" \notin Streams /\ "failed" \notin Streams

LEMMA LabBounds == LabConstants
  BY PageAssumption DEF PageAssumption, LabConstants

PageTypes ==
  /\ lab \in LabStates /\ view \in LabStates
  /\ entry \in [Streams -> {"unused", "open", "gone", "unheard", "removed", "refused"}]
  /\ frames \in [Streams -> Seq(LabStates)]
  /\ source \in Streams \cup {"none", "failed"}
  /\ requests \in [Kinds -> {"no", "sent", "answered", "refused"}]
  /\ answers \in [Kinds -> LabStates]
  /\ viewFrom \in {"default", "starting", "frame", "answer", "refusal"}
  /\ newest \in 0..MaxVersion

ListBounded == IsFiniteSet(Listed) /\ Cardinality(Listed) <= MaxSseClients

Followed ==
  \A s \in Streams : /\ entry[s] = "open" <=> source = s
                     /\ entry[s] # "open" => frames[s] = <<>>

NotNewer ==
  /\ newest <= lab.version
  /\ \A k \in Kinds : answers[k].version <= lab.version
  /\ \A s \in Streams, i \in Nat : i \in 1..Len(frames[s]) => frames[s][i].version <= lab.version

ShownOrComing ==
  \A s \in Streams : source = s =>
    IF frames[s] = <<>>
    THEN newest = lab.version /\ (view = lab \/ viewFrom \in {"starting", "answer", "refusal"})
    ELSE frames[s][Len(frames[s])] = lab

StartPending == viewFrom = "starting" => requests["start"] # "no"

PageInv == PageTypes /\ ListBounded /\ Followed /\ NotNewer /\ ShownOrComing /\ StartPending

LEMMA DefaultTyped == DefaultMemory \in LabStates /\ DefaultMemory.version = 0
  BY LabBounds DEF LabConstants, DefaultMemory, LabStates

LEMMA PageInvInit == PageInit => PageInv
<1> SUFFICES ASSUME PageInit PROVE PageInv
  OBVIOUS
<1> USE LabBounds DEF LabConstants, PageInit
<1>1. PageTypes
  <2>1. <<>> \in Seq(LabStates)
    BY EmptySeq
  <2> QED BY <2>1, DefaultTyped DEF PageTypes
<1>2. Listed = {}
  BY DEF Listed
<1>3. ListBounded
  BY <1>2, FS_EmptySet DEF ListBounded
<1>4. Followed
  BY DEF Followed
<1>5. NotNewer
  <2>1. \A s \in Streams : Len(frames[s]) = 0
    OBVIOUS
  <2> QED BY <2>1, DefaultTyped DEF NotNewer
<1>6. ShownOrComing /\ StartPending
  BY DEF ShownOrComing, StartPending
<1> QED BY <1>1, <1>3, <1>4, <1>5, <1>6 DEF PageInv

(* The laboratory's state changes and is sent on the stream that is open.  *)
LEMMA BroadcastKeeps ==
  ASSUME PageInv, NEW new \in LabStates, Broadcast(new), new.version = lab.version + 1,
         UNCHANGED <<entry, page>>,
         requests' \in [Kinds -> {"no", "sent", "answered", "refused"}],
         answers' \in [Kinds -> LabStates],
         \A k \in Kinds : answers'[k] \in {answers[k], new},
         requests["start"] # "no" => requests'["start"] # "no"
  PROVE  PageInv'
<1> USE DEF PageInv, PageTypes
<1>0. lab.version \in Nat /\ new.version \in Nat
  BY DEF LabStates
<1>1. \A s \in Streams :
        /\ frames'[s] \in Seq(LabStates)
        /\ entry[s] # "open" => frames'[s] = frames[s]
        /\ entry[s] = "open" => /\ Len(frames'[s]) = Len(frames[s]) + 1
                                /\ Len(frames[s]) \in Nat
                                /\ frames'[s][Len(frames[s]) + 1] = new
                                /\ \A i \in 1..Len(frames[s]) : frames'[s][i] = frames[s][i]
  <2> SUFFICES ASSUME NEW s \in Streams
               PROVE  /\ frames'[s] \in Seq(LabStates)
                      /\ entry[s] # "open" => frames'[s] = frames[s]
                      /\ entry[s] = "open" => /\ Len(frames'[s]) = Len(frames[s]) + 1
                                              /\ Len(frames[s]) \in Nat
                                              /\ frames'[s][Len(frames[s]) + 1] = new
                                              /\ \A i \in 1..Len(frames[s]) :
                                                   frames'[s][i] = frames[s][i]
    OBVIOUS
  <2>1. frames[s] \in Seq(LabStates)
    OBVIOUS
  <2>2. entry[s] = "open" => frames'[s] = Append(frames[s], new)
    BY DEF Broadcast
  <2>3. entry[s] # "open" => frames'[s] = frames[s]
    BY DEF Broadcast
  <2>4. CASE entry[s] = "open"
    <3>1. /\ Append(frames[s], new) \in Seq(LabStates)
          /\ Len(Append(frames[s], new)) = Len(frames[s]) + 1
          /\ Append(frames[s], new)[Len(frames[s]) + 1] = new
          /\ \A i \in 1..Len(frames[s]) : Append(frames[s], new)[i] = frames[s][i]
          /\ Len(frames[s]) \in Nat
      BY <2>1, AppendProperties, LenProperties
    <3> QED BY <2>2, <2>4, <3>1
  <2>5. CASE entry[s] # "open"
    BY <2>1, <2>3, <2>5
  <2> QED BY <2>4, <2>5
<1>2. frames' \in [Streams -> Seq(LabStates)]
  <2>1. frames' = [s \in Streams |-> frames'[s]]
    BY DEF Broadcast
  <2> QED BY <1>1, <2>1
<1>3. PageTypes'
  BY <1>2 DEF Broadcast, page
<1>4. ListBounded' /\ Followed'
  BY <1>1 DEF ListBounded, Listed, Followed, page
<1>5. NotNewer'
  <2>1. newest' <= new.version /\ \A k \in Kinds : answers'[k].version <= new.version
    <3>1. newest' = newest /\ newest \in Nat /\ newest <= lab.version
      BY DEF NotNewer, page
    <3>2. ASSUME NEW k \in Kinds PROVE answers'[k].version <= new.version
      <4>1. answers[k].version <= lab.version /\ answers[k].version \in Nat
        BY DEF NotNewer, LabStates
      <4> QED BY <1>0, <4>1
    <3> QED BY <1>0, <3>1, <3>2
  <2>2. ASSUME NEW s \in Streams, NEW i \in Nat, i \in 1..Len(frames'[s])
        PROVE  frames'[s][i].version <= new.version
    <3>1. ASSUME frames'[s][i] = frames[s][i], i \in 1..Len(frames[s])
          PROVE  frames'[s][i].version <= new.version
      <4>1. frames[s][i] \in LabStates /\ frames[s][i].version <= lab.version
        BY <3>1, ElementOfSeq DEF NotNewer
      <4> QED BY <1>0, <3>1, <4>1 DEF LabStates
    <3>2. CASE entry[s] # "open"
      BY <1>1, <2>2, <3>1, <3>2
    <3>3. CASE entry[s] = "open" /\ i \in 1..Len(frames[s])
      BY <1>1, <3>1, <3>3
    <3>4. CASE entry[s] = "open" /\ i \notin 1..Len(frames[s])
      <4>1. i = Len(frames[s]) + 1
        BY <1>1, <2>2, <3>4
      <4> QED BY <1>0, <1>1, <3>4, <4>1
    <3> QED BY <3>2, <3>3, <3>4
  <2>3. lab' = new
    BY DEF Broadcast
  <2> QED BY <2>1, <2>2, <2>3 DEF NotNewer
<1>6. ShownOrComing'
  <2> SUFFICES ASSUME NEW s \in Streams, source = s
               PROVE  frames'[s] # <<>> /\ frames'[s][Len(frames'[s])] = new
    BY DEF ShownOrComing, page, Broadcast
  <2>1. entry[s] = "open"
    BY DEF Followed
  <2>2. Len(frames'[s]) = Len(frames[s]) + 1 /\ Len(frames[s]) \in Nat
        /\ frames'[s][Len(frames[s]) + 1] = new
    BY <1>1, <2>1
  <2>3. frames'[s] # <<>>
    BY <2>2
  <2> QED BY <2>2, <2>3
<1>7. StartPending'
  BY DEF StartPending, page
<1> QED BY <1>3, <1>4, <1>5, <1>6, <1>7

(* The lists of a page's connections; what a frame or an answer shows.     *)
LEMMA ShowKeeps ==
  ASSUME PageInv, NEW new \in LabStates, new.version <= lab.version,
         NEW from \in {"default", "starting", "frame", "answer", "refusal"}, Show(new, from), UNCHANGED lab
  PROVE  /\ view' = new /\ viewFrom' = from /\ newest' \in 0..MaxVersion
         /\ newest' <= lab'.version /\ newest <= newest' /\ new.version <= newest'
  BY LabBounds DEF LabConstants, Show, PageInv, PageTypes, NotNewer, LabStates

LEMMA AnswerKeeps ==
  ASSUME PageInv, NEW k \in Kinds, OnAnswer(k) \/ OnRefusal(k)
  PROVE  PageInv'
<1> USE DEF PageInv, PageTypes
<1>0. UNCHANGED <<lab, entry, frames, source>>
  BY DEF OnAnswer, OnRefusal
<1>1. /\ requests' \in [Kinds -> {"no", "sent", "answered", "refused"}]
      /\ answers' \in [Kinds -> LabStates]
      /\ \A j \in Kinds : answers'[j].version <= lab.version
  <2>1. \A j \in Kinds : answers'[j] \in {answers[j], DefaultMemory}
    BY DEF OnAnswer, OnRefusal
  <2>2. lab.version \in Nat /\ DefaultMemory.version = 0
    BY DefaultTyped DEF LabStates
  <2>3. requests' \in [Kinds -> {"no", "sent", "answered", "refused"}]
    BY DEF OnAnswer, OnRefusal
  <2>4. answers' \in [Kinds -> LabStates]
    BY DefaultTyped DEF OnAnswer, OnRefusal
  <2>5. \A j \in Kinds : answers'[j].version <= lab.version
    BY <2>1, <2>2 DEF NotNewer
  <2> QED BY <2>3, <2>4, <2>5
<1>2. \/ UNCHANGED <<view, viewFrom, newest>>
      \/ \E new \in LabStates : /\ new.version <= lab.version
                                /\ Show(new, "answer") \/ Show(new, "refusal")
  <2>1. DefaultMemory.version <= lab.version
    BY DefaultTyped DEF LabStates
  <2> QED BY <2>1, DefaultTyped DEF OnAnswer, OnRefusal, NotNewer
<1>3. /\ view' \in LabStates /\ viewFrom' \in {"default", "starting", "frame", "answer", "refusal"}
      /\ newest' \in 0..MaxVersion /\ newest' <= lab'.version /\ newest <= newest'
      /\ (view' = view /\ viewFrom' = viewFrom) \/ viewFrom' \in {"answer", "refusal"}
  <2>1. CASE UNCHANGED <<view, viewFrom, newest>>
    BY <1>0, <2>1 DEF NotNewer
  <2>2. ASSUME NEW new \in LabStates, new.version <= lab.version,
               NEW from \in {"answer", "refusal"}, Show(new, from)
        PROVE  /\ view' \in LabStates /\ viewFrom' = from
               /\ newest' \in 0..MaxVersion /\ newest' <= lab'.version /\ newest <= newest'
    BY <1>0, <2>2, ShowKeeps
  <2> QED BY <1>2, <2>1, <2>2
<1>4. PageTypes'
  BY <1>0, <1>1, <1>3
<1>5. ListBounded' /\ Followed'
  BY <1>0 DEF ListBounded, Listed, Followed
<1>6. NotNewer'
  BY <1>0, <1>1, <1>3 DEF NotNewer
<1>7. ShownOrComing'
  <2>1. newest = lab.version => newest' = lab.version
    BY <1>0, <1>3 DEF LabStates
  <2> QED BY <1>0, <1>3, <2>1 DEF ShownOrComing
<1>8. StartPending'
  <2>1. CASE OnAnswer(k)
    BY <2>1 DEF OnAnswer, Show, StartPending
  <2>2. CASE OnRefusal(k) /\ k = "start"
    BY <2>2 DEF OnRefusal, Show, StartPending
  <2>3. CASE OnRefusal(k) /\ k # "start"
    BY <2>3 DEF OnRefusal, StartPending, Kinds
  <2> QED BY <2>1, <2>2, <2>3
<1> QED BY <1>4, <1>5, <1>6, <1>7, <1>8

LEMMA FrameKeeps ==
  ASSUME PageInv, NEW s \in Streams, OnFrame(s)
  PROVE  PageInv'
<1> USE DEF PageInv, PageTypes
<1>1. /\ source = s /\ frames[s] # <<>> /\ frames[s] \in Seq(LabStates)
      /\ frames' = [frames EXCEPT ![s] = Tail(frames[s])]
      /\ Show(Head(frames[s]), "frame") /\ UNCHANGED <<lab, entry, source, requests, answers>>
  BY DEF OnFrame
<1>2. /\ Len(frames[s]) \in Nat \ {0} /\ Head(frames[s]) = frames[s][1]
      /\ Tail(frames[s]) \in Seq(LabStates) /\ Len(Tail(frames[s])) = Len(frames[s]) - 1
      /\ \A i \in 1..Len(Tail(frames[s])) : Tail(frames[s])[i] = frames[s][i + 1]
      /\ frames[s][1] \in LabStates
  BY <1>1, EmptySeq, LenProperties, HeadTailProperties, ElementOfSeq
<1>3. frames[s][1].version <= lab.version
  <2>1. 1 \in 1..Len(frames[s]) /\ 1 \in Nat
    BY <1>2
  <2> QED BY <2>1 DEF NotNewer
<1>4. PICK new \in LabStates : new = frames[s][1]
  BY <1>2
<1>5. /\ view' = new /\ viewFrom' = "frame" /\ newest' \in 0..MaxVersion
      /\ newest' <= lab'.version /\ newest <= newest' /\ new.version <= newest'
  BY <1>1, <1>2, <1>3, <1>4, ShowKeeps
<1>6. PageTypes'
  BY <1>1, <1>2, <1>5
<1>7. ListBounded' /\ Followed'
  BY <1>1 DEF ListBounded, Listed, Followed
<1>8. \A q \in Streams : frames'[q] = IF q = s THEN Tail(frames[s]) ELSE frames[q]
  BY <1>1
<1>9. NotNewer'
  <2>1. ASSUME NEW q \in Streams, NEW i \in Nat, i \in 1..Len(frames'[q])
        PROVE  frames'[q][i].version <= lab.version
    <3>1. CASE q # s
      BY <1>8, <2>1, <3>1 DEF NotNewer
    <3>2. CASE q = s
      <4>1. frames'[s][i] = frames[s][i + 1] /\ i + 1 \in 1..Len(frames[s]) /\ i + 1 \in Nat
        <5>1. frames'[s] = Tail(frames[s]) /\ i \in 1..Len(Tail(frames[s]))
          BY <1>8, <2>1, <3>2
        <5>2. frames'[s][i] = frames[s][i + 1]
          BY <1>2, <5>1
        <5>3. i \in 1..Len(frames[s]) - 1
          BY <1>2, <5>1
        <5> QED BY <1>2, <5>2, <5>3
      <4> QED BY <3>2, <4>1 DEF NotNewer
    <3> QED BY <3>1, <3>2
  <2> QED BY <1>1, <1>5, <2>1 DEF NotNewer
<1>10. ShownOrComing'
  <2> SUFFICES ASSUME NEW q \in Streams, source = q
               PROVE  IF frames'[q] = <<>>
                      THEN newest' = lab.version /\ view' = lab
                      ELSE frames'[q][Len(frames'[q])] = lab
    BY <1>1 DEF ShownOrComing
  <2>1. q = s /\ frames'[s] = Tail(frames[s]) /\ frames[s][Len(frames[s])] = lab
    BY <1>1, <1>8 DEF ShownOrComing
  <2>2. CASE Tail(frames[s]) = <<>>
    <3>0. PICK n, t : n = Len(frames[s]) /\ t = Tail(frames[s])
      OBVIOUS
    <3>1. n \in Nat \ {0} /\ Len(t) = n - 1 /\ t = <<>>
      BY <1>2, <2>2, <3>0
    <3>4. Len(t) = 0
      BY <3>1
    <3>5. n = 1
      BY <3>1, <3>4
    <3>2. new = lab
      BY <1>4, <2>1, <3>0, <3>5
    <3>3. newest' = lab.version
      BY <1>1, <1>5, <3>2 DEF LabStates
    <3> QED BY <1>5, <2>1, <2>2, <3>2, <3>3
  <2>3. CASE Tail(frames[s]) # <<>>
    <3>1. Len(Tail(frames[s])) # 0
      BY <1>2, <2>3, EmptySeq
    <3>2. Tail(frames[s])[Len(Tail(frames[s]))] = frames[s][Len(frames[s])]
      BY <1>2, <3>1
    <3> QED BY <2>1, <2>3, <3>2
  <2> QED BY <2>2, <2>3
<1>11. StartPending'
  BY <1>5 DEF StartPending
<1> QED BY <1>6, <1>7, <1>9, <1>10, <1>11

(* A connection is made, refused, broken or closed.                        *)
LEMMA ListedLater ==
  ASSUME ListBounded, NEW s \in Streams, NEW new, entry' = [entry EXCEPT ![s] = new],
         entry \in [Streams -> {"unused", "open", "gone", "unheard", "removed", "refused"}],
         \/ Cardinality(Listed) < MaxSseClients
         \/ s \in Listed
         \/ new \notin {"open", "gone", "unheard"}
  PROVE  ListBounded'
<1>1. Listed' \subseteq Listed \cup {s} /\ (new \notin {"open", "gone", "unheard"} => s \notin Listed')
  BY DEF Listed
<1>2. IsFiniteSet(Listed) /\ Cardinality(Listed) \in Nat /\ MaxSseClients \in Nat
  BY LabBounds, FS_CardinalityType DEF ListBounded, LabConstants
<1>3. CASE Listed' \subseteq Listed
  BY <1>2, <1>3, FS_Subset, FS_CardinalityType DEF ListBounded
<1>4. CASE ~(Listed' \subseteq Listed)
  <2>1. s \notin Listed /\ Cardinality(Listed) < MaxSseClients
    BY <1>1, <1>4
  <2>2. /\ IsFiniteSet(Listed \cup {s})
        /\ Cardinality(Listed \cup {s}) = Cardinality(Listed) + 1
    BY <1>2, <2>1, FS_AddElement
  <2>3. IsFiniteSet(Listed') /\ Cardinality(Listed') <= Cardinality(Listed) + 1
    BY <1>1, <2>2, FS_Subset
  <2>4. Cardinality(Listed') \in Nat
    BY <2>3, FS_CardinalityType
  <2> QED BY <1>2, <2>1, <2>3, <2>4 DEF ListBounded
<1> QED BY <1>3, <1>4

LEMMA StreamKeepsPage ==
  ASSUME PageInv, NEW s \in Streams, StreamStep(s)
  PROVE  PageInv'
<1> USE DEF PageInv, PageTypes
<1>0. StartPending'
  BY DEF StreamStep, Subscribe, SubscribeRefused, SubscribeTooLate, Disconnect, Close, OnFrame,
     Show, StartPending, page
<1>1. CASE OnFrame(s)
  BY <1>1, FrameKeeps
<1>2. CASE Subscribe(s)
  <2>1. /\ source = "none" /\ entry[s] = "unused" /\ Cardinality(Listed) < MaxSseClients
        /\ entry' = [entry EXCEPT ![s] = "open"] /\ frames' = [frames EXCEPT ![s] = <<lab>>]
        /\ source' = s /\ UNCHANGED <<lab, requests, answers, view, viewFrom, newest>>
    BY <1>2 DEF Subscribe
  <2>2. <<lab>> \in Seq(LabStates) /\ Len(<<lab>>) = 1 /\ <<lab>>[1] = lab /\ <<lab>> # <<>>
    OBVIOUS
  <2>3. PageTypes'
    BY <2>1, <2>2
  <2>4. ListBounded'
    BY <2>1, ListedLater
  <2>5. Followed'
    BY <2>1, LabBounds DEF Followed, LabConstants
  <2>6. \A q \in Streams : frames'[q] = IF q = s THEN <<lab>> ELSE frames[q]
    BY <2>1
  <2>7. NotNewer'
    <3>1. ASSUME NEW q \in Streams, NEW i \in Nat, i \in 1..Len(frames'[q])
          PROVE  frames'[q][i].version <= lab.version
      <4>1. CASE q = s
        BY <2>2, <2>6, <3>1, <4>1 DEF LabStates
      <4>2. CASE q # s
        BY <2>6, <3>1, <4>2 DEF NotNewer
      <4> QED BY <4>1, <4>2
    <3> QED BY <2>1, <3>1 DEF NotNewer
  <2>8. ShownOrComing'
    BY <2>1, <2>2, <2>6 DEF ShownOrComing
  <2> QED BY <1>0, <2>3, <2>4, <2>5, <2>7, <2>8
<1>3. CASE Disconnect(s)
  <2>1. /\ entry[s] = "open" /\ entry' = [entry EXCEPT ![s] = "gone"]
        /\ frames' = [frames EXCEPT ![s] = <<>>] /\ source' = "none"
        /\ UNCHANGED <<lab, requests, answers, view, viewFrom, newest>>
    BY <1>3 DEF Disconnect
  <2>2. <<>> \in Seq(LabStates) /\ Len(<<>>) = 0
    BY EmptySeq
  <2>3. PageTypes'
    BY <2>1, <2>2
  <2>4. s \in Listed
    BY <2>1 DEF Listed
  <2>5. ListBounded'
    BY <2>1, <2>4, ListedLater
  <2>6. Followed'
    BY <2>1, LabBounds DEF Followed, LabConstants
  <2>7. \A q \in Streams : frames'[q] = IF q = s THEN <<>> ELSE frames[q]
    BY <2>1
  <2>8. NotNewer'
    BY <2>1, <2>2, <2>7 DEF NotNewer
  <2>9. ShownOrComing'
    BY <2>1, LabBounds DEF ShownOrComing, LabConstants
  <2> QED BY <1>0, <2>3, <2>5, <2>6, <2>8, <2>9
<1>4. CASE SubscribeRefused(s) \/ SubscribeTooLate(s) \/ Close(s)
  <2>1. PICK new \in {"refused", "unheard", "removed"} :
          /\ entry' = [entry EXCEPT ![s] = new] /\ entry[s] # "open"
          /\ \/ Cardinality(Listed) < MaxSseClients
             \/ s \in Listed
             \/ new \notin {"open", "gone", "unheard"}
    BY <1>4 DEF SubscribeRefused, SubscribeTooLate, Close, Listed
  <2>2. /\ UNCHANGED <<lab, frames, requests, answers, view, viewFrom, newest>>
        /\ source' = source \/ (source = "none" /\ source' = "failed")
    BY <1>4 DEF SubscribeRefused, SubscribeTooLate, Close, page
  <2>3. PageTypes'
    BY <2>1, <2>2
  <2>4. ListBounded'
    BY <2>1, ListedLater
  <2>5. Followed'
    BY <2>1, <2>2, LabBounds DEF Followed, LabConstants
  <2>6. NotNewer'
    BY <2>2 DEF NotNewer
  <2>7. ShownOrComing'
    BY <2>2, LabBounds DEF ShownOrComing, LabConstants
  <2> QED BY <1>0, <2>3, <2>4, <2>5, <2>6, <2>7
<1> QED BY <1>1, <1>2, <1>3, <1>4 DEF StreamStep

LEMMA ChangedTyped ==
  ASSUME PageInv, NEW pid \in BOOLEAN, MayChange
  PROVE  Changed(pid) \in LabStates /\ Changed(pid).version = lab.version + 1
  BY LabBounds DEF LabConstants, Changed, MayChange, LabStates, PageInv, PageTypes

LEMMA PageInvStep == PageInv /\ [PageNext]_pageVars => PageInv'
<1> SUFFICES ASSUME PageInv, [PageNext]_pageVars PROVE PageInv'
  OBVIOUS
<1>1. ASSUME NEW k \in Kinds, NEW answer \in LabStates, Reply(k, answer)
      PROVE  /\ requests' \in [Kinds -> {"no", "sent", "answered", "refused"}]
             /\ answers' \in [Kinds -> LabStates]
             /\ \A j \in Kinds : answers'[j] \in {answers[j], answer}
             /\ requests["start"] # "no" => requests'["start"] # "no"
  BY <1>1 DEF Reply, Kinds, PageInv, PageTypes
<1>2. CASE Change
  <2>1. PICK pid \in BOOLEAN : Broadcast(Changed(pid))
    BY <1>2 DEF Change
  <2>2. MayChange /\ UNCHANGED <<entry, page, requests, answers>>
    BY <1>2 DEF Change
  <2>3. PICK new : new = Changed(pid)
    OBVIOUS
  <2>4. new \in LabStates /\ new.version = lab.version + 1
    BY <2>2, <2>3, ChangedTyped
  <2> QED BY <2>1, <2>2, <2>3, <2>4, BroadcastKeeps DEF PageInv, PageTypes
<1>3. ASSUME NEW k \in Kinds, MayChange, Broadcast(Changed(TRUE)), Reply(k, Changed(TRUE)),
             UNCHANGED <<entry, page>>
      PROVE  PageInv'
  <2>1. PICK new : new = Changed(TRUE)
    OBVIOUS
  <2>2. new \in LabStates /\ new.version = lab.version + 1
    BY <1>3, <2>1, ChangedTyped
  <2> QED BY <1>1, <1>3, <2>1, <2>2, BroadcastKeeps
<1>4. ASSUME UNCHANGED <<lab, entry, frames, page>>,
             requests' \in [Kinds -> {"no", "sent", "answered", "refused"}],
             answers' \in [Kinds -> LabStates],
             \A k \in Kinds : answers'[k] \in {answers[k], lab},
             requests["start"] # "no" => requests'["start"] # "no"
      PROVE  PageInv'
  <2>1. \A k \in Kinds : answers'[k].version <= lab.version
    <3>1. lab.version <= lab.version
      BY DEF PageInv, PageTypes, LabStates
    <3> QED BY <1>4, <3>1 DEF PageInv, NotNewer
  <2> QED BY <1>4, <2>1 DEF PageInv, PageTypes, ListBounded, Listed, Followed, NotNewer,
          ShownOrComing, StartPending, page
<1>5. CASE HandleStart
  BY <1>3, <1>5 DEF HandleStart, Kinds
<1>6. CASE HandleBoot
  BY <1>1, <1>4, <1>6 DEF HandleBoot, Kinds, PageInv, PageTypes
<1>7. CASE HandleAction
  <2>1. CASE UNCHANGED <<lab, frames>> /\ Reply("action", lab)
    BY <1>1, <1>4, <1>7, <2>1 DEF HandleAction, Kinds, PageInv, PageTypes
  <2>2. CASE MayChange /\ Broadcast(Changed(TRUE)) /\ Reply("action", Changed(TRUE))
    BY <1>3, <1>7, <2>2 DEF HandleAction, Kinds
  <2> QED BY <1>7, <2>1, <2>2 DEF HandleAction
<1>8. CASE MemoryAction \/ \E k \in Kinds : Refuse(k)
  <2>1. /\ UNCHANGED <<lab, entry, frames, page, answers>>
        /\ requests' \in [Kinds -> {"no", "sent", "answered", "refused"}]
        /\ requests["start"] # "no" => requests'["start"] # "no"
    BY <1>8 DEF MemoryAction, Refuse, Kinds, PageInv, PageTypes
  <2> QED BY <1>4, <2>1 DEF PageInv, PageTypes
<1>12. CASE StartMemory
  <2> USE <1>12 DEF StartMemory, PageInv
  <2>1. PageTypes' /\ StartPending'
    BY DEF PageTypes, StartPending, Kinds
  <2>2. ListBounded' /\ Followed' /\ NotNewer'
    BY DEF ListBounded, Listed, Followed, NotNewer
  <2>3. ShownOrComing'
    BY DEF ShownOrComing
  <2> QED BY <2>1, <2>2, <2>3
<1>9. ASSUME NEW k \in Kinds, OnAnswer(k) \/ OnRefusal(k) PROVE PageInv'
  BY <1>9, AnswerKeeps
<1>10. ASSUME NEW s \in Streams, StreamStep(s) PROVE PageInv'
  BY <1>10, StreamKeepsPage
<1>11. CASE UNCHANGED pageVars
  BY <1>4, <1>11 DEF pageVars, page, PageInv, PageTypes
<1> QED BY <1>2, <1>5, <1>6, <1>7, <1>8, <1>9, <1>10, <1>11, <1>12 DEF PageNext

LEMMA PageInvariant == PageSpec => []PageInv
  BY PageInvInit, PageInvStep, PTL DEF PageSpec

(* For any number of connections and changes: when nothing is on its way   *)
(* to the page, it has been shown the laboratory's last state, and shows   *)
(* an older one only after an answer or a refused start replaced it.       *)
THEOREM ViewsUpToDate == PageSpec => []ViewUpToDate
<1>1. PageInv => ViewUpToDate
  BY DEF PageInv, ShownOrComing, StartPending, ViewUpToDate, Quiet, Kinds
<1> QED BY <1>1, PageInvariant, PTL

-----------------------------------------------------------------------------
(* A step of Routes is a step of one component and leaves the others, so   *)
(* that what holds of each alone holds of the three together.              *)
LEMMA RoutesParts == RoutesSpec => Spec /\ PageSpec /\ RunPageSpec /\ [](part \in Parts)
<1>1. RoutesInit => Init /\ PageInit /\ RunPageInit /\ part \in Parts
  BY DEF RoutesInit
<1>2. [RoutesNext]_routesVars =>
        [Next]_vars /\ [PageNext]_pageVars /\ [RunPageNext]_runVars /\ UNCHANGED part
  BY DEF RoutesNext, LimiterStep, MemoryStep, RunStep, routesVars
<1>3. part \in Parts /\ UNCHANGED part => (part \in Parts)'
  OBVIOUS
<1> QED BY <1>1, <1>2, <1>3, PTL DEF RoutesSpec, Spec, PageSpec, RunPageSpec

(* The variables of the limiter, of the event streams and of the trace     *)
(* stay in their types, and never more than maxSseClients connections are  *)
(* listed, whatever breaks, is refused or comes too late.                  *)
THEOREM RoutesTyped == RoutesSpec => []RoutesTypeOK
<1>1. IInv => TypeOK
  BY DEF IInv
<1>2. PageInv => PageTypeOK
  BY DEF PageInv, PageTypes, ListBounded, PageTypeOK
<1>3. TraceInv => RunPageTypeOK
  BY DEF TraceInv
<1> QED BY <1>1, <1>2, <1>3, RoutesParts, Invariant, PageInvariant, TraceInvariant, PTL
        DEF RoutesTypeOK

(* What the page was shown is what the laboratory is in, also beside the   *)
(* limiter and the runs of demos.                                          *)
THEOREM RoutesKeepPromises ==
  RoutesSpec => /\ []AnyWindowBounded /\ RetryAfterSuffices
                /\ []ViewUpToDate /\ []TraceOfOneRun
  BY RoutesParts, WindowsBounded, RetryServed, ViewsUpToDate, PageShowsOneRun, PTL
=============================================================================
