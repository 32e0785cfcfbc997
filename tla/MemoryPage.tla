------------------------------ MODULE MemoryPage ------------------------------
(***************************************************************************)
(* The event streams of the memory laboratory and a page that follows one: *)
(* createEventStream and broadcast of src/memory-lab.js, the routes under  *)
(* src/app/api/memory, and startMemory, memoryAction, the boot effect and  *)
(* the EventSource of src/client/App.jsx.                                  *)
(*                                                                         *)
(* The state of the laboratory is a version and whether a process runs;    *)
(* MemoryLab shows that every change of it is broadcast.  Frames of one    *)
(* stream arrive in order, the answers to requests at any moment.          *)
(*                                                                         *)
(* No chapter among RUNTIME_LAB_DEMO_IDS (src/client/App.jsx:20-25) shows  *)
(* the controls of the memory laboratory, so that today's pages send no    *)
(* start and no action.  The callbacks are there and are modelled; the     *)
(* answer of the boot effect races with frames on each of those chapters.  *)
(***************************************************************************)
EXTENDS Naturals, Sequences, FiniteSets

CONSTANTS
  Streams,       \* the connections that can be made
  MaxSseClients, \* api.maxSseClients
  MaxVersion     \* bound: changes of the laboratory's state

ASSUME PageAssumption ==
  /\ MaxSseClients \in Nat \ {0} /\ MaxVersion \in Nat
  /\ {"none", "failed"} \cap Streams = {}

Kinds == {"boot", "start", "action"}

VARIABLES
  lab,      \* memoryLab.state
  entry,    \* what became of each connection, and of its client in lab.clients
  frames,   \* what is on its way on each connection
  source,   \* the connection of the page's EventSource, or "none", or "failed"
  requests, \* the page's requests, at most one of a kind under way
  answers,  \* what the server answered them
  view,     \* the page's memory, but for its status
  viewFrom, \* what set it last; "starting" is a status the page gave itself
  newest    \* history: the newest version that was put into view

pageVars == <<lab, entry, frames, source, requests, answers, view, viewFrom, newest>>

LabStates == [version : 0..MaxVersion, pid : BOOLEAN]
DefaultMemory == [version |-> 0, pid |-> FALSE]
Listed == {s \in Streams : entry[s] \in {"open", "gone", "unheard"}}

PageTypeOK ==
  /\ lab \in LabStates /\ view \in LabStates
  /\ entry \in [Streams -> {"unused", "open", "gone", "unheard", "removed", "refused"}]
  /\ Cardinality(Listed) <= MaxSseClients
  /\ \A s \in Streams : frames[s] \in Seq(LabStates)
  /\ source \in Streams \cup {"none", "failed"}
  /\ requests \in [Kinds -> {"no", "sent", "answered", "refused"}]
  /\ answers \in [Kinds -> LabStates]
  /\ viewFrom \in {"default", "starting", "frame", "answer", "refusal"}
  /\ newest \in 0..MaxVersion

PageInit ==
  /\ lab = DefaultMemory
  /\ entry = [s \in Streams |-> "unused"]
  /\ frames = [s \in Streams |-> <<>>]
  /\ source = "none"
  /\ requests = [k \in Kinds |-> IF k = "boot" THEN "sent" ELSE "no"]
  /\ answers = [k \in Kinds |-> DefaultMemory]
  /\ view = DefaultMemory
  /\ viewFrom = "default"
  /\ newest = 0

page == <<source, view, viewFrom, newest>>

-----------------------------------------------------------------------------
(* The laboratory changes its state and broadcasts it.                     *)
Broadcast(new) ==
  /\ lab' = new
  /\ frames' = [s \in Streams |-> IF entry[s] = "open" THEN Append(frames[s], new)
                                  ELSE frames[s]]

Changed(pid) == [version |-> lab.version + 1, pid |-> pid]
MayChange == lab.version < MaxVersion

(* A sample, an exit, or what another page asked for.                      *)
Change ==
  /\ MayChange
  /\ \E pid \in BOOLEAN : Broadcast(Changed(pid))
  /\ UNCHANGED <<entry, page, requests, answers>>

-----------------------------------------------------------------------------
(* createEventStream, called for a request of the page's EventSource.      *)
SubscribeBare(s) == \* mutant: no state frame on a new stream
  /\ source = "none" /\ entry[s] = "unused"
  /\ Cardinality(Listed) < MaxSseClients
  /\ entry' = [entry EXCEPT ![s] = "open"]
  /\ source' = s
  /\ UNCHANGED <<lab, frames, requests, answers, view, viewFrom, newest>>

Subscribe(s) ==
  /\ source = "none" /\ entry[s] = "unused"
  /\ Cardinality(Listed) < MaxSseClients
  /\ entry' = [entry EXCEPT ![s] = "open"]
  /\ frames' = [frames EXCEPT ![s] = <<lab>>]
  /\ source' = s
  /\ UNCHANGED <<lab, requests, answers, view, viewFrom, newest>>

(* The answer 503 ends an EventSource for good.                            *)
SubscribeRefused(s) ==
  /\ source = "none" /\ entry[s] = "unused"
  /\ Cardinality(Listed) >= MaxSseClients
  /\ entry' = [entry EXCEPT ![s] = "refused"]
  /\ source' = "failed"
  /\ UNCHANGED <<lab, frames, requests, answers, view, viewFrom, newest>>

(* The connection was closed before the handler ran: its signal is aborted *)
(* already and will not report it again; the body may never be read.       *)
SubscribeTooLate(s) ==
  /\ source = "none" /\ entry[s] = "unused"
  /\ Cardinality(Listed) < MaxSseClients
  /\ entry' = [entry EXCEPT ![s] = "unheard"]
  /\ UNCHANGED <<lab, frames, page, requests, answers>>

(* A connection breaks; the EventSource makes another.                     *)
Disconnect(s) ==
  /\ entry[s] = "open"
  /\ entry' = [entry EXCEPT ![s] = "gone"]
  /\ frames' = [frames EXCEPT ![s] = <<>>]
  /\ source' = "none"
  /\ UNCHANGED <<lab, requests, answers, view, viewFrom, newest>>

(* close(): by the abort of the request, or cancel() of the stream.        *)
Close(s) ==
  /\ entry[s] = "gone"
  /\ entry' = [entry EXCEPT ![s] = "removed"]
  /\ UNCHANGED <<lab, frames, page, requests, answers>>

-----------------------------------------------------------------------------
(* The page: what it shows, and where from.                                *)
Show(new, from) ==
  /\ view' = new
  /\ viewFrom' = from
  /\ newest' = IF new.version > newest THEN new.version ELSE newest

OnFrame(s) ==
  /\ source = s /\ frames[s] # <<>>
  /\ Show(Head(frames[s]), "frame")
  /\ frames' = [frames EXCEPT ![s] = Tail(@)]
  /\ UNCHANGED <<lab, entry, source, requests, answers>>

(* The page shows "starting", which is no state of the laboratory, until a *)
(* frame or an answer comes.                                               *)
StartMemory ==
  /\ ~view.pid /\ requests["start"] = "no"
  /\ requests' = [requests EXCEPT !["start"] = "sent"]
  /\ viewFrom' = "starting"
  /\ UNCHANGED <<lab, entry, frames, source, answers, view, newest>>

MemoryAction ==
  /\ requests["action"] = "no"
  /\ requests' = [requests EXCEPT !["action"] = "sent"]
  /\ UNCHANGED <<lab, entry, frames, page, answers>>

Reply(k, answer) ==
  /\ requests' = [requests EXCEPT ![k] = "answered"]
  /\ answers' = [answers EXCEPT ![k] = answer]

(* The routes.  Any of them may refuse: the limit of requests, a body that *)
(* is too large, no connection.                                            *)
HandleBoot ==
  /\ requests["boot"] = "sent"
  /\ Reply("boot", lab)
  /\ UNCHANGED <<lab, entry, frames, page>>

HandleStart ==
  /\ requests["start"] = "sent"
  /\ ~lab.pid /\ MayChange
  /\ Broadcast(Changed(TRUE))
  /\ Reply("start", Changed(TRUE))
  /\ UNCHANGED <<entry, page>>

HandleAction ==
  /\ requests["action"] = "sent"
  /\ lab.pid
  /\ \/ UNCHANGED <<lab, frames>> /\ Reply("action", lab)
     \/ MayChange /\ Broadcast(Changed(TRUE)) /\ Reply("action", Changed(TRUE))
  /\ UNCHANGED <<entry, page>>

Refuse(k) ==
  /\ requests[k] = "sent"
  /\ requests' = [requests EXCEPT ![k] = "refused"]
  /\ UNCHANGED <<lab, entry, frames, page, answers>>

OnAnswer(k) ==
  /\ requests[k] = "answered"
  /\ requests' = [requests EXCEPT ![k] = "no"]
  /\ Show(answers[k], "answer")
  /\ answers' = [answers EXCEPT ![k] = DefaultMemory]
  /\ UNCHANGED <<lab, entry, frames, source>>

(* Only a start that was refused resets what the page shows.               *)
OnRefusal(k) ==
  /\ requests[k] = "refused"
  /\ requests' = [requests EXCEPT ![k] = "no"]
  /\ IF k = "start" THEN Show(DefaultMemory, "refusal") ELSE UNCHANGED <<view, viewFrom, newest>>
  /\ UNCHANGED <<lab, entry, frames, source, answers>>

-----------------------------------------------------------------------------
StreamStep(s) ==
  \/ Subscribe(s) \/ SubscribeRefused(s) \/ SubscribeTooLate(s)
  \/ Disconnect(s) \/ Close(s) \/ OnFrame(s)

PageNext ==
  \/ Change \/ StartMemory \/ MemoryAction \/ HandleBoot \/ HandleStart \/ HandleAction
  \/ \E k \in Kinds : Refuse(k) \/ OnAnswer(k) \/ OnRefusal(k)
  \/ \E s \in Streams : StreamStep(s)

PageSpec == PageInit /\ [][PageNext]_pageVars

-----------------------------------------------------------------------------
(* When nothing is on its way to the page, it was shown the last state of  *)
(* the laboratory; and if it shows anything else, it is because an answer  *)
(* that newer frames had overtaken, or the reset of a refused start,       *)
(* replaced it (src/client/App.jsx:163, :341, :345, :357).  It is never    *)
(* left at its own "starting".                                             *)
Quiet ==
  /\ source \in Streams /\ frames[source] = <<>>
  /\ \A k \in Kinds : requests[k] = "no"

ViewUpToDate ==
  Quiet =>
    /\ newest = lab.version
    /\ \/ viewFrom \in {"answer", "refusal"}
       \/ view = lab /\ viewFrom # "starting"
=============================================================================
