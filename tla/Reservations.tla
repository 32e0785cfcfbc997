----------------------------- MODULE Reservations -----------------------------
(***************************************************************************)
(* The microservices demo (src/microservices-lab.js): a Checkout client    *)
(* and an Inventory service that talk over one TCP connection.             *)
(*                                                                         *)
(* Messages are neither lost nor reordered while the connection stands,    *)
(* but the service may be slow: the client gives up after 2 s, and what it *)
(* sent is handled all the same.                                           *)
(***************************************************************************)
EXTENDS Naturals, Sequences, FiniteSets

(* The messages of microservicesMessaging, in order.  The third is an      *)
(* event, which has no reply.                                              *)
Messages == <<
  [kind |-> "reserve", operationId |-> 42, sku |-> "node-book"],
  [kind |-> "reserve", operationId |-> 42, sku |-> "node-book"],
  [kind |-> "event",   operationId |-> 42, sku |-> "node-book"],
  [kind |-> "reserve", operationId |-> 43, sku |-> "sold-out"] >>

VARIABLES
  sent,         \* messages the client has sent
  answered,     \* what became of each: "none", "reserved", "reused", "refused", "timeout"
  wire,         \* messages on their way to the service
  replies,      \* replies on their way to the client: message and answer
  reservations, \* this.reservations: operation ids, in order of creation
  boundary      \* the demo: "starting", "open", "closing", "closed"

messageVars == <<sent, answered, wire, replies, reservations, boundary>>

Numbers == 1..Len(Messages)
Answers == {"none", "reserved", "reused", "refused", "timeout"}

MessagesTypeOK ==
  /\ sent \in 0..Len(Messages)
  /\ answered \in [Numbers -> Answers]
  /\ wire \in Seq(Numbers)
  /\ replies \in Seq(Numbers \X Answers)
  /\ reservations \in Seq({42, 43})
  /\ boundary \in {"starting", "open", "closing", "closed"}

MessagesInit ==
  /\ sent = 0
  /\ answered = [n \in Numbers |-> "none"]
  /\ wire = <<>>
  /\ replies = <<>>
  /\ reservations = <<>>
  /\ boundary = "starting"

-----------------------------------------------------------------------------
(* microservicesMessaging.                                                 *)

(* listen and connect; or one of them fails and finally closes both.       *)
Open ==
  /\ boundary = "starting"
  /\ boundary' \in {"open", "closing"}
  /\ UNCHANGED <<sent, answered, wire, replies, reservations>>

Awaiting(n) == n = sent /\ answered[n] = "none" /\ Messages[n].kind = "reserve"

Send ==
  /\ boundary = "open"
  /\ sent < Len(Messages)
  /\ \A n \in Numbers : ~Awaiting(n)
  /\ sent' = sent + 1
  /\ wire' = Append(wire, sent + 1)
  /\ UNCHANGED <<answered, replies, reservations, boundary>>

Receive ==
  /\ boundary = "open"
  /\ replies # <<>>
  /\ LET reply == Head(replies) IN
       answered' = IF Awaiting(reply[1]) THEN [answered EXCEPT ![reply[1]] = reply[2]]
                   ELSE answered
  /\ replies' = Tail(replies)
  /\ UNCHANGED <<sent, wire, reservations, boundary>>

(* timeout(2_000): only the last request is in a try of its own.           *)
Timeout(n) ==
  /\ boundary = "open"
  /\ Awaiting(n)
  /\ answered' = [answered EXCEPT ![n] = "timeout"]
  /\ boundary' = IF n = Len(Messages) THEN "open" ELSE "closing"
  /\ UNCHANGED <<sent, wire, replies, reservations>>

(* The emit of an event is awaited with the same timeout: when it fails or  *)
(* is late the demo ends, whether or not the event reaches the service.     *)
EmitFails ==
  /\ boundary = "open"
  /\ sent # 0 /\ Messages[sent].kind = "event"
  /\ boundary' = "closing"
  /\ UNCHANGED <<sent, answered, wire, replies, reservations>>

Finished ==
  /\ boundary = "open"
  /\ sent = Len(Messages) /\ answered[sent] # "none"
  /\ boundary' = "closing"
  /\ UNCHANGED <<sent, answered, wire, replies, reservations>>

(* finally: client.close(), then service.close().                          *)
CloseBoth ==
  /\ boundary = "closing"
  /\ boundary' = "closed"
  /\ wire' = <<>>
  /\ replies' = <<>>
  /\ UNCHANGED <<sent, answered, reservations>>

-----------------------------------------------------------------------------
(* InventoryMessageController.                                             *)
Created == {reservations[i] : i \in 1..Len(reservations)}

Reserve(n, how) ==
  LET command == Messages[n] IN
    \/ /\ command.operationId \in Created
       /\ how = "reused"
       /\ UNCHANGED reservations
    \/ /\ command.operationId \notin Created
       /\ command.sku = "sold-out"
       /\ how = "refused"
       /\ UNCHANGED reservations
    \/ /\ command.operationId \notin Created
       /\ command.sku # "sold-out"
       /\ how = "reserved"
       /\ reservations' = Append(reservations, command.operationId)

OnCommand ==
  /\ boundary \in {"open", "closing"}
  /\ wire # <<>> /\ Messages[Head(wire)].kind = "reserve"
  /\ \E how \in Answers :
       Reserve(Head(wire), how) /\ replies' = Append(replies, <<Head(wire), how>>)
  /\ wire' = Tail(wire)
  /\ UNCHANGED <<sent, answered, boundary>>

OrderCreated ==
  /\ boundary \in {"open", "closing"}
  /\ wire # <<>> /\ Messages[Head(wire)].kind = "event"
  /\ wire' = Tail(wire)
  /\ UNCHANGED <<sent, answered, replies, reservations, boundary>>

MessagesNext ==
  \/ Open \/ Send \/ Receive \/ EmitFails \/ Finished \/ CloseBoth \/ OnCommand \/ OrderCreated
  \/ \E n \in Numbers : Timeout(n)

(* The client goes on; the service may never answer.                       *)
MessagesFairness ==
  /\ WF_messageVars(Open) /\ WF_messageVars(Send) /\ WF_messageVars(Receive)
  /\ WF_messageVars(Finished) /\ WF_messageVars(CloseBoth)
  /\ \A n \in Numbers : WF_messageVars(Timeout(n))

-----------------------------------------------------------------------------
(* A command that is sent again reserves once (microservices-lab.js:49),   *)
(* the repetition is told so, and what is sold out reserves nothing.       *)
ReservedOnce ==
  /\ Len(reservations) = Cardinality(Created)
  /\ 43 \notin Created
  /\ answered[2] \in {"none", "reused", "timeout"}
=============================================================================
