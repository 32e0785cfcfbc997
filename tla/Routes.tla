-------------------------------- MODULE Routes --------------------------------
(***************************************************************************)
(* What stands between a page and the two laboratories: the rate limiter   *)
(* of every route (RateLimiter), the event streams of the memory           *)
(* laboratory (MemoryPage) and the stream of a demo run (RunPage).         *)
(*                                                                         *)
(* The three share no state: to its callers a refusal of the limiter is    *)
(* one more refused request.  One of them is followed at a time.           *)
(***************************************************************************)
EXTENDS RateLimiter, MemoryPage, RunPage

CONSTANT Parts  \* those to follow

VARIABLE part   \* the one that is followed

routesVars == <<part, vars, pageVars, runVars>>

(* Each component's variables have their types, and no more than           *)
(* maxSseClients event streams are listed.                                 *)
RoutesTypeOK == part \in Parts /\ TypeOK /\ PageTypeOK /\ RunPageTypeOK

RoutesInit == part \in Parts /\ Init /\ PageInit /\ RunPageInit

LimiterStep ==
  /\ part = "limiter" /\ Next
  /\ UNCHANGED <<part, pageVars, runVars>>
MemoryStep ==
  /\ part = "memory" /\ PageNext
  /\ UNCHANGED <<part, vars, runVars>>
RunStep ==
  /\ part = "run" /\ RunPageNext
  /\ UNCHANGED <<part, vars, pageVars>>

RoutesNext == LimiterStep \/ MemoryStep \/ RunStep

(* Only the streams of demo runs owe their page anything.                  *)
RoutesSpec ==
  /\ RoutesInit /\ [][RoutesNext]_routesVars
  /\ part = "run" => RunPageFairness
=============================================================================
