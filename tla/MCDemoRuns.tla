---------------------------- MODULE MCDemoRuns ----------------------------
(* Instances of DemoRuns for TLC.                                          *)
EXTENDS DemoRuns, TLC

CONSTANTS r1, k1, k2

(* The first request and the others come from different clients.           *)
TwoClients == [j \in Jobs |-> IF j = r1 THEN k1 ELSE k2]
AlikeRequests == Permutations(Jobs \ {r1})
=============================================================================
