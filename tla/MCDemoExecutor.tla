-------------------------- MODULE MCDemoExecutor --------------------------
(* Instances of DemoExecutor for TLC.                                      *)
EXTENDS DemoExecutor, TLC

Symmetry == Permutations(Jobs)
=============================================================================
