--------------------------- MODULE MCMemoryLab ---------------------------
(* Instances of MemoryLab for TLC.  One unit stands for 64 MB or more: the *)
(* allocation step 2 does not divide the limit 3.  Liveness needs fewer    *)
(* states: there one block reaches the limit.                              *)
EXTENDS MemoryLab

StepDefault == [allocationMb |-> 2, limitMb |-> 3]
BlockDefault == [allocationMb |-> 3, limitMb |-> 3]
=============================================================================
