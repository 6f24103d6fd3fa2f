-------------------------- MODULE MCStreamLifecycle --------------------------
(* Instances of StreamLifecycle: one network stream n1 and one file stream f1. *)
EXTENDS StreamLifecycle, TLC
CONSTANTS n1, f1, c1, c2
CallerSymmetry == Permutations(Caller)
=============================================================================
