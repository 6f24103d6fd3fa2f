---------------------------- MODULE MCTaskEngine ----------------------------
(* Instances of TaskEngine: t1 called by one client at a time, t2 by several. *)
EXTENDS TaskEngine, TLC
CONSTANTS t1, t2, c1, c2
CallerSymmetry == Permutations(Caller)
=============================================================================
