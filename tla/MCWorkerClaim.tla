---------------------------- MODULE MCWorkerClaim ----------------------------
(* Instances of WorkerClaim: workers w1 and w2, streams numbered from 1. *)
EXTENDS WorkerClaim, TLC
CONSTANTS w1, w2
WorkerSymmetry == Permutations(Worker)
=============================================================================
