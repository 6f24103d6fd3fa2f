------------------------------ MODULE MCStreamApi ------------------------------
(* StreamApi with requests that are interchangeable. *)
EXTENDS StreamApi, TLC

Interchangeable == Permutations(Client)
=============================================================================
