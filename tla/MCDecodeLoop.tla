----------------------------- MODULE MCDecodeLoop -----------------------------
(* Instances of DecodeLoop: two pictures, and rules that come and go. *)
EXTENDS DecodeLoop, TLC
CONSTANTS a, b
Every(n) == [kind |-> "interval", gap |-> n, force |-> FALSE]
Scene == [kind |-> "scene", gap |-> 0, force |-> FALSE]
Still(force) == [kind |-> "static", gap |-> 0, force |-> force]

\* A static rule, a stricter one, and one of each kind.
Lists == {<<<<Still(FALSE)>>>>, <<<<Still(FALSE), Every(2)>>>>, <<<<Still(TRUE), Every(2)>>, <<Scene>>>>}
OneInterval == {<<<<Every(2)>>>>}
PictureSymmetry == Permutations(Picture)
=============================================================================
