----------------------------- MODULE MCHotSwap -----------------------------
(* Instances of HotSwap for TLC. *)
EXTENDS HotSwap, TLC

AllThreads == Workers \cup {Main}
MainOnly == {Main}

Symmetry == Permutations(Workers) \cup Permutations(Apps)
=============================================================================
