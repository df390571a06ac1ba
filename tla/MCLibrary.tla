------------------------------ MODULE MCLibrary ------------------------------
(* Two versions of the program: the second adds a built-in case and a      *)
(* default hook event to those of the first.                               *)
EXTENDS Library, TLC

CONSTANTS v1, v2, case1, case2, hook1, hook2

MCSeedsOf == v1 :> {case1} @@ v2 :> {case1, case2}
MCDefaultsOf == v1 :> {hook1} @@ v2 :> {hook1, hook2}

Symmetry == Permutations(Req)
==============================================================================
