---------------------------- MODULE MCEventQueries ----------------------------
(* Model values for the configuration of EventQueries: two events of one   *)
(* session, read while they are written and deleted.                       *)
EXTENDS EventQueries, TLC

CONSTANTS e1, e2, s1

MCEvent == {e1, e2}
MCSid == {s1}
MCSessionOf == (e1 :> s1) @@ (e2 :> s1)

Symmetry == Permutations(MCEvent) \union Permutations(Req)
==============================================================================
