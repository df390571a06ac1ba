---------------------------- MODULE MCTraceStore ----------------------------
(* Model values for the configurations of TraceStore: two events of one    *)
(* session, one of another.                                                *)
EXTENDS TraceStore, TLC

CONSTANTS e1, e2, e3, s1, s2

MCEvent == {e1, e2, e3}
MCSid == {s1, s2}
MCSessionOf == (e1 :> s1) @@ (e2 :> s1) @@ (e3 :> s2)
MCSmallEvent == {e1}
MCSmallSid == {s1}
MCSmallSessionOf == e1 :> s1

Symmetry == Permutations(Req) \union Permutations({e1, e2})
==============================================================================
