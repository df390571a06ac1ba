------------------------------ MODULE MCGateway ------------------------------
(* Gateway on small instances.  Goroutines and session ids are             *)
(* interchangeable, so a run that checks no liveness may use symmetry.     *)
EXTENDS Gateway, TLC

Symmetry == Permutations(Req) \union Permutations(Sid)
==============================================================================
