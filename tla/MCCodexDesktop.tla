--------------------------- MODULE MCCodexDesktop ---------------------------
(* Model values for the configurations of CodexDesktop. *)
EXTENDS CodexDesktop, TLC

Symmetry == Permutations(Req) \union Permutations(Text)
==============================================================================
