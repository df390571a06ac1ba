----------------------------- MODULE MCCompaction -----------------------------
(* Model values for the configuration of Compaction: instants within two   *)
(* seconds, with fractions of two binary digits, and three completions: a  *)
(* long one, one with its summary, and one that could not be parsed.       *)
EXTENDS Compaction

CONSTANTS s0, s1    \* a short response, a summary

Completes(parsed, size, says, holds) ==
    [parsed |-> parsed, size |-> size, says |-> says, holds |-> holds]

MCShape == {Completes(TRUE, 8, s1, {}), Completes(TRUE, 2, s0, {s1}),
            Completes(FALSE, 0, s0, {})}
==============================================================================
