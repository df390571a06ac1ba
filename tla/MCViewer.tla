------------------------------- MODULE MCViewer -------------------------------
(***************************************************************************)
(* The viewer's pages on small instances.                                  *)
(***************************************************************************)
EXTENDS Viewer, TLC

CONSTANTS u1, u2, x, y, s1, s2, s3, k1, k2

Symmetry ==
    Permutations({k1, k2}) \union Permutations({x, y}) \union Permutations({u1, u2})

(* Only s3 was started with an API key, and with another credential kind.  *)
MCAuthOf == s1 :> "a" @@ s2 :> "a" @@ s3 :> "b"

(* A hook between two completions, and a probe between two hooks.          *)
MCMixes == {<<"completion", "hook", "completion">>, <<"hook", "probe", "hook">>}

(* Only the longer thread comes with a system prompt and tools.            *)
M(role, kinds) == [role |-> role, kinds |-> kinds]
MCLong == <<M("assistant", {"text", "tool"}), M("user", {"text"}),
            M("assistant", {"tool"})>>
MCShort == <<M("assistant", {"tool"}), M("user", {"text", "tool"})>>
MCThread == {MCLong, MCShort}
MCCaptured == {<<MCLong, {"system", "tools"}>>, <<MCShort, {}>>}

(* Messages 3 and 4 have one key. *)
MCKeyOf == <<1, 2, 3, 3, 4>>
==============================================================================
