------------------------------ MODULE HookEvents ------------------------------
(***************************************************************************)
(* The client hook event registry: the table client_hook_events and the    *)
(* SQL statements that change it.  A client and one of its event names are *)
(* one hook here.                                                          *)
(***************************************************************************)
CONSTANT Hook

VARIABLE hooks   \* hook -> its row of client_hook_events

HookRow == [source : {"none", "seed", "user"}, enabled : BOOLEAN]
NoHook  == [source |-> "none", enabled |-> FALSE]

HooksTypeOK == hooks \in [Hook -> HookRow]
HooksInit == hooks = [h \in Hook |-> NoHook]

Listed(h) == hooks[h].source # "none"

(* What a launch wires into its agent. *)
Wired == {h \in Hook : Listed(h) /\ hooks[h].enabled}

(* A new event is the user's; one that is there is enabled, and a built-in *)
(* stays a built-in.                                                       *)
AddHookEvent(h) ==
    hooks' = [hooks EXCEPT ![h] =
        IF Listed(h) THEN [@ EXCEPT !.enabled = TRUE]
        ELSE [source |-> "user", enabled |-> TRUE]]

SetHookEventEnabled(h, on) == hooks' = [hooks EXCEPT ![h].enabled = on]

DeleteHookEvent(h) == hooks' = [hooks EXCEPT ![h] = NoHook]

(* Mutant: INSERT OR REPLACE. *)
SeedHookReplaces(h) ==
    hooks' = [hooks EXCEPT ![h] = [source |-> "seed", enabled |-> TRUE]]

(* INSERT OR IGNORE: a row the user has touched or added stays as it is. *)
SeedHook(h) ==
    hooks' = [hooks EXCEPT ![h] =
        IF Listed(h) THEN @ ELSE [source |-> "seed", enabled |-> TRUE]]
==============================================================================
