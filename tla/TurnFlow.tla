------------------------------ MODULE TurnFlow ------------------------------
(***************************************************************************)
(* What the session page derives from a session's events: its turns, the   *)
(* request that each hook of the flow graph refers to, and the request a   *)
(* hook's detail links back to.  All of it goes by the texts of the        *)
(* events' times, and a completion is recorded at its end with the time of *)
(* its start.  The client is external: agents that ask for completions and *)
(* run the tools these call for, the first one on the prompts of the user. *)
(***************************************************************************)
EXTENDS Timestamps, FiniteSets

CONSTANTS Agent, Main

VARIABLES
    log,      \* the recorded events
    agent,    \* agent -> what it does, and the start of its last completion
    prompt    \* the last prompt of the user, before its completion starts

flowVars == <<log, agent, prompt>>

(* A time that there may not be is a set, of one instant or none.  cause   *)
(* is history: the completion that really called for the tool, or the one  *)
(* that the prompt really triggered (there is none yet, or there is none). *)
Maybe == {{}} \union {{t} : t \in Instant}
Kinds == {"prompt", "tool", "other", "completion", "probe"}
Events == [at : Instant, kind : Kinds, cause : Maybe]
Record(at, kind, cause) == [at |-> at, kind |-> kind, cause |-> cause]

TurnFlowTypeOK ==
    /\ log \in SUBSET Events
    /\ agent \in [Agent -> [state : {"idle", "ready", "open", "tools"}, at : Maybe]]
    /\ prompt \in Maybe
    /\ \A e, f \in log : e.at = f.at => e = f

FlowInit ==
    /\ log = {} /\ prompt = {}
    /\ agent = [a \in Agent |-> [state |-> "idle", at |-> {}]]
------------------------------------------------------------------------------
(* The client.  The clock goes on from event to event. *)

Stamped == {e.at : e \in log} \union UNION {agent[a].at : a \in Agent}
Tick(t) == \A u \in Stamped : <<u, t>> \in TimeOrder

Prompt(t) ==
    /\ Tick(t) /\ agent[Main].state = "idle"
    /\ log' = log \union {Record(t, "prompt", {})}
    /\ agent' = [agent EXCEPT ![Main].state = "ready"]
    /\ prompt' = {t}

(* An agent other than the first needs no prompt: a subagent, or a request *)
(* the client makes for itself.                                            *)
Begin(a, t) ==
    /\ Tick(t)
    /\ agent[a].state = "ready" \/ (agent[a].state = "idle" /\ a # Main)
    /\ agent' = [agent EXCEPT ![a] = [state |-> "open", at |-> {t}]]
    /\ log' = IF a = Main
              THEN {IF e.at \in prompt THEN [e EXCEPT !.cause = {t}] ELSE e : e \in log}
              ELSE log
    /\ prompt' = IF a = Main THEN {} ELSE prompt

Finish(a, next) ==
    /\ agent[a].state = "open"
    /\ log' = log \union {Record(t, "completion", {}) : t \in agent[a].at}
    /\ agent' = [agent EXCEPT ![a].state = next]
    /\ UNCHANGED prompt

ToolHook(a, next, t) ==
    /\ Tick(t) /\ agent[a].state = "tools"
    /\ log' = log \union {Record(t, "tool", agent[a].at)}
    /\ agent' = [agent EXCEPT ![a].state = next]
    /\ UNCHANGED prompt

(* A probe, or a hook that no request belongs to. *)
Aside(kind, t) ==
    /\ Tick(t) /\ log' = log \union {Record(t, kind, {})}
    /\ UNCHANGED <<agent, prompt>>

FlowNext ==
    \/ \E t \in Instant :
         \/ Prompt(t) \/ Aside("other", t) \/ Aside("probe", t)
         \/ \E a \in Agent :
              Begin(a, t) \/ ToolHook(a, "tools", t) \/ ToolHook(a, "ready", t)
    \/ \E a \in Agent : Finish(a, "tools") \/ Finish(a, "idle")

FlowSpec == FlowInit /\ [][FlowNext]_flowVars
------------------------------------------------------------------------------
(* The page, which compares and sorts the times as texts. *)

NotAfter(t, u) == t = u \/ <<t, u>> \in TextOrder
Is(kind, S) == {e \in S : e.kind = kind}
Times(S) == {e.at : e \in S}

(* groupIntoTurns: a prompt opens a turn; what lies before the first, or   *)
(* everything when there is none, is turn 0.                               *)
Prompts == Times(Is("prompt", log))
TurnIndex(e) == Cardinality({t \in Prompts : NotAfter(t, e.at)})
TurnOf(e) == {f \in log : TurnIndex(f) = TurnIndex(e)}

UpTo(t, S) == {u \in Times(Is("completion", S)) : NotAfter(u, t)}
From(t, S) == {u \in Times(Is("completion", S)) : NotAfter(t, u)}
Last(S) == {t \in S : \A u \in S : NotAfter(u, t)}
First(S) == {t \in S : \A u \in S : NotAfter(t, u)}

(* Mutant: the first request of the turn, not the last one before it. *)
HttpRefFirst(e) ==
    IF e.kind = "tool" THEN First(UpTo(e.at, TurnOf(e)))
    ELSE IF e.kind = "prompt" THEN First(From(e.at, TurnOf(e)))
    ELSE {}

(* Mutant: a prompt refers to the latest request of its turn. *)
HttpRefLast(e) ==
    IF e.kind = "tool" THEN Last(UpTo(e.at, TurnOf(e)))
    ELSE IF e.kind = "prompt" THEN Last(From(e.at, TurnOf(e)))
    ELSE {}

(* buildTurnFlow, for one hook. *)
HttpRef(e) ==
    IF e.kind = "tool" THEN Last(UpTo(e.at, TurnOf(e)))
    ELSE IF e.kind = "prompt" THEN First(From(e.at, TurnOf(e)))
    ELSE {}

(* DetailLinks looks at the whole session. *)
RequestBeforeHook(e) == Last(UpTo(e.at, log))
------------------------------------------------------------------------------
Requests == Times(Is("completion", log))
Known(e) == e.cause # {} /\ e.cause \subseteq Requests
Misled(e) == HttpRef(e) # e.cause \/ (e.kind = "tool" /\ RequestBeforeHook(e) # e.cause)

(* The comment on the flow graph: the association of hooks with requests   *)
(* is "exact, not a time-based guess", once both are recorded.             *)
FlowIsExact == \A e \in log : Known(e) => HttpRef(e) = e.cause

(* It is, in the graph and in the links of the detail, as long as nothing  *)
(* was asked for between the two, and the texts of their times, and of the *)
(* prompts and requests around them, sort as the times do: a client that   *)
(* does one thing at a time is misplaced only by a fraction that is cut.   *)
Between(lo, hi) ==
    \E t \in Prompts \union Requests : <<lo, t>> \in TimeOrder /\ <<t, hi>> \in TimeOrder

Swapped(lo, hi) ==
    Cut(lo, hi) \/ \E t \in Prompts \union Requests : Cut(t, lo) \/ Cut(hi, t)

OnlyOverlapOrCutMisleads ==
    \A e \in log : Known(e) /\ Misled(e) =>
      \A c \in e.cause :
        IF e.kind = "tool" THEN Between(c, e.at) \/ Swapped(c, e.at)
        ELSE Between(e.at, c) \/ Swapped(e.at, c)

RefAt(t) == HttpRef(CHOOSE e \in log : e.at = t)

(* As requests end late, the reference of a tool hook only moves to a      *)
(* later request, and that of a prompt to an earlier one; neither is lost, *)
(* unless a prompt sorts before one of the two, whose fraction is cut.     *)
RefsOnlyConverge ==
    \A e \in log : \A t \in HttpRef(e) :
      \/ \E u \in RefAt(e.at)' :
           IF e.kind = "tool" THEN NotAfter(t, u) ELSE NotAfter(u, t)
      \/ \E p \in Prompts' : Cut(t, p) \/ Cut(e.at, p)
==============================================================================
