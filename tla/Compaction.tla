------------------------------ MODULE Compaction ------------------------------
(***************************************************************************)
(* The detection of compactions in one session.  Completions are stamped   *)
(* when they arrive and recorded when they have ended, minutes later and   *)
(* in any order; hooks are stamped and recorded likewise.  A query reads   *)
(* the completions, then the hooks, pairs neighbouring completions in the  *)
(* order of their stamps, and grades each pair whose history collapsed or  *)
(* that has a hook in between.                                             *)
(***************************************************************************)
EXTENDS Timestamps, FiniteSets

CONSTANTS
    Shape,       \* what a completion may be
    Summary,     \* texts of responses
    NoSummary,   \* one of them, too short to be looked for
    MaxCompletions, MaxHooks   \* bounds: how many are under way or recorded

(* An envelope that could be parsed has the length of the request's        *)
(* history, the text of the response, and the texts found in the history.  *)
ASSUME ShapeAssumption ==
    /\ NoSummary \in Summary
    /\ Shape \subseteq [parsed : BOOLEAN, size : Nat, says : Summary, holds : SUBSET Summary]

VARIABLES
    now,       \* the latest stamp
    asking,    \* completions under way
    calling,   \* stamps of hook calls under way
    log,       \* completions recorded
    hooks,     \* stamps of the PreCompact and PostCompact hooks recorded
    query,     \* what the query under way has read
    \* history, read by a property only
    answered   \* verdicts answered on pairs that were settled

logVars == <<now, asking, calling, log, hooks, query, answered>>

Completion == [at : Instant, shape : Shape]
Grades == {"confirmed", "strong_suspected", "weak_suspected"}
Episode == [before : Completion, after : Completion, grade : Grades]

(* "settled" is history: the completions that everything under way, and    *)
(* everything that is to come, was stamped after.                          *)
NoQuery == [busy |-> FALSE, comps |-> {}, settled |-> {}]
Queries == [busy : BOOLEAN, comps : SUBSET Completion, settled : SUBSET Completion]

LogTypeOK ==
    /\ now \in Instant
    /\ asking \subseteq Completion
    /\ calling \subseteq Instant
    /\ log \subseteq Completion
    /\ hooks \subseteq Instant
    /\ query \in Queries
    /\ answered \subseteq Episode

LogInit ==
    /\ now \in Instant
    /\ asking = {} /\ calling = {} /\ log = {} /\ hooks = {}
    /\ query = NoQuery
    /\ answered = {}
------------------------------------------------------------------------------
(* detectCompactionEpisodes, for the completions and hooks it is given and *)
(* an order of stamps: that of the texts, in the code.                     *)

Shrank(a, b) ==
    /\ a.shape.size >= 6
    /\ a.shape.size - b.shape.size >= 4
    /\ 2 * b.shape.size <= a.shape.size

Carried(a, b) == a.shape.says # NoSummary /\ a.shape.says \in b.shape.holds

(* Mutant: a hook at the very stamp of the first request counts as well. *)
HookFromFirst(order, hs, a, b) ==
    \E h \in hs : <<h, a.at>> \notin order /\ <<b.at, h>> \notin order

HookBetween(order, hs, a, b) ==
    \E h \in hs : <<a.at, h>> \in order /\ <<b.at, h>> \notin order

Neighbours(order, cs, a, b) ==
    /\ <<a.at, b.at>> \in order
    /\ ~\E c \in cs : <<a.at, c.at>> \in order /\ <<c.at, b.at>> \in order

Grade(hook, carried) ==
    CASE hook -> "confirmed"
      [] ~hook /\ carried -> "strong_suspected"
      [] OTHER -> "weak_suspected"

Boundaries(order, cs, hs) ==
    {p \in cs \X cs :
        /\ Neighbours(order, cs, p[1], p[2])
        /\ p[1].shape.parsed /\ p[2].shape.parsed
        /\ Shrank(p[1], p[2]) \/ HookBetween(order, hs, p[1], p[2])}

Episodes(order, cs, hs) ==
    {[before |-> p[1], after |-> p[2],
      grade |-> Grade(HookBetween(order, hs, p[1], p[2]), Carried(p[1], p[2]))] :
        p \in Boundaries(order, cs, hs)}
------------------------------------------------------------------------------
(* Captured completions and hooks.  The clock does not go back, and no two *)
(* completions of a session arrive in the same nanosecond.                 *)

Stamped == {c.at : c \in asking \union log}
RoomForCompletion == Cardinality(asking \union log) < MaxCompletions
RoomForHook == Cardinality(calling \union hooks) < MaxHooks
Fresh(t) == <<t, now>> \notin TimeOrder

CompletionArrives(t, s) ==
    /\ RoomForCompletion /\ Fresh(t) /\ t \notin Stamped
    /\ now' = t
    /\ asking' = asking \union {[at |-> t, shape |-> s]}
    /\ UNCHANGED <<calling, log, hooks, query, answered>>

CompletionEnds(c) ==
    /\ c \in asking
    /\ asking' = asking \ {c}
    /\ log' = log \union {c}
    /\ UNCHANGED <<now, calling, hooks, query, answered>>

(* Mutant: the hook brings its own stamp, from a clock that may be behind. *)
HookStampedByAgent(t) ==
    /\ RoomForHook
    /\ calling' = calling \union {t}
    /\ UNCHANGED <<now, asking, log, hooks, query, answered>>

HookArrives(t) ==
    /\ RoomForHook /\ Fresh(t)
    /\ now' = t
    /\ calling' = calling \union {t}
    /\ UNCHANGED <<asking, log, hooks, query, answered>>

HookIsRecorded(t) ==
    /\ t \in calling
    /\ calling' = calling \ {t}
    /\ hooks' = hooks \union {t}
    /\ UNCHANGED <<now, asking, log, query, answered>>

(* The upstream fails, the event is no completion, or the store fails. *)
LoseCompletion(c) ==
    /\ c \in asking
    /\ asking' = asking \ {c}
    /\ UNCHANGED <<now, calling, log, hooks, query, answered>>

LoseHook(t) ==
    /\ t \in calling
    /\ calling' = calling \ {t}
    /\ UNCHANGED <<now, asking, log, hooks, query, answered>>

(* The process dies. *)
LoseAll ==
    /\ asking' = {} /\ calling' = {}
    /\ query' = NoQuery
    /\ UNCHANGED <<now, log, hooks, answered>>

------------------------------------------------------------------------------
(* GET /api/sessions/{id}/compaction-episodes, at some time from now on. *)

Settled(t) ==
    {c \in log :
        /\ <<c.at, t>> \in TimeOrder
        /\ \A d \in asking : <<c.at, d.at>> \in TimeOrder
        /\ \A h \in calling : <<c.at, h>> \in TimeOrder}

ReadCompletions(t) ==
    /\ ~query.busy
    /\ Fresh(t)
    /\ now' = t
    /\ query' = [busy |-> TRUE, comps |-> log, settled |-> Settled(t)]
    /\ UNCHANGED <<asking, calling, log, hooks, answered>>

ReadHooks ==
    /\ query.busy
    /\ answered' = answered \union
                    {e \in Episodes(TextOrder, query.comps, hooks) : e.after \in query.settled}
    /\ query' = NoQuery
    /\ UNCHANGED <<now, asking, calling, log, hooks>>

LogNext ==
    \/ \E t \in Instant, s \in Shape : CompletionArrives(t, s)
    \/ \E c \in asking : CompletionEnds(c) \/ LoseCompletion(c)
    \/ \E t \in Instant : HookArrives(t)
    \/ \E t \in calling : HookIsRecorded(t) \/ LoseHook(t)
    \/ LoseAll
    \/ \E t \in Instant : ReadCompletions(t)
    \/ ReadHooks

LogSpec == LogInit /\ [][LogNext]_logVars
------------------------------------------------------------------------------
(* Properties. *)

Stamps == {c.at : c \in log} \union hooks

(* Timestamps "sort lexicographically", says the code that compares them   *)
(* as texts.  They do unless the fraction of one is the beginning of that  *)
(* of another: without such a pair every verdict is the one that the       *)
(* instants themselves would give.                                         *)
OnlyCutFractionsMisgrade ==
    (\A t, u \in Stamps : ~Cut(t, u))
        => Episodes(TextOrder, log, hooks) = Episodes(TimeOrder, log, hooks)

(* What the comment says of all timestamps, and two of one second refute.  *)
VerdictsFollowTime == Episodes(TextOrder, log, hooks) = Episodes(TimeOrder, log, hooks)

(* A hook is the "ground truth" of one compaction: it confirms the pair it *)
(* falls into, also when it has the stamp of a request, never two pairs,   *)
(* and none only where no completion can be read on one of its sides.      *)
Confirmed(h) ==
    {e \in Episodes(TextOrder, log, hooks) :
        HookBetween(TextOrder, {h}, e.before, e.after)}

HookConfirmsOne ==
    \A h \in hooks :
        /\ \A e, f \in Confirmed(h) : e = f
        /\ \A e \in Confirmed(h) : e.grade = "confirmed"
        /\ /\ \A c \in log : c.shape.parsed
           /\ \E a \in log : <<a.at, h>> \in TextOrder
           /\ \E b \in log : <<b.at, h>> \notin TextOrder
           => Confirmed(h) # {}

(* The judgment on a pair "can only complete once request B has arrived":  *)
(* it is complete when all that arrived before B is recorded.  What is     *)
(* answered then stays so, whatever is recorded later and although the two *)
(* statements of the query may see different moments, unless a later stamp *)
(* sorts before B because B's fraction is cut.                             *)
AnswersStayTrue ==
    \A e \in answered :
        \/ e \in Episodes(TextOrder, log, hooks)
        \/ \E t \in Stamps : Cut(e.after.at, t)
==============================================================================
