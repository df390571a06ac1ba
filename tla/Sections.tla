------------------------------- MODULE Sections -------------------------------
(***************************************************************************)
(* The request tab of an event: its system prompt, tools and messages in   *)
(* sections that fold, the messages in rounds or in one thread, under the  *)
(* filters.  What is folded and filtered lives in the UI store and stays   *)
(* when another event is shown.  A message here is its role and the kinds  *)
(* of its blocks, which are hidden by kind.                                *)
(***************************************************************************)
EXTENDS Naturals, SequencesExt

CONSTANTS Thread, Captured, Kind, Big, NoKey

VARIABLES
    thread,      \* the request messages of the event that is shown
    has,         \* whether it has a system prompt, and tools
    parts,       \* the parts that the filter leaves
    blocks,      \* the kinds of blocks that it leaves
    groupRounds,
    collapsed,   \* section -> what the user made of it, or "unset"
    clicked      \* history: the title just clicked, and whether it was folded

sectionVars == <<thread, has, parts, blocks, groupRounds, collapsed, clicked>>

Named == {"system", "tools"}
Part == Named \union {"messages"}
Section(name) == <<name, 0>>
Round(n) == <<"round", n>>
Key == {Section(n) : n \in Named \union {"reqmsgs"}} \union
       {Round(n) : n \in UNION {0 .. Len(ms) : ms \in Thread}}
NoClick == [key |-> NoKey, folded |-> FALSE]

SectionsTypeOK ==
    /\ thread \in Thread /\ has \subseteq Named
    /\ parts \subseteq Part /\ blocks \subseteq Kind
    /\ groupRounds \in BOOLEAN
    /\ collapsed \in [Key -> {"unset", "folded", "open"}]
    /\ clicked = NoClick \/ clicked \in [key : Key, folded : BOOLEAN]

SectionsInit ==
    /\ \E c \in Captured : thread = c[1] /\ has = c[2]
    /\ parts = Part /\ blocks = Kind
    /\ groupRounds = TRUE
    /\ collapsed = [k \in Key |-> "unset"] /\ clicked = NoClick
------------------------------------------------------------------------------
(* Mutant: a message with any hidden block goes as a whole. *)
FilterWhole(ms, kinds) == SelectSeq(ms, LAMBDA m : m.kinds \subseteq kinds)

(* A message goes on with the blocks that the filter leaves of it. *)
KeepVisible(kinds, kept, m) ==
    IF m.kinds \intersect kinds = {} THEN kept
    ELSE Append(kept, [m EXCEPT !.kinds = @ \intersect kinds])

(* What is left of a message list; a message without a visible block goes. *)
FilterMessages(ms, kinds) ==
    FoldLeft(LAMBDA kept, m : KeepVisible(kinds, kept, m), <<>>, ms)

NewRound(n, m) == [index |-> n, messages |-> <<m>>]

(* A round starts at each user message; what comes before is round 0.      *)
AddToRounds(rounds, m) ==
    LET last == rounds[Len(rounds)] IN
    IF rounds = <<>>
    THEN <<NewRound(IF m.role = "user" THEN 1 ELSE 0, m)>>
    ELSE IF m.role = "user" THEN Append(rounds, NewRound(last.index + 1, m))
    ELSE [rounds EXCEPT ![Len(rounds)].messages = Append(@, m)]

GroupIntoRounds(ms) == FoldLeft(AddToRounds, <<>>, ms)

Messages == FilterMessages(thread, blocks)

(* The sections on the page.  A system prompt stays, even if the filter    *)
(* leaves nothing of it.                                                   *)
Rendered ==
    {Section(p) : p \in parts \intersect has} \union
    IF "messages" \notin parts \/ Messages = <<>> THEN {}
    ELSE IF groupRounds THEN {Round(r.index) : r \in ToSet(GroupIntoRounds(Messages))}
    ELSE {Section("reqmsgs")}

DefaultCollapsed(k) ==
    \/ k[1] \in {"tools", "round"}
    \/ k[1] = "reqmsgs" /\ Len(Messages) > Big

Folded(k) == IF collapsed[k] = "unset" THEN DefaultCollapsed(k)
             ELSE collapsed[k] = "folded"
------------------------------------------------------------------------------
ShowEvent(ms, named) ==
    /\ thread' = ms /\ has' = named /\ clicked' = NoClick
    /\ UNCHANGED <<parts, blocks, groupRounds, collapsed>>

TogglePart(p) ==
    /\ parts' = SymDiff(parts, {p}) /\ clicked' = NoClick
    /\ UNCHANGED <<thread, has, blocks, groupRounds, collapsed>>

ToggleBlock(b) ==
    /\ blocks' = SymDiff(blocks, {b}) /\ clicked' = NoClick
    /\ UNCHANGED <<thread, has, parts, groupRounds, collapsed>>

ToggleGroupRounds ==
    /\ groupRounds' = ~groupRounds /\ clicked' = NoClick
    /\ UNCHANGED <<thread, has, parts, blocks, collapsed>>

(* The store turns round what it has, and nothing counts as open.          *)
ToggleCollapsed(k) ==
    /\ k \in Rendered
    /\ collapsed' = [collapsed EXCEPT ![k] = IF @ = "folded" THEN "open" ELSE "folded"]
    /\ clicked' = [key |-> k, folded |-> Folded(k)]
    /\ UNCHANGED <<thread, has, parts, blocks, groupRounds>>

SectionsNext ==
    \/ \E c \in Captured : ShowEvent(c[1], c[2])
    \/ \E p \in Part : TogglePart(p)
    \/ \E b \in Kind : ToggleBlock(b)
    \/ ToggleGroupRounds
    \/ \E k \in Key : ToggleCollapsed(k)

SectionsSpec == SectionsInit /\ [][SectionsNext]_sectionVars
------------------------------------------------------------------------------
(* The rounds are the messages that are shown, in their order, cut at each *)
(* user message and nowhere else.                                          *)
RoundsCutTheThread ==
    LET rounds == GroupIntoRounds(Messages) IN
    /\ FlattenSeq([r \in DOMAIN rounds |-> rounds[r].messages]) = Messages
    /\ \A r \in DOMAIN rounds : \A i \in DOMAIN rounds[r].messages :
         rounds[r].messages[i].role = "user" <=> (i = 1 /\ rounds[r].index > 0)
    /\ \A r, s \in DOMAIN rounds : r # s => rounds[r].index # rounds[s].index

(* A filter hides blocks; two answers to different questions get into one  *)
(* round, and the rounds other numbers, only if it hides a question.       *)
OnlyHiddenTurnsMerge ==
    Len(GroupIntoRounds(Messages)) < Len(GroupIntoRounds(thread)) =>
      \/ \E i \in DOMAIN thread :
           thread[i].role = "user" /\ thread[i].kinds \intersect blocks = {}
      \/ Messages = <<>> \/ Messages[1].role = "user"

(* Both, of what is shown under any filter. *)
RoundsFollowQuestions == RoundsCutTheThread /\ OnlyHiddenTurnsMerge

(* The comment of Collapsible: "defaultCollapsed applies until the user    *)
(* toggles"; so every click turns its section round.                       *)
ClickTurnsSection ==
    clicked # NoClick => Folded(clicked.key) # clicked.folded
==============================================================================
