---------------------------- MODULE MessageDiff ----------------------------
(***************************************************************************)
(* The message-level diff of two requests: a table of the longest common   *)
(* subsequences of what is left of either, filled from its far corner, and *)
(* a walk along it that emits the operations.  Indexes start at 1 here.    *)
(***************************************************************************)
EXTENDS Naturals, SequencesExt

CONSTANTS
    Message,
    KeyOf,        \* message -> its key; different messages may share one
    System,       \* messages with the role system
    ToolResult,   \* messages that carry a tool result
    MaxLeft, MaxRight

(* A key begins with the role. *)
ASSUME DiffAssumption ==
    /\ KeyOf \in [Message -> Nat]
    /\ \A s, t \in Message : KeyOf[s] = KeyOf[t] => (s \in System <=> t \in System)
    /\ MaxLeft \in Nat /\ MaxRight \in Nat

VARIABLES left, right, dp, i, j, phase, ops, added, removed

diffVars == <<left, right, dp, i, j, phase, ops, added, removed>>

(* requestSequence: the system prompt, if there is one, then the messages, *)
(* taken to be those of other roles.                                       *)
RequestSequence(s) == \A k \in DOMAIN s : s[k] \in System => k = 1
Requests(max) ==
    {s \in UNION {[1..k -> Message] : k \in 0..max} : RequestSequence(s)}

n == Len(left)
m == Len(right)
Cells == (1..n + 1) \X (1..m + 1)
Same(k, l) == KeyOf[left[k]] = KeyOf[right[l]]
Op(kind, message) == [kind |-> kind, message |-> message]
Ops == [kind : {"unchanged", "added", "removed"}, message : Message]

DiffTypeOK ==
    /\ left \in Seq(Message) /\ right \in Seq(Message)
    /\ dp \in [Cells -> Nat]
    /\ phase \in {"fill", "walk", "done"}
    /\ i \in 0..(n + 1) /\ j \in 0..(m + 1)
    /\ phase # "fill" => i >= 1 /\ j >= 1
    /\ ops \in Seq(Ops)
    /\ added \in Nat /\ removed \in Nat

DiffInit ==
    /\ left \in Requests(MaxLeft) /\ right \in Requests(MaxRight)
    /\ dp = [c \in Cells |-> 0]
    /\ i = n /\ j = m /\ phase = "fill"
    /\ ops = <<>> /\ added = 0 /\ removed = 0
------------------------------------------------------------------------------
Longer(a, b) == IF a >= b THEN a ELSE b

Fill ==
    /\ phase = "fill" /\ i >= 1 /\ j >= 1
    /\ dp' = [dp EXCEPT ![<<i, j>>] =
                IF Same(i, j) THEN dp[<<i + 1, j + 1>>] + 1
                ELSE Longer(dp[<<i + 1, j>>], dp[<<i, j + 1>>])]
    /\ j' = j - 1
    /\ UNCHANGED <<left, right, i, phase, ops, added, removed>>

NextRow ==
    /\ phase = "fill" /\ i >= 1 /\ j = 0
    /\ i' = i - 1 /\ j' = m
    /\ UNCHANGED <<left, right, dp, phase, ops, added, removed>>

Filled ==
    /\ phase = "fill" /\ i = 0
    /\ phase' = "walk" /\ i' = 1 /\ j' = 1
    /\ UNCHANGED <<left, right, dp, ops, added, removed>>

Both == phase = "walk" /\ i <= n /\ j <= m

KeepBoth ==
    /\ Both /\ Same(i, j)
    /\ ops' = Append(ops, Op("unchanged", right[j]))
    /\ i' = i + 1 /\ j' = j + 1
    /\ UNCHANGED <<left, right, dp, phase, added, removed>>

(* Mutant: the walk does not ask the table. *)
RemoveLeftFirst ==
    /\ phase = "walk" /\ i <= n
    /\ j > m \/ (Both /\ ~Same(i, j))
    /\ ops' = Append(ops, Op("removed", left[i]))
    /\ i' = i + 1 /\ removed' = removed + 1
    /\ UNCHANGED <<left, right, dp, j, phase, added>>

(* On a tie what is gone comes before what is new. *)
RemoveLeft ==
    /\ phase = "walk" /\ i <= n
    /\ j > m \/ (Both /\ ~Same(i, j) /\ dp[<<i + 1, j>>] >= dp[<<i, j + 1>>])
    /\ ops' = Append(ops, Op("removed", left[i]))
    /\ i' = i + 1 /\ removed' = removed + 1
    /\ UNCHANGED <<left, right, dp, j, phase, added>>

AddRight ==
    /\ phase = "walk" /\ j <= m
    /\ i > n \/ (Both /\ ~Same(i, j) /\ dp[<<i + 1, j>>] < dp[<<i, j + 1>>])
    /\ ops' = Append(ops, Op("added", right[j]))
    /\ j' = j + 1 /\ added' = added + 1
    /\ UNCHANGED <<left, right, dp, i, phase, removed>>

Walked ==
    /\ phase = "walk" /\ i > n /\ j > m
    /\ phase' = "done"
    /\ UNCHANGED <<left, right, dp, i, j, ops, added, removed>>

DiffNext == Fill \/ NextRow \/ Filled \/ KeepBoth \/ RemoveLeft \/ AddRight \/ Walked
DiffSpec == DiffInit /\ [][DiffNext]_diffVars
------------------------------------------------------------------------------
(* summarizeDiff. *)
RemovedRun(s, k, len) ==
    /\ k + len - 1 <= Len(s)
    /\ \A l \in k..(k + len - 1) : s[l].kind = "removed"

Summary(s) ==
    [toolResultsAdded |-> Cardinality({k \in DOMAIN s : s[k].kind = "added"
                                                        /\ s[k].message \in ToolResult}),
     systemChanged |-> \E k \in DOMAIN s : s[k].kind # "unchanged"
                                           /\ s[k].message \in System,
     compactionSuspected |-> \E k \in DOMAIN s : RemovedRun(s, k, 3)]
------------------------------------------------------------------------------
(* The operations lead from one request to the other: those that keep or   *)
(* remove take the messages of the left one, up to keys, in their order,   *)
(* and those that keep or add the messages of the right one.               *)
LeftPlace(k) == Cardinality({l \in 1..k : ops[l].kind # "added"})
RightPlace(k) == Cardinality({l \in 1..k : ops[l].kind # "removed"})

OpsLeadAcross ==
    phase # "fill" =>
        /\ LeftPlace(Len(ops)) = i - 1 /\ RightPlace(Len(ops)) = j - 1
        /\ \A k \in DOMAIN ops :
             /\ ops[k].kind = "removed" => ops[k].message = left[LeftPlace(k)]
             /\ ops[k].kind # "removed" => ops[k].message = right[RightPlace(k)]
             /\ ops[k].kind = "unchanged" => Same(LeftPlace(k), RightPlace(k))

(* The operations kept so far and the table's best for the rest make up    *)
(* the table's best for the whole: the walk never leaves an optimal path.  *)
Kept == Len(ops) - added - removed
WalkStaysOptimal ==
    phase # "fill" =>
        /\ Kept + removed = i - 1
        /\ Kept + added = j - 1
        /\ Kept + dp[<<i, j>>] = dp[<<1, 1>>]

(* And that best is the length of a longest common subsequence. *)
Common(s, t) ==
    {Cardinality(S) : S \in {S \in SUBSET DOMAIN s :
       \E f \in [S -> DOMAIN t] :
         /\ \A k \in S : KeyOf[s[k]] = KeyOf[t[f[k]]]
         /\ \A k, l \in S : k < l => f[k] < f[l]}}
DiffIsShortest == phase = "done" => Kept = Max(Common(left, right))

(* The summary: a request that only appends shows nothing as removed; the  *)
(* system prompt counts as changed exactly when it differs; three or more  *)
(* messages that give way to a new one are seen as a compaction, wherever  *)
(* they are.                                                               *)
Keys(s) == [k \in DOMAIN s |-> KeyOf[s[k]]]
SystemKeys(s) == {KeyOf[s[k]] : k \in {l \in DOMAIN s : s[l] \in System}}
Compacted ==
    \E p \in 0..n, q \in 0..n :
      /\ p + q + 3 <= n /\ m = p + q + 1
      /\ SubSeq(right, 1, p) = SubSeq(left, 1, p)
      /\ SubSeq(right, p + 2, m) = SubSeq(left, n - q + 1, n)
      /\ \A k \in DOMAIN left : ~Same(k, p + 1)

SummaryIsTrue ==
    phase = "done" =>
        /\ IsPrefix(Keys(left), Keys(right)) =>
             removed = 0 /\ ~Summary(ops).compactionSuspected
        /\ Summary(ops).systemChanged <=> SystemKeys(left) # SystemKeys(right)
        /\ Compacted => Summary(ops).compactionSuspected

(* The diff, once done: it leads across, is as short as any, and its        *)
(* summary is true of the two requests.                                    *)
DiffIsTrue == OpsLeadAcross /\ DiffIsShortest /\ SummaryIsTrue
==============================================================================
