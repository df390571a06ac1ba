--------------------------- MODULE CompactionProofs ---------------------------
(***************************************************************************)
(* Theorems about Compaction: the verdicts are sound, for any resolution   *)
(* of the clock and any number of completions, hooks and texts.            *)
(***************************************************************************)
EXTENDS Compaction, TimestampsProofs

(* The completions that are stamped last before, and first from, a time.   *)
LEMMA Nearest ==
  ASSUME NEW S, IsFiniteSet(S), S \subseteq Completion, S # {}
  PROVE  /\ \E a \in S : \A c \in S : <<a.at, c.at>> \notin TextOrder
         /\ \E b \in S : \A c \in S : <<c.at, b.at>> \notin TextOrder
<1> DEFINE Up == {p \in S \X S : <<p[1].at, p[2].at>> \in TextOrder}
           Down == {p \in S \X S : <<p[2].at, p[1].at>> \in TextOrder}
<1>0. \A c \in S : c.at \in Instant
  BY DEF Completion
<1>1. /\ \A x \in S : <<x, x>> \notin Up
      /\ \A x, y, z \in S : <<x, y>> \in Up /\ <<y, z>> \in Up => <<x, z>> \in Up
  BY <1>0, TextIsOrder DEF Orders
<1>2. /\ \A x \in S : <<x, x>> \notin Down
      /\ \A x, y, z \in S : <<x, y>> \in Down /\ <<y, z>> \in Down => <<x, z>> \in Down
  BY <1>0, TextIsOrder DEF Orders
<1>3. \E x \in S : \A y \in S : <<y, x>> \notin Up
  <2> HIDE DEF Up
  <2> QED
    BY <1>1, LowestOf
<1>4. \E x \in S : \A y \in S : <<y, x>> \notin Down
  <2> HIDE DEF Down
  <2> QED
    BY <1>2, LowestOf
<1> QED
  BY <1>3, <1>4
------------------------------------------------------------------------------
(* What an episode says. *)
LEMMA EpisodeSays ==
  ASSUME NEW order, NEW cs, NEW hs, NEW e \in Episodes(order, cs, hs)
  PROVE  /\ e.before \in cs /\ e.after \in cs
         /\ Neighbours(order, cs, e.before, e.after)
         /\ e.before.shape.parsed /\ e.after.shape.parsed
         /\ Shrank(e.before, e.after) \/ HookBetween(order, hs, e.before, e.after)
         /\ e.grade = Grade(HookBetween(order, hs, e.before, e.after),
                            Carried(e.before, e.after))
         /\ e = [before |-> e.before, after |-> e.after, grade |-> e.grade]
  BY DEF Episodes, Boundaries

LEMMA EpisodeIs ==
  ASSUME NEW order, NEW cs, NEW hs, NEW a \in cs, NEW b \in cs,
         Neighbours(order, cs, a, b), a.shape.parsed, b.shape.parsed,
         Shrank(a, b) \/ HookBetween(order, hs, a, b)
  PROVE  [before |-> a, after |-> b,
          grade |-> Grade(HookBetween(order, hs, a, b), Carried(a, b))]
            \in Episodes(order, cs, hs)
<1>1. <<a, b>> \in Boundaries(order, cs, hs)
  BY DEF Boundaries
<1> QED
  BY <1>1 DEF Episodes

LEMMA GradesAre ==
  ASSUME NEW hook, NEW carried
  PROVE  Grade(hook, carried) \in Grades
  BY DEF Grade, Grades

LEMMA EpisodesTyped ==
  ASSUME NEW order, NEW cs, NEW hs, cs \subseteq Completion
  PROVE  Episodes(order, cs, hs) \subseteq Episode
<1> SUFFICES ASSUME NEW e \in Episodes(order, cs, hs) PROVE e \in Episode
  OBVIOUS
<1>1. e.grade \in Grades
  BY EpisodeSays, GradesAre
<1> QED
  BY <1>1, EpisodeSays DEF Episode
------------------------------------------------------------------------------
(* Type correctness, with what finite sets are for. *)
LogSound ==
    /\ LogTypeOK
    /\ IsFiniteSet(log) /\ IsFiniteSet(asking)
    /\ \A c, d \in asking \union log : c.at = d.at => c = d

LEMMA LogSoundInvariance == LogSpec => []LogSound
<1>1. LogInit => LogSound
  BY FS_EmptySet DEF LogInit, LogSound, LogTypeOK, NoQuery, Queries
<1>2. LogSound /\ [LogNext]_logVars => LogSound'
  <2> SUFFICES ASSUME LogSound, [LogNext]_logVars PROVE LogSound'
    OBVIOUS
  <2> USE DEF LogSound, LogTypeOK
  <2>1. ASSUME NEW t \in Instant, NEW s \in Shape, CompletionArrives(t, s) PROVE LogSound'
    <3> DEFINE c == [at |-> t, shape |-> s]
    <3>1. c \in Completion
      BY DEF Completion
    <3>2. IsFiniteSet(asking \union {c})
      BY FS_AddElement
    <3>3. \A d \in asking \union log : d.at # c.at
      BY <2>1 DEF CompletionArrives, Stamped
    <3> HIDE DEF c
    <3>4. asking' = asking \union {c} /\ UNCHANGED <<calling, log, hooks, query, answered>>
          /\ now' = t
      BY <2>1 DEF CompletionArrives, c
    <3> QED
      BY <3>1, <3>2, <3>3, <3>4
  <2>2. ASSUME NEW c \in asking, CompletionEnds(c) \/ LoseCompletion(c) PROVE LogSound'
    <3>1. IsFiniteSet(asking \ {c}) /\ IsFiniteSet(log \union {c})
      BY FS_AddElement, FS_RemoveElement
    <3> QED
      BY <2>2, <3>1 DEF CompletionEnds, LoseCompletion
  <2>3. ASSUME NEW t \in Instant, HookArrives(t) PROVE LogSound'
    BY <2>3 DEF HookArrives
  <2>4. ASSUME NEW t \in calling, HookIsRecorded(t) \/ LoseHook(t) PROVE LogSound'
    BY <2>4 DEF HookIsRecorded, LoseHook
  <2>5. CASE LoseAll
    BY <2>5, FS_EmptySet DEF LoseAll, NoQuery, Queries
  <2>6. ASSUME NEW t \in Instant, ReadCompletions(t) PROVE LogSound'
    <3>1. Settled(t) \subseteq log
      BY DEF Settled
    <3> HIDE DEF Settled
    <3> QED
      BY <2>6, <3>1 DEF ReadCompletions, Queries
  <2>7. CASE ReadHooks
    <3>1. query.comps \subseteq Completion
      BY DEF Queries
    <3>2. answered' \subseteq Episode
      BY <2>7, <3>1, EpisodesTyped DEF ReadHooks
    <3> QED
      BY <2>7, <3>2 DEF ReadHooks, NoQuery, Queries
  <2>8. CASE UNCHANGED logVars
    BY <2>8 DEF logVars
  <2> QED
    BY <2>1, <2>2, <2>3, <2>4, <2>5, <2>6, <2>7, <2>8 DEF LogNext
<1> QED
  BY <1>1, <1>2, PTL DEF LogSpec

(* Records, query and verdicts keep their types. *)
THEOREM LogIsTyped == LogSpec => []LogTypeOK
<1>1. LogSound => LogTypeOK
  BY DEF LogSound
<1> QED
  BY <1>1, LogSoundInvariance, PTL
------------------------------------------------------------------------------
(* Two orders that agree on the stamps give the same verdicts. *)
LEMMA SameOrderSameVerdicts ==
  ASSUME NEW R, NEW Q, NEW cs, NEW hs,
         \A t, u \in {c.at : c \in cs} \union hs : <<t, u>> \in R <=> <<t, u>> \in Q
  PROVE  Episodes(R, cs, hs) = Episodes(Q, cs, hs)
<1>1. ASSUME NEW a \in cs, NEW b \in cs
      PROVE  HookBetween(R, hs, a, b) = HookBetween(Q, hs, a, b)
  BY DEF HookBetween
<1>2. ASSUME NEW a \in cs, NEW b \in cs
      PROVE  Neighbours(R, cs, a, b) = Neighbours(Q, cs, a, b)
  BY DEF Neighbours
<1>3. Boundaries(R, cs, hs) = Boundaries(Q, cs, hs)
  BY <1>1, <1>2 DEF Boundaries
<1>4. \A p \in Boundaries(R, cs, hs) : p[1] \in cs /\ p[2] \in cs
  BY DEF Boundaries
<1> QED
  BY <1>1, <1>3, <1>4 DEF Episodes

(* Comparing texts misgrades nothing unless a fraction is cut. *)
THEOREM OnlyCutsMisgrade == LogSpec => []OnlyCutFractionsMisgrade
<1>1. LogSound => OnlyCutFractionsMisgrade
  <2> SUFFICES ASSUME LogSound, \A t, u \in Stamps : ~Cut(t, u)
               PROVE  Episodes(TextOrder, log, hooks) = Episodes(TimeOrder, log, hooks)
    BY DEF OnlyCutFractionsMisgrade
  <2>1. Stamps \subseteq Instant
    BY DEF LogSound, LogTypeOK, Stamps, Completion
  <2>2. \A t, u \in Stamps : <<t, u>> \in TextOrder <=> <<t, u>> \in TimeOrder
    BY <2>1, TextsSortUnlessCut
  <2> QED
    BY <2>2, SameOrderSameVerdicts DEF Stamps
<1> QED
  BY <1>1, LogSoundInvariance, PTL
------------------------------------------------------------------------------
(* Two pairs of neighbours around one time are the same pair. *)
LEMMA OnePair ==
  ASSUME NEW cs, cs \subseteq Completion,
         \A c, d \in cs : c.at = d.at => c = d,
         NEW h \in Instant, NEW a \in cs, NEW b \in cs, NEW x \in cs, NEW y \in cs,
         Neighbours(TextOrder, cs, a, b), Neighbours(TextOrder, cs, x, y),
         HookBetween(TextOrder, {h}, a, b), HookBetween(TextOrder, {h}, x, y)
  PROVE  a = x /\ b = y
<1> DEFINE Before(t, u) == <<t, u>> \in TextOrder
<1>0. a.at \in Instant /\ b.at \in Instant /\ x.at \in Instant /\ y.at \in Instant
  BY DEF Completion
<1>1. Before(a.at, h) /\ ~Before(b.at, h) /\ Before(x.at, h) /\ ~Before(y.at, h)
  BY DEF HookBetween
<1>2. Before(a.at, b.at) /\ Before(x.at, y.at)
  BY DEF Neighbours
<1>3. Before(a.at, y.at) /\ Before(x.at, b.at)
  <2>1. y.at = h \/ Before(h, y.at)
    BY <1>0, <1>1, TextIsOrder DEF Orders
  <2>2. b.at = h \/ Before(h, b.at)
    BY <1>0, <1>1, TextIsOrder DEF Orders
  <2> QED
    BY <1>0, <1>1, <2>1, <2>2, TextIsOrder DEF Orders
<1>4. a.at = x.at
  <2>1. ~Before(a.at, x.at) /\ ~Before(x.at, a.at)
    BY <1>2, <1>3 DEF Neighbours
  <2> QED
    BY <1>0, <2>1, TextIsOrder DEF Orders
<1>5. b.at = y.at
  <2>1. ~Before(b.at, y.at) /\ ~Before(y.at, b.at)
    BY <1>2, <1>3 DEF Neighbours
  <2> QED
    BY <1>0, <2>1, TextIsOrder DEF Orders
<1> QED
  BY <1>4, <1>5

(* Between completions on both sides of a time there are two neighbours.   *)
LEMMA SomePair ==
  ASSUME NEW cs, IsFiniteSet(cs), cs \subseteq Completion, NEW h \in Instant,
         \E a \in cs : <<a.at, h>> \in TextOrder,
         \E b \in cs : <<b.at, h>> \notin TextOrder
  PROVE  \E a, b \in cs : /\ Neighbours(TextOrder, cs, a, b)
                          /\ HookBetween(TextOrder, {h}, a, b)
<1> DEFINE A == {c \in cs : <<c.at, h>> \in TextOrder}
           B == {c \in cs : <<c.at, h>> \notin TextOrder}
<1>1. A \in SUBSET cs /\ A # {} /\ B \in SUBSET cs /\ B # {}
  OBVIOUS
<1>2. IsFiniteSet(A) /\ IsFiniteSet(B) /\ A \subseteq Completion /\ B \subseteq Completion
  <2> HIDE DEF A, B
  <2> QED
    BY <1>1, FS_Subset
<1>3. PICK a \in A : \A c \in A : <<a.at, c.at>> \notin TextOrder
  <2> HIDE DEF A
  <2> QED
    BY <1>1, <1>2, Nearest
<1>4. PICK b \in B : \A c \in B : <<c.at, b.at>> \notin TextOrder
  <2> HIDE DEF B
  <2> QED
    BY <1>1, <1>2, Nearest
<1>5. a \in cs /\ b \in cs /\ <<a.at, h>> \in TextOrder /\ <<b.at, h>> \notin TextOrder
  OBVIOUS
<1>6. <<a.at, b.at>> \in TextOrder
  <2>1. a.at \in Instant /\ b.at \in Instant
    BY <1>5 DEF Completion
  <2>2. b.at = h \/ <<h, b.at>> \in TextOrder
    BY <1>5, <2>1, TextIsOrder DEF Orders
  <2> QED
    BY <1>5, <2>1, <2>2, TextIsOrder DEF Orders
<1>7. \A c \in cs : c \in A \/ c \in B
  OBVIOUS
<1>8. Neighbours(TextOrder, cs, a, b)
  <2> HIDE DEF A, B
  <2> QED
    BY <1>3, <1>4, <1>6, <1>7 DEF Neighbours
<1>9. HookBetween(TextOrder, {h}, a, b)
  BY <1>5 DEF HookBetween
<1> QED
  BY <1>5, <1>8, <1>9

(* A hook is never counted twice, and counts once wherever requests that   *)
(* could be read surround it, however many there are and in whatever order *)
(* they were recorded.                                                     *)
THEOREM HooksConfirmOne == LogSpec => []HookConfirmsOne
<1>1. LogSound => HookConfirmsOne
  <2> SUFFICES ASSUME LogSound, NEW h \in hooks
               PROVE  /\ \A e, f \in Confirmed(h) : e = f
                      /\ \A e \in Confirmed(h) : e.grade = "confirmed"
                      /\ /\ \A c \in log : c.shape.parsed
                         /\ \E a \in log : <<a.at, h>> \in TextOrder
                         /\ \E b \in log : <<b.at, h>> \notin TextOrder
                         => Confirmed(h) # {}
    BY DEF HookConfirmsOne
  <2>0. h \in Instant /\ log \subseteq Completion /\ IsFiniteSet(log)
        /\ \A c, d \in log : c.at = d.at => c = d
    BY DEF LogSound, LogTypeOK
  <2>1. \A a, b : HookBetween(TextOrder, {h}, a, b) => HookBetween(TextOrder, hooks, a, b)
    BY DEF HookBetween
  <2>2. \A e \in Confirmed(h) :
            /\ e \in Episodes(TextOrder, log, hooks)
            /\ HookBetween(TextOrder, {h}, e.before, e.after)
    BY DEF Confirmed
  <2>3. ASSUME NEW e \in Confirmed(h) PROVE e.grade = "confirmed"
    <3>1. HookBetween(TextOrder, hooks, e.before, e.after)
      BY <2>1, <2>2
    <3>2. e.grade = Grade(HookBetween(TextOrder, hooks, e.before, e.after),
                          Carried(e.before, e.after))
      BY <2>2, EpisodeSays
    <3> QED
      BY <3>1, <3>2 DEF Grade
  <2>4. ASSUME NEW e \in Confirmed(h), NEW f \in Confirmed(h) PROVE e = f
    <3>1. e.before = f.before /\ e.after = f.after
      <4>1. /\ e.before \in log /\ e.after \in log /\ f.before \in log /\ f.after \in log
            /\ Neighbours(TextOrder, log, e.before, e.after)
            /\ Neighbours(TextOrder, log, f.before, f.after)
        BY <2>2, EpisodeSays
      <4> QED
        BY <2>0, <2>2, <4>1, OnePair
    <3>2. e.grade = f.grade
      BY <2>3
    <3>3. /\ e = [before |-> e.before, after |-> e.after, grade |-> e.grade]
          /\ f = [before |-> f.before, after |-> f.after, grade |-> f.grade]
      BY <2>2, EpisodeSays
    <3> QED
      BY <3>1, <3>2, <3>3
  <2>5. ASSUME \A c \in log : c.shape.parsed,
               \E a \in log : <<a.at, h>> \in TextOrder,
               \E b \in log : <<b.at, h>> \notin TextOrder
        PROVE  Confirmed(h) # {}
    <3>1. PICK a \in log, b \in log : /\ Neighbours(TextOrder, log, a, b)
                                      /\ HookBetween(TextOrder, {h}, a, b)
      BY <2>0, <2>5, SomePair
    <3> DEFINE e == [before |-> a, after |-> b,
                     grade |-> Grade(HookBetween(TextOrder, hooks, a, b), Carried(a, b))]
    <3>2. e \in Episodes(TextOrder, log, hooks)
      BY <2>1, <2>5, <3>1, EpisodeIs
    <3>3. e.before = a /\ e.after = b
      OBVIOUS
    <3> HIDE DEF e
    <3> QED
      BY <3>1, <3>2, <3>3 DEF Confirmed
  <2> QED
    BY <2>3, <2>4, <2>5
<1> QED
  BY <1>1, LogSoundInvariance, PTL
------------------------------------------------------------------------------
(* What was answered on settled pairs. *)

(* Everything that is under way, or still to come, is stamped after b. *)
Past(b) ==
    /\ <<b.at, now>> \in TimeOrder
    /\ \A c \in asking : <<b.at, c.at>> \in TimeOrder
    /\ \A h \in calling : <<b.at, h>> \in TimeOrder

AnswersSound ==
    /\ \A e \in answered : e.before \in log /\ e.after \in log /\ Past(e.after)
    /\ AnswersStayTrue
    /\ query.comps \subseteq log
    /\ \A b \in query.settled :
        /\ b \in query.comps /\ Past(b)
        /\ \A c \in log \ query.comps : <<b.at, c.at>> \in TimeOrder

(* A verdict outlives records that are stamped after its pair, unless one  *)
(* of them sorts before it because of a cut fraction.                      *)
LEMMA VerdictStays ==
  ASSUME NEW cs, NEW hs, NEW ds, NEW gs, ds \subseteq Completion, gs \subseteq Instant,
         cs \subseteq ds, hs \subseteq gs,
         NEW e \in Episodes(TextOrder, cs, hs),
         \A c \in ds \ cs : <<e.after.at, c.at>> \in TimeOrder,
         \A h \in gs \ hs : <<e.after.at, h>> \in TimeOrder
  PROVE  \/ e \in Episodes(TextOrder, ds, gs)
         \/ \E t \in {c.at : c \in ds} \union gs : Cut(e.after.at, t)
<1> SUFFICES ASSUME \A t \in {c.at : c \in ds} \union gs : ~Cut(e.after.at, t)
             PROVE  e \in Episodes(TextOrder, ds, gs)
  OBVIOUS
<1> DEFINE a == e.before
           b == e.after
<1>1. /\ a \in cs /\ b \in cs /\ Neighbours(TextOrder, cs, a, b)
      /\ a.shape.parsed /\ b.shape.parsed
      /\ Shrank(a, b) \/ HookBetween(TextOrder, hs, a, b)
      /\ e = [before |-> a, after |-> b,
              grade |-> Grade(HookBetween(TextOrder, hs, a, b), Carried(a, b))]
  BY EpisodeSays
<1>2. b.at \in Instant /\ \A c \in ds : c.at \in Instant
  BY <1>1 DEF Completion
<1>3. \A c \in ds \ cs : <<c.at, b.at>> \notin TextOrder
  <2> TAKE c \in ds \ cs
  <2>1. c.at \in Instant /\ <<b.at, c.at>> \in TimeOrder /\ ~Cut(b.at, c.at)
    BY <1>2
  <2>2. <<b.at, c.at>> \in TextOrder
    BY <1>2, <2>1, UncutAgree
  <2> QED
    BY <1>2, <2>1, <2>2, TextIsOrder DEF Orders
<1>4. \A h \in gs \ hs : <<b.at, h>> \in TextOrder
  BY <1>2, UncutAgree
<1> HIDE DEF a, b
<1>5. Neighbours(TextOrder, ds, a, b)
  BY <1>1, <1>3 DEF Neighbours
<1>6. HookBetween(TextOrder, gs, a, b) = HookBetween(TextOrder, hs, a, b)
  BY <1>4 DEF HookBetween
<1> QED
  BY <1>1, <1>5, <1>6, EpisodeIs

(* Who is past stays past: the clock does not go back. *)
LEMMA PastStays ==
  ASSUME LogSound, [LogNext]_logVars, NEW b \in Completion, Past(b)
  PROVE  Past(b)'
<1> USE DEF Past
<1>0. b.at \in Instant /\ now \in Instant
  BY DEF Completion, LogSound, LogTypeOK
<1>1. \A t \in Instant : Fresh(t) => <<b.at, t>> \in TimeOrder
  BY <1>0, TimeIsOrder DEF Orders, Fresh
<1>2. ASSUME NEW t \in Instant, NEW s \in Shape, CompletionArrives(t, s) PROVE Past(b)'
  BY <1>1, <1>2 DEF CompletionArrives
<1>3. ASSUME NEW c \in asking, CompletionEnds(c) \/ LoseCompletion(c) PROVE Past(b)'
  BY <1>3 DEF CompletionEnds, LoseCompletion
<1>4. ASSUME NEW t \in Instant, HookArrives(t) PROVE Past(b)'
  BY <1>1, <1>4 DEF HookArrives
<1>5. ASSUME NEW t \in calling, HookIsRecorded(t) \/ LoseHook(t) PROVE Past(b)'
  BY <1>5 DEF HookIsRecorded, LoseHook
<1>6. CASE LoseAll
  BY <1>6 DEF LoseAll
<1>7. ASSUME NEW t \in Instant, ReadCompletions(t) PROVE Past(b)'
  BY <1>1, <1>7 DEF ReadCompletions
<1>8. CASE ReadHooks
  BY <1>8 DEF ReadHooks
<1>9. CASE UNCHANGED logVars
  BY <1>9 DEF logVars
<1> QED
  BY <1>2, <1>3, <1>4, <1>5, <1>6, <1>7, <1>8, <1>9 DEF LogNext

(* A record that comes after the pairs that were answered leaves them.     *)
LEMMA AnswersOutlive ==
  ASSUME LogSound, LogSound', AnswersSound, UNCHANGED answered,
         log \subseteq log', hooks \subseteq hooks',
         \A c \in log' \ log : c \in asking,
         \A h \in hooks' \ hooks : h \in calling
  PROVE  AnswersStayTrue'
<1> SUFFICES ASSUME NEW e \in answered
             PROVE  \/ e \in Episodes(TextOrder, log', hooks')
                    \/ \E t \in Stamps' : Cut(e.after.at, t)
  BY DEF AnswersStayTrue
<1>1. CASE e \in Episodes(TextOrder, log, hooks)
  <2>1. \A c \in log' \ log : <<e.after.at, c.at>> \in TimeOrder
    BY DEF AnswersSound, Past
  <2>2. \A h \in hooks' \ hooks : <<e.after.at, h>> \in TimeOrder
    BY DEF AnswersSound, Past
  <2>3. log' \subseteq Completion /\ hooks' \subseteq Instant
    BY DEF LogSound, LogTypeOK
  <2> QED
    BY <1>1, <2>1, <2>2, <2>3, VerdictStays DEF Stamps
<1>2. CASE \E t \in Stamps : Cut(e.after.at, t)
  BY <1>2 DEF Stamps
<1> QED
  BY <1>1, <1>2 DEF AnswersSound, AnswersStayTrue

LEMMA AnswersInvariance == LogSpec => []AnswersSound
<1>1. LogInit => AnswersSound
  BY DEF LogInit, AnswersSound, AnswersStayTrue, NoQuery
<1>2. LogSound /\ LogSound' /\ AnswersSound /\ [LogNext]_logVars => AnswersSound'
  <2> SUFFICES ASSUME LogSound, LogSound', AnswersSound, [LogNext]_logVars
               PROVE  AnswersSound'
    OBVIOUS
  <2>1. \A b \in Completion : Past(b) => Past(b)'
    BY PastStays
  <2>2. log \subseteq Completion
    BY DEF LogSound, LogTypeOK
  <2>3. \A e \in answered : e.before \in log /\ e.after \in log /\ Past(e.after)'
    BY <2>1, <2>2 DEF AnswersSound
  <2>4. \A b \in query.settled : b \in query.comps /\ b \in log /\ Past(b) /\ Past(b)'
    BY <2>1, <2>2 DEF AnswersSound
  <2>5. CASE UNCHANGED <<log, hooks, answered>> /\ (query' = query \/ query' = NoQuery)
    <3>1. AnswersStayTrue'
      BY <2>5, AnswersOutlive
    <3>2. \A b \in query'.settled : b \in query.settled /\ query'.comps = query.comps
      BY <2>5 DEF NoQuery
    <3>3. query'.comps \subseteq log
      BY <2>5 DEF NoQuery, AnswersSound
    <3> QED
      BY <2>3, <2>4, <2>5, <3>1, <3>2, <3>3 DEF AnswersSound
  <2>6. ASSUME NEW c \in asking, CompletionEnds(c) PROVE AnswersSound'
    <3>1. log' = log \union {c} /\ UNCHANGED <<hooks, query, answered>>
      BY <2>6 DEF CompletionEnds
    <3>2. AnswersStayTrue'
      BY <3>1, AnswersOutlive
    <3>3. \A b \in query.settled : <<b.at, c.at>> \in TimeOrder
      BY <2>4 DEF Past
    <3> QED
      BY <2>3, <2>4, <3>1, <3>2, <3>3 DEF AnswersSound
  <2>7. ASSUME NEW h \in calling, HookIsRecorded(h) PROVE AnswersSound'
    <3>1. hooks' = hooks \union {h} /\ UNCHANGED <<log, query, answered>>
      BY <2>7 DEF HookIsRecorded
    <3>2. AnswersStayTrue'
      BY <3>1, AnswersOutlive
    <3> QED
      BY <2>3, <2>4, <3>1, <3>2 DEF AnswersSound
  <2>8. ASSUME NEW t \in Instant, ReadCompletions(t) PROVE AnswersSound'
    <3>1. /\ UNCHANGED <<asking, calling, log, hooks, answered>> /\ now' = t
          /\ query' = [busy |-> TRUE, comps |-> log, settled |-> Settled(t)]
      BY <2>8 DEF ReadCompletions
    <3>2. AnswersStayTrue'
      BY <3>1, AnswersOutlive
    <3>3. \A b \in Settled(t) : b \in log /\ Past(b)'
      BY <3>1 DEF Settled, Past
    <3>4. query'.comps = log /\ query'.settled = Settled(t)
      BY <3>1
    <3> QED
      BY <2>3, <3>1, <3>2, <3>3, <3>4 DEF AnswersSound
  <2>9. CASE ReadHooks
    <3> DEFINE new == {e \in Episodes(TextOrder, query.comps, hooks) :
                          e.after \in query.settled}
    <3>1. /\ answered' = answered \union new /\ query' = NoQuery
          /\ UNCHANGED <<now, asking, calling, log, hooks>>
      BY <2>9 DEF ReadHooks
    <3>2. ASSUME NEW e \in new
          PROVE  /\ e.before \in log /\ e.after \in log /\ Past(e.after)'
                 /\ \/ e \in Episodes(TextOrder, log, hooks)
                    \/ \E t \in Stamps : Cut(e.after.at, t)
      <4>1. e \in Episodes(TextOrder, query.comps, hooks) /\ e.after \in query.settled
        OBVIOUS
      <4>2. e.before \in query.comps /\ e.after \in query.comps
        BY <4>1, EpisodeSays
      <4>3. query.comps \subseteq log /\ hooks \subseteq Instant
        BY DEF AnswersSound, LogSound, LogTypeOK
      <4>4. \A c \in log \ query.comps : <<e.after.at, c.at>> \in TimeOrder
        BY <4>1 DEF AnswersSound
      <4>5. \/ e \in Episodes(TextOrder, log, hooks)
            \/ \E t \in Stamps : Cut(e.after.at, t)
        BY <2>2, <4>1, <4>3, <4>4, VerdictStays DEF Stamps
      <4> QED
        BY <2>4, <4>1, <4>2, <4>3, <4>5
    <3> HIDE DEF new
    <3>3. AnswersStayTrue'
      <4>1. Stamps' = Stamps
        BY <3>1 DEF Stamps
      <4> QED
        BY <3>1, <3>2, <4>1 DEF AnswersSound, AnswersStayTrue
    <3> QED
      BY <2>3, <3>1, <3>2, <3>3 DEF AnswersSound, NoQuery
  <2> QED
    BY <2>5, <2>6, <2>7, <2>8, <2>9
       DEF LogNext, logVars, CompletionArrives, LoseCompletion, HookArrives, LoseHook, LoseAll
<1> QED
  BY <1>1, <1>2, LogSoundInvariance, PTL DEF LogSpec

(* A verdict on a pair that everything else is stamped after is final, for *)
(* any number of records that come later, between the two statements of    *)
(* the query or after them, but for cut fractions.                         *)
THEOREM AnswersAreFinal == LogSpec => []AnswersStayTrue
<1>1. AnswersSound => AnswersStayTrue
  BY DEF AnswersSound
<1> QED
  BY <1>1, AnswersInvariance, PTL
==============================================================================
