------------------------- MODULE TimestampsProofs -------------------------
(***************************************************************************)
(* Theorems about Timestamps: both orders are total, and where that of the *)
(* texts departs from that of the instants, for any number of digits.      *)
(***************************************************************************)
EXTENDS Timestamps, FiniteSetTheorems, WellFoundedInduction, TLAPS

(* Of a set of natural numbers one is the least: there is no infinite      *)
(* descent.                                                                *)
LEMMA NatDescent == \A x, y \in Nat : x < y => <<x, y>> \in OpToRel(<, Nat)
  BY DEF OpToRel

(* Well-founded relations have minimal elements. *)
LEMMA LeastIn ==
  ASSUME NEW R, IsWellFoundedOn(R, Nat), NEW T, T \subseteq Nat, T # {}
  PROVE  \E x \in T : \A y \in T : ~(<<y, x>> \in R)
  BY WFMin

(* The principle that stands for induction in what follows. *)
LEMMA LeastOf ==
  ASSUME NEW T, T \subseteq Nat, T # {}
  PROVE  \E x \in T : \A y \in T : x <= y
<1>1. \E R : IsWellFoundedOn(R, Nat) /\ \A x, y \in Nat : x < y => <<x, y>> \in R
  BY NatLessThanWellFounded, NatDescent, Zenon
<1>2. PICK R : IsWellFoundedOn(R, Nat) /\ \A x, y \in Nat : x < y => <<x, y>> \in R
  BY <1>1
<1>3. IsWellFoundedOn(R, Nat)
  BY <1>2
<1>4. PICK x \in T : \A y \in T : ~(<<y, x>> \in R)
  BY <1>3, LeastIn
<1>5. \A y \in T : ~(y < x)
  <2> TAKE y \in T
  <2>1. y < x => <<y, x>> \in R
    BY <1>2
  <2> QED
    BY <1>4, <2>1
<1>6. \A y \in T : x <= y
  BY <1>5
<1> QED
  BY <1>6

(* A finite set has an element that no other is below.                     *)
LEMMA LowestOf ==
  ASSUME NEW S, IsFiniteSet(S), S # {}, NEW R,
         \A x \in S : <<x, x>> \notin R,
         \A x, y, z \in S : <<x, y>> \in R /\ <<y, z>> \in R => <<x, z>> \in R
  PROVE  \E x \in S : \A y \in S : <<y, x>> \notin R
<1> DEFINE Below(x) == {y \in S : <<y, x>> \in R}
           T == {Cardinality(Below(x)) : x \in S}
<1>1. \A x \in S : IsFiniteSet(Below(x)) /\ Cardinality(Below(x)) \in Nat
  <2> TAKE x \in S
  <2>1. Below(x) \in SUBSET S
    OBVIOUS
  <2> HIDE DEF Below
  <2>2. IsFiniteSet(Below(x))
    BY <2>1, FS_Subset
  <2> QED
    BY <2>2, FS_CardinalityType
<1>2. T \subseteq Nat /\ T # {}
  <2> HIDE DEF Below
  <2> QED
    BY <1>1
<1>3. PICK n \in T : \A m \in T : n <= m
  <2> HIDE DEF T
  <2> QED
    BY <1>2, LeastOf
<1>4. PICK x \in S : n = Cardinality(Below(x))
  BY <1>3
<1>5. ASSUME NEW y \in S, <<y, x>> \in R PROVE FALSE
  <2>1. Below(y) \in SUBSET Below(x)
    BY <1>5
  <2>2. Below(y) # Below(x)
    <3>1. y \in Below(x) /\ y \notin Below(y)
      BY <1>5
    <3> QED
      BY <3>1
  <2> HIDE DEF Below
  <2>3. Cardinality(Below(x)) <= Cardinality(Below(y))
    <3>1. Cardinality(Below(y)) \in T
      OBVIOUS
    <3> HIDE DEF T
    <3> QED
      BY <1>3, <1>4, <3>1
  <2>4. Cardinality(Below(y)) <= Cardinality(Below(x))
    BY <1>1, <2>1, FS_Subset
  <2>5. Cardinality(Below(x)) = Cardinality(Below(y))
    BY <1>1, <2>3, <2>4
  <2> QED
    BY <1>1, <2>1, <2>2, <2>5, FS_Subset
<1> QED
  BY <1>5

------------------------------------------------------------------------------
(* The first difference orders the fractions of a second, strictly and     *)
(* totally.                                                                *)
LEMMA PrecedesIsOrder ==
  ASSUME NEW f \in [Places -> Int], NEW g \in [Places -> Int], NEW h \in [Places -> Int]
  PROVE  /\ ~Precedes(f, f)
         /\ Precedes(f, g) /\ Precedes(g, h) => Precedes(f, h)
         /\ f = g \/ Precedes(f, g) \/ Precedes(g, f)
<1> USE TimestampsAssumption DEF Places
<1>1. ~Precedes(f, f)
  BY DEF Precedes
<1>2. ASSUME Precedes(f, g), Precedes(g, h) PROVE Precedes(f, h)
  <2>1. PICK i \in Places : f[i] < g[i] /\ \A j \in 1..(i - 1) : f[j] = g[j]
    BY <1>2 DEF Precedes
  <2>2. PICK k \in Places : g[k] < h[k] /\ \A j \in 1..(k - 1) : g[j] = h[j]
    BY <1>2 DEF Precedes
  <2>0. \A j \in Places : f[j] \in Int /\ g[j] \in Int /\ h[j] \in Int
    OBVIOUS
  <2>3. CASE i <= k
    <3>1. i = k \/ i \in 1..(k - 1)
      BY <2>3
    <3>2. g[i] <= h[i]
      BY <2>0, <2>2, <3>1
    <3>3. f[i] < h[i]
      BY <2>0, <2>1, <3>2
    <3>4. ASSUME NEW j \in 1..(i - 1) PROVE f[j] = h[j]
      <4>1. j \in 1..(k - 1)
        BY <2>3
      <4> QED
        BY <2>1, <2>2, <4>1
    <3> QED
      BY <3>3, <3>4 DEF Precedes
  <2>4. CASE k < i
    <3>1. k \in 1..(i - 1)
      BY <2>4
    <3>2. f[k] < h[k]
      BY <2>1, <2>2, <3>1
    <3>3. ASSUME NEW j \in 1..(k - 1) PROVE f[j] = h[j]
      <4>1. j \in 1..(i - 1)
        BY <2>4
      <4> QED
        BY <2>1, <2>2, <4>1
    <3> QED
      BY <3>2, <3>3 DEF Precedes
  <2> QED
    BY <2>3, <2>4
<1>3. ASSUME f # g PROVE Precedes(f, g) \/ Precedes(g, f)
  <2> DEFINE T == {i \in Places : f[i] # g[i]}
  <2>1. T # {} /\ T \subseteq Nat
    <3>1. (\A i \in Places : f[i] = g[i]) => f = g
      OBVIOUS
    <3>2. T # {}
      BY <1>3, <3>1
    <3>3. T \subseteq Nat
      OBVIOUS
    <3> QED
      BY <3>2, <3>3
  <2>2. PICK i \in T : \A j \in T : i <= j
    <3> HIDE DEF T
    <3> QED
      BY <2>1, LeastOf
  <2>3. i \in Places /\ f[i] # g[i] /\ \A j \in 1..(i - 1) : f[j] = g[j]
    <3>1. i \in Places /\ f[i] # g[i]
      OBVIOUS
    <3>2. ASSUME NEW j \in 1..(i - 1) PROVE f[j] = g[j]
      <4>1. j \in Places /\ ~(i <= j)
        BY <3>1
      <4> QED
        BY <2>2, <4>1
    <3> QED
      BY <3>1, <3>2
  <2>4. f[i] < g[i] \/ g[i] < f[i]
    BY <2>3
  <2> QED
    BY <2>3, <2>4 DEF Precedes
<1> QED
  BY <1>1, <1>2, <1>3

(* Strict and total, on the instants. *)
Orders(R) ==
    /\ \A a \in Instant : <<a, a>> \notin R
    /\ \A a, b, c \in Instant : <<a, b>> \in R /\ <<b, c>> \in R => <<a, c>> \in R
    /\ \A a, b \in Instant : a = b \/ <<a, b>> \in R \/ <<b, a>> \in R

LEMMA FractionTyped ==
  ASSUME NEW t \in Instant
  PROVE  /\ t.sec \in Int
         /\ t.frac \in [Places -> Int]
         /\ \A i \in Places : t.frac[i] \in 0..(Base - 1)
         /\ Characters(t) \in [Places -> Int]
         /\ \A i \in Places : Written(t, i) => Characters(t)[i] = t.frac[i]
         /\ \A i \in Places : ~Written(t, i) => Characters(t)[i] = Base /\ t.frac[i] = 0
<1>0. t.sec \in Int
  <2>1. t.sec \in Seconds
    BY DEF Instant
  <2>2. \A s \in Seconds : s \in Int
    BY TimestampsAssumption
  <2> QED
    BY <2>1, <2>2
<1>1. t.frac \in [Places -> 0..(Base - 1)]
  BY DEF Instant
<1>2. \A i \in Places : ~Written(t, i) => t.frac[i] = 0
  BY TimestampsAssumption DEF Written, Places
<1> QED
  BY <1>0, <1>1, <1>2, TimestampsAssumption DEF Characters

(* Two instants that differ are written differently. *)
LEMMA TextsDiffer ==
  ASSUME NEW a \in Instant, NEW b \in Instant, a.sec = b.sec, Characters(a) = Characters(b)
  PROVE  a = b
<1>1. \A i \in Places : a.frac[i] = b.frac[i]
  <2> TAKE i \in Places
  <2>1. a.frac[i] # Base /\ b.frac[i] # Base
    <3>1. a.frac[i] \in 0..(Base - 1) /\ b.frac[i] \in 0..(Base - 1)
      BY FractionTyped
    <3> QED
      BY <3>1, TimestampsAssumption
  <2>2. Characters(a)[i] = Characters(b)[i]
    OBVIOUS
  <2>3. CASE Written(a, i) /\ Written(b, i)
    BY <2>2, <2>3, FractionTyped
  <2>4. CASE ~Written(a, i) /\ ~Written(b, i)
    BY <2>4, FractionTyped
  <2>5. CASE Written(a, i) /\ ~Written(b, i)
    <3>1. Characters(a)[i] = a.frac[i] /\ Characters(b)[i] = Base
      BY <2>5, FractionTyped
    <3> QED
      BY <2>1, <2>2, <3>1
  <2>6. CASE ~Written(a, i) /\ Written(b, i)
    <3>1. Characters(b)[i] = b.frac[i] /\ Characters(a)[i] = Base
      BY <2>6, FractionTyped
    <3> QED
      BY <2>1, <2>2, <3>1
  <2> QED
    BY <2>3, <2>4, <2>5, <2>6
<1>2. a.frac = b.frac
  <2>1. a.frac \in [Places -> Int] /\ b.frac \in [Places -> Int]
    BY FractionTyped
  <2> QED
    BY <1>1, <2>1
<1> QED
  BY <1>2 DEF Instant

LEMMA TimeIsOrder == Orders(TimeOrder)
<1>1. \A a, b \in Instant : a.sec = b.sec /\ a.frac = b.frac => a = b
  BY DEF Instant
<1>2. ASSUME NEW a \in Instant PROVE <<a, a>> \notin TimeOrder
  BY FractionTyped, PrecedesIsOrder DEF TimeOrder
<1>3. ASSUME NEW a \in Instant, NEW b \in Instant, NEW c \in Instant,
             <<a, b>> \in TimeOrder, <<b, c>> \in TimeOrder
      PROVE  <<a, c>> \in TimeOrder
  <2>1. Precedes(a.frac, b.frac) /\ Precedes(b.frac, c.frac) => Precedes(a.frac, c.frac)
    BY FractionTyped, PrecedesIsOrder
  <2>2. a.sec \in Int /\ b.sec \in Int /\ c.sec \in Int
    BY FractionTyped
  <2> QED
    BY <1>3, <2>1, <2>2 DEF TimeOrder
<1>4. ASSUME NEW a \in Instant, NEW b \in Instant, a # b
      PROVE  <<a, b>> \in TimeOrder \/ <<b, a>> \in TimeOrder
  <2>1. a.sec # b.sec \/ a.frac # b.frac
    BY <1>1, <1>4
  <2>2. a.frac # b.frac => Precedes(a.frac, b.frac) \/ Precedes(b.frac, a.frac)
    BY FractionTyped, PrecedesIsOrder
  <2>3. a.sec \in Int /\ b.sec \in Int
    BY FractionTyped
  <2> QED
    BY <2>1, <2>2, <2>3 DEF TimeOrder
<1> QED
  BY <1>2, <1>3, <1>4 DEF Orders

LEMMA TextIsOrder == Orders(TextOrder)
<1>2. ASSUME NEW a \in Instant PROVE <<a, a>> \notin TextOrder
  BY FractionTyped, PrecedesIsOrder DEF TextOrder
<1>3. ASSUME NEW a \in Instant, NEW b \in Instant, NEW c \in Instant,
             <<a, b>> \in TextOrder, <<b, c>> \in TextOrder
      PROVE  <<a, c>> \in TextOrder
  <2>1. Precedes(Characters(a), Characters(b)) /\ Precedes(Characters(b), Characters(c))
          => Precedes(Characters(a), Characters(c))
    BY FractionTyped, PrecedesIsOrder
  <2>2. a.sec \in Int /\ b.sec \in Int /\ c.sec \in Int
    BY FractionTyped
  <2> QED
    BY <1>3, <2>1, <2>2 DEF TextOrder
<1>4. ASSUME NEW a \in Instant, NEW b \in Instant, a # b
      PROVE  <<a, b>> \in TextOrder \/ <<b, a>> \in TextOrder
  <2>1. a.sec # b.sec \/ Characters(a) # Characters(b)
    BY <1>4, TextsDiffer
  <2>2. Characters(a) # Characters(b)
          => Precedes(Characters(a), Characters(b)) \/ Precedes(Characters(b), Characters(a))
    BY FractionTyped, PrecedesIsOrder
  <2>3. a.sec \in Int /\ b.sec \in Int
    BY FractionTyped
  <2> QED
    BY <2>1, <2>2, <2>3 DEF TextOrder
<1> QED
  BY <1>2, <1>3, <1>4 DEF Orders

(* A cut fraction is the earlier one and sorts behind. *)
LEMMA CutMisorders ==
  ASSUME NEW a \in Instant, NEW b \in Instant, Cut(a, b)
  PROVE  <<a, b>> \in TimeOrder /\ <<b, a>> \in TextOrder
<1> USE TimestampsAssumption DEF Places
<1> DEFINE T == {i \in Places : a.frac[i] # b.frac[i]}
           U == {i \in Places : ~Written(a, i)}
<1>1. a.sec = b.sec /\ a.frac # b.frac
  BY DEF Cut, Instant
<1>2. T # {} /\ T \subseteq Nat
  <2>1. a.frac \in [Places -> Int] /\ b.frac \in [Places -> Int]
    BY FractionTyped
  <2>2. (\A i \in Places : a.frac[i] = b.frac[i]) => a.frac = b.frac
    BY <2>1
  <2> QED
    BY <1>1, <2>2
<1>3. PICK i \in T : \A j \in T : i <= j
  <2> HIDE DEF T
  <2> QED
    BY <1>2, LeastOf
<1>4. i \in Places /\ a.frac[i] # b.frac[i] /\ \A j \in 1..(i - 1) : a.frac[j] = b.frac[j]
  <2>1. i \in Places /\ a.frac[i] # b.frac[i]
    OBVIOUS
  <2>2. ASSUME NEW j \in 1..(i - 1) PROVE a.frac[j] = b.frac[j]
    <3>1. j \in Places /\ ~(i <= j)
      BY <2>1
    <3> QED
      BY <1>3, <3>1
  <2> QED
    BY <2>1, <2>2
<1>5. ~Written(a, i)
  BY <1>4 DEF Cut
<1>6. a.frac[i] = 0 /\ b.frac[i] > 0
  <2>1. a.frac[i] = 0
    BY <1>4, <1>5, FractionTyped
  <2>2. b.frac[i] \in 0..(Base - 1)
    BY <1>4, FractionTyped
  <2> QED
    BY <1>4, <2>1, <2>2
<1>7. <<a, b>> \in TimeOrder
  <2>1. Precedes(a.frac, b.frac)
    BY <1>4, <1>6 DEF Precedes
  <2> QED
    BY <1>1, <2>1 DEF TimeOrder
<1>8. PICK k \in U : \A j \in U : k <= j
  <2>1. U # {} /\ U \subseteq Nat
    BY <1>4, <1>5
  <2> HIDE DEF U
  <2> QED
    BY <2>1, LeastOf
<1>9. k \in Places /\ ~Written(a, k) /\ k <= i /\ \A j \in 1..(k - 1) : Written(a, j)
  BY <1>4, <1>5, <1>8
<1>10. \A j \in 1..k : Written(b, j)
  BY <1>4, <1>6, <1>9 DEF Written
<1>11. Characters(b)[k] < Characters(a)[k]
  <2>1. Characters(b)[k] = b.frac[k] /\ Characters(a)[k] = Base
    BY <1>9, <1>10, FractionTyped
  <2>2. b.frac[k] \in 0..(Base - 1)
    BY <1>9, FractionTyped
  <2> QED
    BY <2>1, <2>2
<1>12. \A j \in 1..(k - 1) : Characters(b)[j] = Characters(a)[j]
  BY <1>4, <1>9, <1>10, FractionTyped
<1>13. <<b, a>> \in TextOrder
  <2>1. Precedes(Characters(b), Characters(a))
    BY <1>9, <1>11, <1>12 DEF Precedes
  <2> QED
    BY <1>1, <2>1 DEF TextOrder
<1> QED
  BY <1>7, <1>13

(* No other earlier instant does. *)
LEMMA UncutAgree ==
  ASSUME NEW a \in Instant, NEW b \in Instant, <<a, b>> \in TimeOrder, ~Cut(a, b)
  PROVE  <<a, b>> \in TextOrder
<1> USE TimestampsAssumption DEF Places
<1>1. CASE a.sec < b.sec
  BY <1>1 DEF TextOrder
<1>2. CASE a.sec = b.sec /\ Precedes(a.frac, b.frac)
  <2>1. PICK i \in Places : a.frac[i] < b.frac[i] /\ \A j \in 1..(i - 1) : a.frac[j] = b.frac[j]
    BY <1>2 DEF Precedes
  <2>2. Written(a, i)
    <3> SUFFICES ASSUME ~Written(a, i) PROVE FALSE
      OBVIOUS
    <3>1. \A j \in Places : Written(a, j) => j < i
      BY DEF Written
    <3>2. \A j \in Places : Written(a, j) => a.frac[j] = b.frac[j]
      BY <2>1, <3>1
    <3>3. a # b
      <4>1. a.frac[i] \in 0..(Base - 1)
        BY FractionTyped
      <4> QED
        BY <2>1, <4>1
    <3> QED
      BY <1>2, <3>2, <3>3 DEF Cut
  <2>3. \A j \in 1..i : Written(a, j) /\ Written(b, j)
    <3>1. b.frac[i] # 0
      <4>1. a.frac[i] \in 0..(Base - 1)
        BY FractionTyped
      <4>2. b.frac[i] \in 0..(Base - 1)
        BY FractionTyped
      <4> QED
        BY <2>1, <4>1, <4>2
    <3> QED
      BY <2>2, <3>1 DEF Written
  <2>4. \A j \in 1..i : Characters(a)[j] = a.frac[j] /\ Characters(b)[j] = b.frac[j]
    BY <2>3, FractionTyped
  <2>5. Precedes(Characters(a), Characters(b))
    BY <2>1, <2>4 DEF Precedes
  <2> QED
    BY <1>2, <2>5 DEF TextOrder
<1> QED
  BY <1>1, <1>2 DEF TimeOrder

(* The texts of RFC3339Nano sort as the instants do, but for the pairs of  *)
(* which the earlier fraction is cut: those they sort the other way round. *)
(* So the comment of compactHookBetween is right of all the others.        *)
THEOREM TextsSortUnlessCut ==
  \A a, b \in Instant :
     <<a, b>> \in TextOrder <=> Cut(b, a) \/ (<<a, b>> \in TimeOrder /\ ~Cut(a, b))
<1> SUFFICES ASSUME NEW a \in Instant, NEW b \in Instant
             PROVE <<a, b>> \in TextOrder
                     <=> Cut(b, a) \/ (<<a, b>> \in TimeOrder /\ ~Cut(a, b))
  OBVIOUS
<1>1. ~(<<a, b>> \in TextOrder /\ <<b, a>> \in TextOrder)
  BY TextIsOrder DEF Orders
<1>2. a = b => <<a, b>> \notin TextOrder
  BY TextIsOrder DEF Orders
<1>3. a = b \/ <<a, b>> \in TimeOrder \/ <<b, a>> \in TimeOrder
  BY TimeIsOrder DEF Orders
<1> QED
  BY <1>1, <1>2, <1>3, CutMisorders, UncutAgree

(* Of finitely many instants one is the first, and one the last, by text.  *)
LEMMA TextEnds ==
  ASSUME NEW S, S \subseteq Instant, IsFiniteSet(S), S # {}
  PROVE  /\ \E x \in S : \A y \in S : y = x \/ <<x, y>> \in TextOrder
         /\ \E x \in S : \A y \in S : y = x \/ <<y, x>> \in TextOrder
<1> DEFINE Up == {p \in S \X S : <<p[1], p[2]>> \in TextOrder}
           Down == {p \in S \X S : <<p[2], p[1]>> \in TextOrder}
<1>1. /\ \A x \in S : <<x, x>> \notin Up
      /\ \A x, y, z \in S : <<x, y>> \in Up /\ <<y, z>> \in Up => <<x, z>> \in Up
  BY TextIsOrder DEF Orders
<1>2. /\ \A x \in S : <<x, x>> \notin Down
      /\ \A x, y, z \in S : <<x, y>> \in Down /\ <<y, z>> \in Down => <<x, z>> \in Down
  BY TextIsOrder DEF Orders
<1>3. \E x \in S : \A y \in S : <<y, x>> \notin Up
  <2> HIDE DEF Up
  <2> QED
    BY <1>1, LowestOf
<1>4. \E x \in S : \A y \in S : <<y, x>> \notin Down
  <2> HIDE DEF Down
  <2> QED
    BY <1>2, LowestOf
<1>5. \A x, y \in S : y = x \/ <<x, y>> \in TextOrder \/ <<y, x>> \in TextOrder
  BY TextIsOrder DEF Orders
<1> QED
  BY <1>3, <1>4, <1>5
==============================================================================
