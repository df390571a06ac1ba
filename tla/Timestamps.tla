------------------------------ MODULE Timestamps ------------------------------
(***************************************************************************)
(* The times that captured requests and hooks are stamped with, and the    *)
(* two orders on them: that of the instants, and that of their RFC3339Nano *)
(* texts, by which the store sorts and the detection of compactions        *)
(* compares.  The format drops the trailing zeros of the fraction, and its *)
(* point with them, so that a "Z" may stand where another text has its     *)
(* point or a digit; "Z" is greater than both.                             *)
(***************************************************************************)
EXTENDS Integers

CONSTANTS
    Seconds,   \* numbers, for the part of a text before the fraction
    Digits,    \* how many digits a fraction has
    Base       \* how many values a digit has

ASSUME TimestampsAssumption ==
    Seconds \subseteq Nat /\ Digits \in Nat /\ Base \in Nat \ {0}

Places == 1..Digits
Instant == [sec : Seconds, frac : [Places -> 0..(Base - 1)]]

(* A digit is written if it or a later one is not zero. *)
Written(t, i) == \E j \in i..Digits : t.frac[j] # 0

(* Mutant: the layout is time.RFC3339, which has no fraction. *)
SecondsOnly(t) == [i \in Places |-> Base]

(* The characters of the fraction.  At the first place that is not written *)
(* there is the "Z"; beyond it there is nothing to compare, as two texts   *)
(* that agree up to their "Z" are the same.                                *)
Characters(t) == [i \in Places |-> IF Written(t, i) THEN t.frac[i] ELSE Base]

(* The first difference decides. *)
Precedes(f, g) == \E i \in Places : f[i] < g[i] /\ \A j \in 1..(i - 1) : f[j] = g[j]

TimeOrder ==
    {p \in Instant \X Instant :
        \/ p[1].sec < p[2].sec
        \/ p[1].sec = p[2].sec /\ Precedes(p[1].frac, p[2].frac)}

TextOrder ==
    {p \in Instant \X Instant :
        \/ p[1].sec < p[2].sec
        \/ p[1].sec = p[2].sec /\ Precedes(Characters(p[1]), Characters(p[2]))}

(* The fraction of a, as written, is the beginning of that of b. *)
Cut(a, b) ==
    /\ a.sec = b.sec
    /\ a # b
    /\ \A i \in Places : Written(a, i) => a.frac[i] = b.frac[i]
==============================================================================
