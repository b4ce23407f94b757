------------------------------ MODULE LaneLemmas ------------------------------
(***************************************************************************)
(* Facts about lanes (sequences of trays), about the least number of a     *)
(* set, and about counting up to a number and functions that are defined   *)
(* that way, on which the proofs about the program rest.                   *)
(***************************************************************************)
EXTENDS Integers, SequencesExt, FiniteSetsExt, TLAPS, SequenceTheorems, WellFoundedInduction

\* Min() of a set of numbers that is not empty is its least element.
LEMMA MinOfNaturals ==
    ASSUME NEW S, S \subseteq Nat, S # {}
    PROVE  Min(S) \in S /\ \A n \in S : Min(S) <= n
<1> DEFINE R == OpToRel(<, Nat)
<1>0. R = {ss \in Nat \X Nat : ss[1] < ss[2]}
  BY Zenon DEF OpToRel
<1>1. IsWellFoundedOn(R, Nat)
  BY NatLessThanWellFounded
<1> HIDE DEF R
<1>2. PICK x \in S : \A y \in S : ~ (<<y, x>> \in R)
  BY <1>1, WFMin
<1>3. \A y \in S : x <= y
  <2> SUFFICES ASSUME NEW y \in S PROVE x <= y
    OBVIOUS
  <2>1. <<y, x>> \in Nat \X Nat /\ <<y, x>>[1] = y /\ <<y, x>>[2] = x
    OBVIOUS
  <2>2. ~(y < x)
    BY <1>0, <1>2, <2>1, Zenon
  <2> QED
    BY <2>2
<1> QED
  BY <1>3 DEF Min

\* What stands in two lanes, one behind the other.
LEMMA RangeOfConcat ==
    ASSUME NEW S, NEW s \in Seq(S), NEW t \in Seq(S)
    PROVE  ToSet(s \o t) = ToSet(s) \cup ToSet(t)
<1> USE DEF ToSet
<1>1. s \o t \in Seq(S) /\ Len(s \o t) = Len(s) + Len(t) /\ Len(s) \in Nat /\ Len(t) \in Nat
  BY ConcatProperties, LenProperties
<1>2. \A i \in 1..Len(s) : (s \o t)[i] = s[i]
  OBVIOUS
<1>3. \A i \in 1..Len(t) : (s \o t)[Len(s) + i] = t[i] /\ Len(s) + i \in 1..Len(s \o t)
  BY <1>1
<1>4. ASSUME NEW x \in ToSet(s \o t) PROVE x \in ToSet(s) \cup ToSet(t)
  <2>1. PICK i \in 1..Len(s \o t) : x = (s \o t)[i]
    BY <1>1
  <2>2. CASE i <= Len(s)
    BY <2>1, <2>2, <1>1, <1>2
  <2>3. CASE i > Len(s)
    <3>1. i - Len(s) \in 1..Len(t) /\ i = Len(s) + (i - Len(s))
      BY <2>3, <1>1
    <3> QED
      BY <2>1, <3>1, <1>3
  <2> QED
    BY <2>2, <2>3, <1>1
<1>5. \A x \in ToSet(s) \cup ToSet(t) : x \in ToSet(s \o t)
  <2>1. DOMAIN s = 1..Len(s) /\ DOMAIN t = 1..Len(t) /\ DOMAIN (s \o t) = 1..Len(s \o t)
    BY <1>1
  <2>2. \A i \in 1..Len(s) : i \in 1..Len(s \o t)
    BY <1>1
  <2> QED
    BY <2>1, <2>2, <1>2, <1>3
<1> QED
  BY <1>4, <1>5

\* Two lanes, one behind the other, hold nothing twice if neither does and
\* they hold nothing in common.
LEMMA InjectiveConcat ==
    ASSUME NEW S, NEW s \in Seq(S), NEW t \in Seq(S)
    PROVE  IsInjective(s \o t)
              <=> IsInjective(s) /\ IsInjective(t) /\ ToSet(s) \cap ToSet(t) = {}
<1> USE DEF ToSet, IsInjective
<1>1. s \o t \in Seq(S) /\ Len(s \o t) = Len(s) + Len(t) /\ Len(s) \in Nat /\ Len(t) \in Nat
  BY ConcatProperties, LenProperties
<1>2. \A i \in 1..Len(s) : (s \o t)[i] = s[i] /\ i \in 1..Len(s \o t)
  BY <1>1
<1>3. \A i \in 1..Len(t) : (s \o t)[Len(s) + i] = t[i] /\ Len(s) + i \in 1..Len(s \o t)
  BY <1>1
<1>4. DOMAIN s = 1..Len(s) /\ DOMAIN t = 1..Len(t) /\ DOMAIN (s \o t) = 1..Len(s \o t)
  BY <1>1
<1>5. ASSUME IsInjective(s \o t)
      PROVE  IsInjective(s) /\ IsInjective(t) /\ ToSet(s) \cap ToSet(t) = {}
  <2>1. IsInjective(s)
    BY <1>5, <1>2, <1>4
  <2>2. \A i, j \in 1..Len(t) : t[i] = t[j] => Len(s) + i = Len(s) + j
    BY <1>5, <1>3, <1>4
  <2>3. IsInjective(t)
    BY <2>2, <1>1, <1>4
  <2>4. \A i \in 1..Len(s), j \in 1..Len(t) : s[i] = t[j] => i = Len(s) + j
    BY <1>5, <1>2, <1>3, <1>4
  <2>5. \A i \in 1..Len(s), j \in 1..Len(t) : i # Len(s) + j
    BY <1>1
  <2> QED
    BY <2>1, <2>3, <2>4, <2>5, <1>4
<1>6. ASSUME IsInjective(s), IsInjective(t), ToSet(s) \cap ToSet(t) = {},
             NEW i \in DOMAIN (s \o t), NEW j \in DOMAIN (s \o t), (s \o t)[i] = (s \o t)[j]
      PROVE  i = j
  <2> DEFINE behind(n) == n > Len(s)
  <2>1. \A n \in DOMAIN (s \o t) : behind(n) => /\ n - Len(s) \in 1..Len(t)
                                                /\ n = Len(s) + (n - Len(s))
    BY <1>1, <1>4
  <2>2. \A n \in DOMAIN (s \o t) : ~behind(n) => n \in 1..Len(s)
    BY <1>1, <1>4
  <2>3. \A n \in DOMAIN (s \o t) : behind(n) => (s \o t)[n] = t[n - Len(s)]
    BY <2>1, <1>3
  <2>4. CASE behind(i) /\ behind(j)
    <3>1. i - Len(s) = j - Len(s)
      BY <2>1, <2>3, <2>4, <1>6, <1>4
    <3> QED
      BY <3>1, <1>1, <1>4
  <2>5. CASE ~behind(i) /\ ~behind(j)
    BY <2>2, <2>5, <1>2, <1>4, <1>6
  <2>6. ASSUME NEW a \in DOMAIN (s \o t), NEW b \in DOMAIN (s \o t), behind(a), ~behind(b),
               (s \o t)[a] = (s \o t)[b]
        PROVE  FALSE
    <3>1. s[b] \in ToSet(s) /\ (s \o t)[b] = s[b]
      BY <2>2, <2>6, <1>2, <1>4
    <3>2. t[a - Len(s)] \in ToSet(t) /\ (s \o t)[a] = t[a - Len(s)]
      BY <2>1, <2>3, <2>6, <1>4
    <3> HIDE DEF ToSet
    <3> QED
      BY <3>1, <3>2, <2>6, <1>6
  <2> QED
    BY <2>4, <2>5, <2>6, <1>6
<1>7. ASSUME IsInjective(s), IsInjective(t), ToSet(s) \cap ToSet(t) = {}
      PROVE  IsInjective(s \o t)
  BY <1>6, <1>7
<1> QED
  BY <1>5, <1>7

\* A lane of one tray.
LEMMA RangeOfOne ==
    ASSUME NEW x
    PROVE  ToSet(<<x>>) = {x} /\ IsInjective(<<x>>)
  BY DEF ToSet, IsInjective

\* A tray is put behind a lane.
LEMMA RangeOfAppend ==
    ASSUME NEW S, NEW s \in Seq(S), NEW x \in S
    PROVE  /\ ToSet(Append(s, x)) = ToSet(s) \cup {x}
           /\ IsInjective(Append(s, x)) <=> IsInjective(s) /\ x \notin ToSet(s)
<1>1. <<x>> \in Seq(S)
  OBVIOUS
<1>2. Append(s, x) = s \o <<x>>
  BY AppendIsConcat
<1>3. ToSet(s \o <<x>>) = ToSet(s) \cup ToSet(<<x>>)
  BY ZenonT(30), <1>1, RangeOfConcat
<1>4. IsInjective(s \o <<x>>)
         <=> IsInjective(s) /\ IsInjective(<<x>>) /\ ToSet(s) \cap ToSet(<<x>>) = {}
  BY <1>1, InjectiveConcat
<1> QED
  BY <1>2, <1>3, <1>4, RangeOfOne

\* A stretch of a lane.
LEMMA RangeOfSubSeq ==
    ASSUME NEW S, NEW s \in Seq(S), NEW a \in 1..Len(s) + 1, NEW b \in 0..Len(s)
    PROVE  /\ SubSeq(s, a, b) \in Seq(S)
           /\ ToSet(SubSeq(s, a, b)) = {s[i] : i \in a..b}
           /\ IsInjective(s) => IsInjective(SubSeq(s, a, b))
<1> DEFINE t == SubSeq(s, a, b)
<1>1. Len(s) \in Nat /\ DOMAIN s = 1..Len(s)
  BY LenProperties
<1>2. /\ t \in Seq(S)
      /\ Len(t) = IF a <= b THEN b - a + 1 ELSE 0
      /\ \A i \in 1..Len(t) : t[i] = s[a + i - 1]
  BY <1>1, SubSeqProperties
<1> HIDE DEF t
<1>3. DOMAIN t = 1..Len(t)
  BY <1>2, LenProperties
<1>4. \A i \in 1..Len(t) : a + i - 1 \in a..b /\ a + i - 1 \in 1..Len(s)
  BY <1>1, <1>2
<1>5. ToSet(t) = {s[i] : i \in a..b}
  <2>1. ASSUME NEW x \in ToSet(t) PROVE x \in {s[i] : i \in a..b}
    BY <1>2, <1>3, <1>4 DEF ToSet
  <2>2. ASSUME NEW i \in a..b PROVE s[i] \in ToSet(t)
    <3>1. i - a + 1 \in 1..Len(t) /\ a + (i - a + 1) - 1 = i
      BY <1>1, <1>2
    <3>2. t[i - a + 1] = s[i]
      BY <1>2, <3>1
    <3> QED
      BY <1>3, <3>1, <3>2 DEF ToSet
  <2> QED
    BY <2>1, <2>2
<1>6. ASSUME IsInjective(s), NEW i \in 1..Len(t), NEW j \in 1..Len(t), t[i] = t[j]
      PROVE  i = j
  <2>1. a + i - 1 = a + j - 1
    BY <1>1, <1>2, <1>4, <1>6 DEF IsInjective
  <2> QED
    BY <1>1, <1>2, <2>1
<1> QED
  BY <1>2, <1>3, <1>5, <1>6 DEF IsInjective, t

\* A lane without its k-th tray, whose first k - 1 trays went to the end.
LEMMA LaneWithout ==
    ASSUME NEW S, NEW s \in Seq(S), NEW k \in 1..Len(s), IsInjective(s)
    PROVE  LET t == SubSeq(s, k + 1, Len(s)) \o SubSeq(s, 1, k - 1)
           IN ToSet(t) = ToSet(s) \ {s[k]} /\ IsInjective(t)
<1> DEFINE a == SubSeq(s, k + 1, Len(s))
           b == SubSeq(s, 1, k - 1)
<1>1. Len(s) \in Nat /\ DOMAIN s = 1..Len(s)
  BY LenProperties
<1>2. /\ k + 1 \in 1..Len(s) + 1 /\ Len(s) \in 0..Len(s)
      /\ 1 \in 1..Len(s) + 1 /\ k - 1 \in 0..Len(s)
  BY <1>1
<1>3. /\ a \in Seq(S) /\ ToSet(a) = {s[i] : i \in k + 1..Len(s)} /\ IsInjective(a)
      /\ b \in Seq(S) /\ ToSet(b) = {s[i] : i \in 1..k - 1} /\ IsInjective(b)
  BY <1>2, RangeOfSubSeq
<1> HIDE DEF a, b
<1>4. \A i, j \in 1..Len(s) : s[i] = s[j] => i = j
  BY <1>1 DEF IsInjective
<1>5. \A i \in k + 1..Len(s), j \in 1..k - 1 : i \in 1..Len(s) /\ j \in 1..Len(s) /\ i # j
  BY <1>1
<1>6. ToSet(a) \cap ToSet(b) = {}
  BY <1>3, <1>4, <1>5
<1>7. ToSet(s) = {s[i] : i \in 1..Len(s)}
  BY <1>1 DEF ToSet
<1>8. ToSet(a) \cup ToSet(b) = ToSet(s) \ {s[k]}
  <2>1. \A i \in 1..Len(s) : i = k \/ i \in k + 1..Len(s) \/ i \in 1..k - 1
    BY <1>1
  <2>2. \A i \in k + 1..Len(s) : i \in 1..Len(s) /\ i # k
    BY <1>1
  <2>3. \A i \in 1..k - 1 : i \in 1..Len(s) /\ i # k
    BY <1>1
  <2> QED
    BY <1>3, <1>4, <1>7, <2>1, <2>2, <2>3
<1>9. ToSet(a \o b) = ToSet(a) \cup ToSet(b)
  BY <1>3, RangeOfConcat
<1>10. IsInjective(a \o b)
  BY <1>3, <1>6, InjectiveConcat
<1> QED
  BY <1>8, <1>9, <1>10 DEF a, b

\* Of three lanes, one behind the other.
LEMMA RangeOfThree ==
    ASSUME NEW S, NEW a \in Seq(S), NEW b \in Seq(S), NEW c \in Seq(S)
    PROVE  /\ a \o b \o c \in Seq(S)
           /\ ToSet(a \o b \o c) = ToSet(a) \cup ToSet(b) \cup ToSet(c)
           /\ IsInjective(a \o b \o c) <=>
                 /\ IsInjective(a) /\ IsInjective(b) /\ IsInjective(c)
                 /\ ToSet(a) \cap ToSet(b) = {}
                 /\ ToSet(a) \cap ToSet(c) = {} /\ ToSet(b) \cap ToSet(c) = {}
<1>1. a \o b \in Seq(S) /\ a \o b \o c \in Seq(S)
  BY ConcatProperties
<1>2. ToSet(a \o b) = ToSet(a) \cup ToSet(b)
  BY RangeOfConcat
<1>3. ToSet(a \o b \o c) = ToSet(a \o b) \cup ToSet(c)
  BY ZenonT(30), <1>1, RangeOfConcat
<1>4. IsInjective(a \o b) <=> IsInjective(a) /\ IsInjective(b) /\ ToSet(a) \cap ToSet(b) = {}
  BY InjectiveConcat
<1>5. IsInjective(a \o b \o c)
         <=> IsInjective(a \o b) /\ IsInjective(c) /\ ToSet(a \o b) \cap ToSet(c) = {}
  BY <1>1, InjectiveConcat
<1> QED
  BY <1>1, <1>2, <1>3, <1>4, <1>5

\* The first tray of the lane behind goes to the end of the lane before it.
LEMMA HeadMovesUp ==
    ASSUME NEW S, NEW a \in Seq(S), NEW b \in Seq(S), b # <<>>
    PROVE  Append(a, Head(b)) \o Tail(b) = a \o b
<1>1. /\ Head(b) \in S /\ Tail(b) \in Seq(S) /\ Len(Tail(b)) = Len(b) - 1
      /\ Len(a) \in Nat /\ Len(b) \in Nat \ {0}
  BY EmptySeq, LenProperties, HeadTailProperties
<1> DEFINE c == Append(a, Head(b))
<1>2. c \in Seq(S) /\ Len(c) = Len(a) + 1
  BY <1>1, AppendProperties
<1>3. c \o Tail(b) \in Seq(S) /\ a \o b \in Seq(S) /\ Len(c \o Tail(b)) = Len(a \o b)
      /\ Len(a \o b) = Len(a) + Len(b)
  BY <1>1, <1>2, ConcatProperties
<1>4. ASSUME NEW i \in 1..Len(a \o b) PROVE (c \o Tail(b))[i] = (a \o b)[i]
  <2>1. CASE i <= Len(a)
    BY <1>1, <1>2, <2>1
  <2>2. CASE i = Len(a) + 1
    BY <1>1, <1>2, <2>2
  <2>3. CASE i > Len(a) + 1
    BY <1>1, <1>2, <1>3, <2>3
  <2> QED
    BY <1>1, <1>3, <2>1, <2>2, <2>3
<1> HIDE DEF c
<1>5. c \o Tail(b) = a \o b
  BY <1>3, <1>4, SeqEqual
<1> QED
  BY <1>5 DEF c

\* Two ways to cut one lane hold the same trays.
LEMMA SameConcat ==
    ASSUME NEW S, NEW a \in Seq(S), NEW b \in Seq(S), NEW c \in Seq(S), NEW d \in Seq(S)
    PROVE  a \o b = c \o d =>
              /\ ToSet(a) \cup ToSet(b) = ToSet(c) \cup ToSet(d)
              /\ IsInjective(c) /\ IsInjective(d) /\ ToSet(c) \cap ToSet(d) = {}
                 => IsInjective(a) /\ IsInjective(b) /\ ToSet(a) \cap ToSet(b) = {}
<1>1. ToSet(a \o b) = ToSet(a) \cup ToSet(b)
  BY RangeOfConcat
<1>2. ToSet(c \o d) = ToSet(c) \cup ToSet(d)
  BY RangeOfConcat
<1>3. IsInjective(a \o b) <=> IsInjective(a) /\ IsInjective(b) /\ ToSet(a) \cap ToSet(b) = {}
  BY InjectiveConcat
<1>4. IsInjective(c \o d) <=> IsInjective(c) /\ IsInjective(d) /\ ToSet(c) \cap ToSet(d) = {}
  BY InjectiveConcat
<1> QED
  BY <1>1, <1>2, <1>3, <1>4, Zenon

-----------------------------------------------------------------------------
\* What holds of 0 and is handed on from a number to the next holds up to n.
LEMMA CountUp ==
    ASSUME NEW n \in Nat, NEW S, 0 \in S, \A i \in 0..n - 1 : i \in S => i + 1 \in S
    PROVE  \A i \in 0..n : i \in S
<1> DEFINE Out == {i \in 0..n : i \notin S}
<1> SUFFICES ASSUME Out # {} PROVE FALSE
  OBVIOUS
<1>1. Min(Out) \in Out /\ \A i \in Out : Min(Out) <= i
  <2>1. Out \subseteq Nat
    OBVIOUS
  <2> HIDE DEF Out
  <2> QED
    BY <2>1, MinOfNaturals
<1>2. PICK i \in 0..n : i \notin S /\ \A j \in Out : i <= j
  BY <1>1
<1>3. i # 0 /\ i - 1 \in 0..n - 1 /\ i - 1 + 1 = i
  BY <1>2
<1>4. i - 1 \in S
  BY <1>2, <1>3
<1> QED
  BY <1>2, <1>3, <1>4

\* f goes from base to its values step by step.
Computes(f, n, X, base, step) ==
    f \in [0..n -> X] /\ f[0] = base /\ \A i \in 1..n : f[i] = step[i][f[i - 1]]

\* A recursive function over 0..n, whose steps are given, exists.
LEMMA Recursion ==
    ASSUME NEW n \in Nat, NEW X, NEW base \in X, NEW step \in [1..n -> [X -> X]]
    PROVE  \E f : Computes(f, n, X, base, step)
<1> DEFINE To(k, f) == f[0] = base /\ \A i \in 1..k : f[i] = step[i][f[i - 1]]
           S == {k \in 0..n : \E f \in [0..k -> X] : To(k, f)}
<1>1. 0 \in S
  <2> DEFINE f == [i \in 0..0 |-> base]
  <2>1. f \in [0..0 -> X] /\ To(0, f)
    OBVIOUS
  <2> HIDE DEF f
  <2> QED
    BY <2>1
<1>2. ASSUME NEW k \in 0..n - 1, k \in S PROVE k + 1 \in S
  <2>1. PICK f \in [0..k -> X] : To(k, f)
    BY <1>2
  <2>2. k + 1 \in 1..n /\ step[k + 1] \in [X -> X] /\ f[k] \in X
    BY <1>2
  <2> DEFINE y == step[k + 1][f[k]]
             g == [i \in 0..k + 1 |-> IF i = k + 1 THEN y ELSE f[i]]
  <2>3. y \in X
    BY <2>2
  <2> HIDE DEF y
  <2>4. g \in [0..k + 1 -> X]
    BY <2>3
  <2>5. ASSUME NEW i \in 1..k + 1 PROVE g[i] = step[i][g[i - 1]]
    <3>1. CASE i = k + 1
      BY <3>1 DEF y
    <3>2. CASE i # k + 1
      <4>1. i \in 1..k /\ g[i] = f[i] /\ g[i - 1] = f[i - 1]
        BY <3>2
      <4> QED
        BY <2>1, <4>1
    <3> QED
      BY <3>1, <3>2
  <2>6. To(k + 1, g)
    <3>1. g[0] = f[0] /\ f[0] = base
      BY <2>1
    <3> HIDE DEF g
    <3> QED
      BY <2>5, <3>1
  <2> HIDE DEF g, To
  <2>7. k + 1 \in 0..n
    BY <1>2
  <2> QED
    BY <2>4, <2>6, <2>7
<1> HIDE DEF S
<1>3. \A k \in 0..n : k \in S
  BY <1>1, <1>2, CountUp
<1>4. n \in S
  BY <1>3
<1> QED
  BY <1>4 DEF S, Computes
=============================================================================
