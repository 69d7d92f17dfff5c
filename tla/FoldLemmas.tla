----------------------------- MODULE FoldLemmas -----------------------------
(***************************************************************************)
(* FoldLeft over a sequence, for any step operator: what appending one     *)
(* element does to it.  The components instantiate Op with the step of     *)
(* their fold.                                                             *)
(*                                                                         *)
(* The fold is defined on sets of positions and takes the last one first.  *)
(* Its existence and its agreement on common prefixes are proved by a      *)
(* least counterexample.                                                   *)
(***************************************************************************)
EXTENDS Integers, Sequences, SequencesExt, FiniteSetsExt, SumLemmas, TLAPS

CONSTANTS Op(_, _),   \* the value so far and the next element
          Base        \* the value of the empty sequence

Fold(s) == FoldLeft(Op, Base, s)

\* g is the fold of s on the sets of positions in D.
IsLeftFold(g, s, D) ==
  g = [T \in D |-> IF T = {} THEN Base ELSE Op(g[T \ {Max(T)}], s[Max(T)])]

\* The last position of a set of positions.
LEMMA MaxIs ==
  ASSUME NEW T, NEW m \in T, T \subseteq Int, \A k \in T : k <= m
  PROVE  Max(T) = m
<1>1. m \in T /\ \A y \in T : m >= y
  OBVIOUS
<1>2. \A x \in T : (\A y \in T : x >= y) => x = m
  OBVIOUS
<1> QED BY <1>1, <1>2 DEF Max

\* FoldLeft is the fold on the sets of positions.
LEMMA UnfoldLeft ==
  ASSUME NEW s
  PROVE  Fold(s) = (CHOOSE g : IsLeftFold(g, s, SUBSET (DOMAIN s)))[DOMAIN s]
BY DEF Fold, FoldLeft, MapThenFoldSet, IsLeftFold

\* The fold on the positions up to any n exists.
LEMMA LeftFoldExists ==
  ASSUME NEW s, NEW n \in Nat
  PROVE  \E g : IsLeftFold(g, s, SUBSET (1..n))
<1> DEFINE T == {k \in Nat : ~\E g : IsLeftFold(g, s, SUBSET (1..k))}
<1> SUFFICES ASSUME T # {} PROVE FALSE
  OBVIOUS
<1>1. PICK m \in T : \A k \in T : m <= k
  BY LeastNat
<1>2. CASE m = 0
  <2> DEFINE g == [R \in SUBSET (1..0) |-> Base]
  <2>1. \A R \in SUBSET (1..0) : R = {}
    OBVIOUS
  <2>2. g = [R \in SUBSET (1..0) |-> IF R = {} THEN Base ELSE Op(g[R \ {Max(R)}], s[Max(R)])]
    BY <2>1
  <2>3. IsLeftFold(g, s, SUBSET (1..0))
    BY <2>2 DEF IsLeftFold
  <2> QED BY <1>2, <2>3
<1>3. CASE m # 0
  <2>0. m \in Nat
    BY <1>1
  <2>1. m - 1 \in Nat /\ m - 1 \notin T
    <3>1. m - 1 \in Nat /\ ~(m <= m - 1)
      BY <1>3, <2>0
    <3> QED BY <1>1, <3>1
  <2>2. PICK g : IsLeftFold(g, s, SUBSET (1..(m - 1)))
    BY <2>1
  <2> DEFINE h == [R \in SUBSET (1..m) |-> IF m \in R THEN Op(g[R \ {m}], s[m]) ELSE g[R]]
  <2>3. ASSUME NEW R \in SUBSET (1..m)
        PROVE  h[R] = IF R = {} THEN Base ELSE Op(h[R \ {Max(R)}], s[Max(R)])
    <3>1. CASE m \in R
      <4>1. Max(R) = m
        <5>1. R \subseteq Int /\ \A k \in R : k <= m
          BY <2>0
        <5> QED BY <3>1, <5>1, MaxIs
      <4>2. R \ {m} \in SUBSET (1..m) /\ m \notin R \ {m}
        OBVIOUS
      <4>3. h[R \ {m}] = g[R \ {m}]
        BY <4>2
      <4>4. h[R] = Op(g[R \ {m}], s[m])
        BY <3>1
      <4> HIDE DEF h
      <4> QED BY <3>1, <4>1, <4>3, <4>4
    <3>2. CASE m \notin R
      <4>1. R \in SUBSET (1..(m - 1))
        BY <2>0, <3>2
      <4>2. h[R] = g[R]
        BY <3>2
      <4>3. g[R] = IF R = {} THEN Base ELSE Op(g[R \ {Max(R)}], s[Max(R)])
        BY <2>2, <4>1 DEF IsLeftFold
      <4>4. h[R \ {Max(R)}] = g[R \ {Max(R)}]
        BY <3>2
      <4> HIDE DEF h
      <4> QED BY <4>2, <4>3, <4>4
    <3> QED BY <3>1, <3>2
  <2>4. h = [R \in SUBSET (1..m) |-> h[R]]
    OBVIOUS
  <2> HIDE DEF h
  <2>5. IsLeftFold(h, s, SUBSET (1..m))
    BY <2>3, <2>4 DEF IsLeftFold
  <2> QED BY <2>5
<1> QED BY <1>2, <1>3

\* Folds of two sequences agree on a prefix that the sequences share.
LEMMA PrefixesAgree ==
  \A s, t, g, h : \A a, b, n \in Nat :
    /\ n <= a /\ n <= b
    /\ \A i \in 1..n : s[i] = t[i]
    /\ IsLeftFold(g, s, SUBSET (1..a)) /\ IsLeftFold(h, t, SUBSET (1..b))
    => g[1..n] = h[1..n]
<1> TAKE s, t, g, h
<1> TAKE a, b, n \in Nat
<1> HAVE /\ n <= a /\ n <= b
         /\ \A i \in 1..n : s[i] = t[i]
         /\ IsLeftFold(g, s, SUBSET (1..a)) /\ IsLeftFold(h, t, SUBSET (1..b))
<1> DEFINE T == {k \in 0..n : g[1..k] # h[1..k]}
<1> SUFFICES ASSUME T # {} PROVE FALSE
  <2>1. n \notin T /\ n \in 0..n
    OBVIOUS
  <2> QED BY <2>1
<1>1. PICK m \in T : \A k \in T : m <= k
  <2>1. T \in SUBSET Nat
    OBVIOUS
  <2> HIDE DEF T
  <2> QED BY <2>1, LeastNat
<1>2. m \in 0..n /\ g[1..m] # h[1..m]
  BY <1>1
<1>3. 1..m \in SUBSET (1..a) /\ 1..m \in SUBSET (1..b)
  BY <1>2
<1>4. CASE m = 0
  <2>1. 1..m = {}
    BY <1>4
  <2> QED BY <1>2, <1>3, <2>1 DEF IsLeftFold
<1>5. CASE m # 0
  <2>1. m - 1 \in 0..n /\ m \in 1..n /\ m - 1 \notin T
    BY <1>1, <1>2, <1>5
  <2>2. g[1..(m - 1)] = h[1..(m - 1)] /\ s[m] = t[m]
    BY <2>1
  <2>3. 1..m # {} /\ (1..m) \ {m} = 1..(m - 1)
    <3>1. m \in Nat /\ m >= 1
      BY <2>1
    <3> HIDE DEF T
    <3> QED BY <3>1
  <2>4. Max(1..m) = m
    <3>1. m \in 1..m /\ 1..m \subseteq Int /\ \A k \in 1..m : k <= m
      BY <2>1
    <3> HIDE DEF T
    <3> QED BY <3>1, MaxIs
  <2>5. g[1..m] = Op(g[1..(m - 1)], s[m]) /\ h[1..m] = Op(h[1..(m - 1)], t[m])
    <3> HIDE DEF T
    <3> QED BY <1>3, <2>3, <2>4 DEF IsLeftFold
  <2> QED BY <1>2, <2>2, <2>5
<1> QED BY <1>4, <1>5

----------------------------------------------------------------------------
(* The facts the component proofs use.                                      *)

\* The fold of the empty sequence.
LEMMA FoldEmpty == Fold(<< >>) = Base
<1> DEFINE s == << >>
           g == CHOOSE k : IsLeftFold(k, s, SUBSET (1..0))
<1>1. DOMAIN s = 1..0 /\ 1..0 = {}
  OBVIOUS
<1>2. IsLeftFold(g, s, SUBSET (1..0))
  BY LeftFoldExists
<1>3. Fold(s) = g[1..0]
  BY <1>1, UnfoldLeft
<1> HIDE DEF g
<1> QED BY <1>1, <1>2, <1>3 DEF IsLeftFold

\* The fold of a sequence with one element more.
LEMMA FoldAppend ==
  ASSUME NEW S, NEW s \in Seq(S), NEW e \in S
  PROVE  Fold(Append(s, e)) = Op(Fold(s), e)
<1> DEFINE t == Append(s, e)
           n == Len(s)
           g == CHOOSE k : IsLeftFold(k, s, SUBSET (1..n))
           h == CHOOSE k : IsLeftFold(k, t, SUBSET (1..(n + 1)))
<1>1. /\ n \in Nat /\ DOMAIN s = 1..n /\ DOMAIN t = 1..(n + 1)
      /\ t[n + 1] = e /\ \A i \in 1..n : s[i] = t[i]
  OBVIOUS
<1>2. Fold(s) = g[1..n] /\ Fold(t) = h[1..(n + 1)]
  BY <1>1, UnfoldLeft
<1> HIDE DEF t, n
<1>3. IsLeftFold(g, s, SUBSET (1..n)) /\ IsLeftFold(h, t, SUBSET (1..(n + 1)))
  <2>1. n \in Nat /\ n + 1 \in Nat
    BY <1>1
  <2> QED BY <2>1, LeftFoldExists
<1> HIDE DEF g, h
<1>4. g[1..n] = h[1..n]
  <2>1. n \in Nat /\ n + 1 \in Nat /\ n <= n /\ n <= n + 1
    BY <1>1
  <2>2. \A i \in 1..n : s[i] = t[i]
    BY <1>1
  <2> QED BY <1>3, <2>1, <2>2, PrefixesAgree
<1>5. h[1..(n + 1)] = Op(h[1..n], e)
  <2>0. n \in Nat
    BY <1>1
  <2>1. 1..(n + 1) # {} /\ (1..(n + 1)) \ {n + 1} = 1..n
    BY <2>0
  <2>2. Max(1..(n + 1)) = n + 1
    <3>1. /\ n + 1 \in 1..(n + 1) /\ 1..(n + 1) \subseteq Int
          /\ \A k \in 1..(n + 1) : k <= n + 1
      BY <2>0
    <3> QED BY <3>1, MaxIs
  <2>3. 1..(n + 1) \in SUBSET (1..(n + 1))
    OBVIOUS
  <2>4. h[1..(n + 1)] = Op(h[(1..(n + 1)) \ {n + 1}], t[n + 1])
    BY <1>3, <2>1, <2>2, <2>3 DEF IsLeftFold
  <2> QED BY <1>1, <2>1, <2>4
<1> QED BY <1>2, <1>4, <1>5 DEF t

\* The fold of a prefix, from that of the prefix before.
LEMMA FoldPrefix ==
  ASSUME NEW S, NEW s \in Seq(S), NEW n \in 1..Len(s)
  PROVE  Fold(SubSeq(s, 1, n)) = Op(Fold(SubSeq(s, 1, n - 1)), s[n])
<1> DEFINE p == SubSeq(s, 1, n - 1)
<1>1. p \in Seq(S) /\ s[n] \in S /\ SubSeq(s, 1, n) = Append(p, s[n])
  OBVIOUS
<1> HIDE DEF p
<1>2. Fold(Append(p, s[n])) = Op(Fold(p), s[n])
  BY <1>1, FoldAppend
<1> QED BY <1>1, <1>2 DEF p
=============================================================================
