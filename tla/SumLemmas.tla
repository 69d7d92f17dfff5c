------------------------------ MODULE SumLemmas ------------------------------
(***************************************************************************)
(* Facts about SumFunctionOnSet, the sum of the values of a function over  *)
(* a finite set of its arguments, with which the models add up shares.     *)
(*                                                                         *)
(* The fold behind it removes one element after the other, in an order     *)
(* that CHOOSE picks.  Every fact is proved by a counterexample of least   *)
(* cardinality.                                                            *)
(***************************************************************************)
EXTENDS Integers, FiniteSets, Functions, FiniteSetTheorems, WellFoundedInduction, TLAPS

Pick(s) == CHOOSE x \in s : TRUE

\* g is the fold on the sets of D, which removing an element does not leave.
IsFold(g, f, D) ==
  g = [s \in D |-> IF s = {} THEN 0 ELSE f[Pick(s)] + g[s \ {Pick(s)}]]

UpTo(S, n) == {s \in SUBSET S : Cardinality(s) <= n}

\* A non-empty set of natural numbers has a least one.
LEMMA LeastNat ==
  ASSUME NEW T \in SUBSET Nat, T # {}
  PROVE  \E m \in T : \A k \in T : m <= k
<1>1. PICK m \in T : \A k \in T : ~(<<k, m>> \in OpToRel(<, Nat))
  BY WFMin, NatLessThanWellFounded
<1>2. \A k \in T : ~(k < m)
  BY <1>1 DEF OpToRel
<1> QED BY <1>2

\* A non-empty set of finite sets has one of least cardinality.
LEMMA LeastSet ==
  ASSUME NEW T, T # {}, \A s \in T : IsFiniteSet(s)
  PROVE  \E m \in T : \A s \in T : Cardinality(m) <= Cardinality(s)
<1> DEFINE N == {Cardinality(s) : s \in T}
<1>1. N \in SUBSET Nat /\ N # {}
  BY FS_CardinalityType
<1>2. PICK n \in N : \A k \in N : n <= k
  BY <1>1, LeastNat
<1> QED BY <1>2

\* Removing an element of a finite set.
LEMMA RemoveOne ==
  ASSUME NEW S, IsFiniteSet(S), NEW x \in S
  PROVE  /\ IsFiniteSet(S \ {x})
         /\ Cardinality(S) \in Nat /\ Cardinality(S \ {x}) \in Nat
         /\ Cardinality(S) = Cardinality(S \ {x}) + 1
BY FS_RemoveElement, FS_CardinalityType

\* The element CHOOSE picks.
LEMMA PickIn ==
  ASSUME NEW s, s # {}
  PROVE  Pick(s) \in s
BY DEF Pick

\* SumFunctionOnSet is the fold on the subsets of S.
LEMMA Unfold ==
  ASSUME NEW f, NEW S
  PROVE  SumFunctionOnSet(f, S) = (CHOOSE g : IsFold(g, f, SUBSET S))[S]
BY DEF SumFunctionOnSet, FoldFunctionOnSet, MapThenFoldSet, IsFold, Pick

\* The fold exists for the subsets of every cardinality.
LEMMA FoldUpTo ==
  ASSUME NEW f, NEW S, IsFiniteSet(S), NEW n \in Nat
  PROVE  \E g : IsFold(g, f, UpTo(S, n))
<1> DEFINE T == {k \in Nat : ~\E g : IsFold(g, f, UpTo(S, k))}
<1> SUFFICES ASSUME T # {} PROVE FALSE
  OBVIOUS
<1>1. PICK m \in T : \A k \in T : m <= k
  BY LeastNat
<1>s. ASSUME NEW s \in SUBSET S PROVE IsFiniteSet(s) /\ Cardinality(s) \in Nat
  BY FS_Subset, FS_CardinalityType
<1>2. CASE m = 0
  <2>1. UpTo(S, 0) = {{}}
    BY <1>s, FS_EmptySet DEF UpTo
  <2> DEFINE g == [s \in UpTo(S, 0) |-> 0]
  <2>2. g = [s \in UpTo(S, 0) |-> IF s = {} THEN 0 ELSE f[Pick(s)] + g[s \ {Pick(s)}]]
    BY <2>1
  <2>3. IsFold(g, f, UpTo(S, 0))
    BY <2>2 DEF IsFold
  <2> QED BY <1>2, <2>3
<1>3. CASE m # 0
  <2>1. m - 1 \in Nat /\ m - 1 \notin T
    BY <1>1, <1>3
  <2>2. PICK g : IsFold(g, f, UpTo(S, m - 1))
    BY <2>1
  <2> DEFINE h == [s \in UpTo(S, m) |->
                     IF Cardinality(s) <= m - 1 THEN g[s]
                     ELSE f[Pick(s)] + g[s \ {Pick(s)}]]
  <2>3. ASSUME NEW s \in UpTo(S, m)
        PROVE  h[s] = IF s = {} THEN 0 ELSE f[Pick(s)] + h[s \ {Pick(s)}]
    <3>1. s \in SUBSET S /\ IsFiniteSet(s) /\ Cardinality(s) \in Nat
      BY <1>s DEF UpTo
    <3>2. CASE s = {}
      <4>1. Cardinality(s) <= m - 1 /\ s \in UpTo(S, m - 1)
        BY <2>1, <3>1, <3>2, FS_EmptySet DEF UpTo
      <4> QED BY <2>2, <3>2, <4>1 DEF IsFold
    <3>3. CASE s # {}
      <4> DEFINE t == s \ {Pick(s)}
      <4>1. /\ t \in SUBSET S /\ IsFiniteSet(t) /\ Cardinality(t) \in Nat
            /\ Cardinality(s) = Cardinality(t) + 1
        BY <3>1, <3>3, PickIn, RemoveOne
      <4>2. Cardinality(t) <= m - 1
        BY <3>1, <4>1 DEF UpTo
      <4>3. h[t] = g[t]
        BY <4>1, <4>2 DEF UpTo
      <4>4. CASE Cardinality(s) <= m - 1
        <5>1. s \in UpTo(S, m - 1)
          BY <3>1, <4>4 DEF UpTo
        <5>2. g[s] = f[Pick(s)] + g[t]
          BY <2>2, <3>3, <5>1 DEF IsFold
        <5> QED BY <3>3, <4>3, <4>4, <5>2
      <4>5. CASE ~(Cardinality(s) <= m - 1)
        BY <3>3, <4>3, <4>5
      <4> QED BY <4>4, <4>5
    <3> QED BY <3>2, <3>3
  <2>4. h = [s \in UpTo(S, m) |-> h[s]]
    OBVIOUS
  <2> HIDE DEF h
  <2>5. IsFold(h, f, UpTo(S, m))
    BY <2>3, <2>4 DEF IsFold
  <2> QED BY <2>5
<1> QED BY <1>2, <1>3

\* The fold on the subsets of a finite set exists.
LEMMA FoldExists ==
  ASSUME NEW f, NEW S, IsFiniteSet(S)
  PROVE  \E g : IsFold(g, f, SUBSET S)
<1>1. Cardinality(S) \in Nat /\ UpTo(S, Cardinality(S)) = SUBSET S
  BY FS_CardinalityType, FS_Subset DEF UpTo
<1>2. \E g : IsFold(g, f, UpTo(S, Cardinality(S)))
  BY <1>1, FoldUpTo
<1> QED BY <1>1, <1>2

Agree(f, e, R) == \A x \in R : f[x] = e[x]

\* Two folds agree on the sets both are defined on, if the functions do.
LEMMA FoldsAgree ==
  \A f, e, S, R, g, h :
    /\ IsFiniteSet(S) /\ R \in SUBSET S
    /\ IsFold(g, f, SUBSET S) /\ IsFold(h, e, SUBSET R)
    /\ Agree(f, e, R)
    => g[R] = h[R]
<1> TAKE f, e, S, R, g, h
<1> HAVE /\ IsFiniteSet(S) /\ R \in SUBSET S
         /\ IsFold(g, f, SUBSET S) /\ IsFold(h, e, SUBSET R)
         /\ Agree(f, e, R)
<1> DEFINE T == {s \in SUBSET R : g[s] # h[s]}
<1> SUFFICES ASSUME T # {} PROVE FALSE
  OBVIOUS
<1>1. \A s \in T : IsFiniteSet(s)
  BY FS_Subset
<1>2. PICK m \in T : \A s \in T : Cardinality(m) <= Cardinality(s)
  BY <1>1, LeastSet
<1>3. CASE m = {}
  BY <1>2, <1>3 DEF IsFold
<1>4. CASE m # {}
  <2> DEFINE t == m \ {Pick(m)}
  <2>1. Pick(m) \in m /\ Pick(m) \in R /\ IsFiniteSet(m)
    BY <1>1, <1>4, PickIn
  <2>2. t \in SUBSET R /\ t \notin T
    BY <1>2, <2>1, RemoveOne
  <2>3. g[m] = f[Pick(m)] + g[t] /\ h[m] = e[Pick(m)] + h[t]
    BY <1>4 DEF IsFold
  <2> QED BY <1>2, <2>1, <2>2, <2>3 DEF Agree
<1> QED BY <1>3, <1>4

-----------------------------------------------------------------------------
(* The facts the component proofs use.                                      *)

\* Equal functions have equal sums.
LEMMA SumSame ==
  ASSUME NEW S, IsFiniteSet(S), NEW f, NEW e, \A x \in S : f[x] = e[x]
  PROVE  SumFunctionOnSet(f, S) = SumFunctionOnSet(e, S)
<1> DEFINE g == CHOOSE k : IsFold(k, f, SUBSET S)
           h == CHOOSE k : IsFold(k, e, SUBSET S)
<1>1. IsFold(g, f, SUBSET S) /\ IsFold(h, e, SUBSET S)
  BY FoldExists
<1>2. SumFunctionOnSet(f, S) = g[S] /\ SumFunctionOnSet(e, S) = h[S]
  BY Unfold
<1> HIDE DEF g, h
<1>3. S \in SUBSET S
  OBVIOUS
<1>4. g[S] = h[S]
  BY <1>1, <1>3, FoldsAgree DEF Agree
<1> QED BY <1>2, <1>4

\* The empty sum.
LEMMA SumEmpty ==
  ASSUME NEW f
  PROVE  SumFunctionOnSet(f, {}) = 0
<1>1. IsFold(CHOOSE g : IsFold(g, f, SUBSET {}), f, SUBSET {})
  BY FoldExists, FS_EmptySet
<1> QED BY <1>1, Unfold DEF IsFold

\* The fold on the subsets of S has the sums of all of them.
LEMMA FoldIsTotal ==
  \A f, S, R, g :
    IsFiniteSet(S) /\ R \in SUBSET S /\ IsFold(g, f, SUBSET S) => g[R] = SumFunctionOnSet(f, R)
<1> TAKE f, S, R, g
<1> HAVE IsFiniteSet(S) /\ R \in SUBSET S /\ IsFold(g, f, SUBSET S)
<1> DEFINE h == CHOOSE k : IsFold(k, f, SUBSET R)
<1>1. IsFiniteSet(R)
  BY FS_Subset
<1>2. IsFold(h, f, SUBSET R) /\ SumFunctionOnSet(f, R) = h[R]
  BY <1>1, FoldExists, Unfold
<1> HIDE DEF h
<1>3. Agree(f, f, R)
  BY DEF Agree
<1> QED BY <1>2, <1>3, FoldsAgree

\* The sum without the element CHOOSE picks.
LEMMA SumPick ==
  ASSUME NEW f, NEW S, IsFiniteSet(S), S # {}
  PROVE  SumFunctionOnSet(f, S) = f[Pick(S)] + SumFunctionOnSet(f, S \ {Pick(S)})
<1>1. PICK g : IsFold(g, f, SUBSET S)
  BY FoldExists
<1>2. g[S] = f[Pick(S)] + g[S \ {Pick(S)}]
  BY <1>1 DEF IsFold
<1>3. \A R \in SUBSET S : g[R] = SumFunctionOnSet(f, R)
  BY <1>1, FoldIsTotal
<1> QED BY <1>2, <1>3

\* A sum of integers is an integer, of natural numbers a natural number.
LEMMA SumType ==
  ASSUME NEW f, NEW S, IsFiniteSet(S), \A x \in S : f[x] \in Int
  PROVE  /\ SumFunctionOnSet(f, S) \in Int
         /\ (\A x \in S : f[x] >= 0) => SumFunctionOnSet(f, S) >= 0
<1> DEFINE T == {s \in SUBSET S :
                   ~(/\ SumFunctionOnSet(f, s) \in Int
                     /\ (\A x \in S : f[x] >= 0) => SumFunctionOnSet(f, s) >= 0)}
<1> SUFFICES ASSUME T # {} PROVE FALSE
  OBVIOUS
<1>1. \A s \in T : IsFiniteSet(s)
  BY FS_Subset
<1>2. PICK m \in T : \A s \in T : Cardinality(m) <= Cardinality(s)
  BY <1>1, LeastSet
<1>3. CASE m = {}
  BY <1>2, <1>3, SumEmpty
<1>4. CASE m # {}
  <2> DEFINE t == m \ {Pick(m)}
  <2>1. Pick(m) \in m /\ Pick(m) \in S /\ IsFiniteSet(m)
    BY <1>1, <1>4, PickIn
  <2>2. t \in SUBSET S /\ t \notin T
    BY <1>2, <2>1, RemoveOne
  <2>3. SumFunctionOnSet(f, m) = f[Pick(m)] + SumFunctionOnSet(f, t)
    BY <1>4, <2>1, SumPick
  <2> QED BY <1>2, <2>1, <2>2, <2>3
<1> QED BY <1>3, <1>4

\* The sum without any one element.
LEMMA SumRemove ==
  ASSUME NEW f, NEW S, IsFiniteSet(S), \A x \in S : f[x] \in Int, NEW a \in S
  PROVE  SumFunctionOnSet(f, S) = f[a] + SumFunctionOnSet(f, S \ {a})
<1> DEFINE T == {s \in SUBSET S : \E x \in s : SumFunctionOnSet(f, s) # f[x] + SumFunctionOnSet(f, s \ {x})}
<1> SUFFICES ASSUME T # {} PROVE FALSE
  OBVIOUS
<1>1. \A s \in T : IsFiniteSet(s)
  BY FS_Subset
<1>2. PICK m \in T : \A s \in T : Cardinality(m) <= Cardinality(s)
  BY <1>1, LeastSet
<1>3. PICK x \in m : SumFunctionOnSet(f, m) # f[x] + SumFunctionOnSet(f, m \ {x})
  BY <1>2
<1> DEFINE p == Pick(m)
<1>4. p \in m /\ p \in S /\ x \in S /\ IsFiniteSet(m) /\ m # {}
  BY <1>1, <1>3, PickIn
<1>5. SumFunctionOnSet(f, m) = f[p] + SumFunctionOnSet(f, m \ {p})
  BY <1>4, SumPick
<1>6. x # p
  BY <1>3, <1>5
<1>7. /\ m \ {p} \in SUBSET S /\ m \ {p} \notin T
      /\ m \ {x} \in SUBSET S /\ m \ {x} \notin T
  <2>1. ASSUME NEW y \in m PROVE m \ {y} \in SUBSET S /\ m \ {y} \notin T
    <3>1. m \ {y} \in SUBSET S
      BY <1>2
    <3>2. /\ Cardinality(m) = Cardinality(m \ {y}) + 1
          /\ Cardinality(m) \in Nat /\ Cardinality(m \ {y}) \in Nat
      BY <1>4, RemoveOne
    <3> HIDE DEF T
    <3>3. m \ {y} \notin T
      BY <1>2, <3>2
    <3> QED BY <3>1, <3>3
  <2> QED BY <1>4, <2>1
<1>8. /\ SumFunctionOnSet(f, m \ {p}) = f[x] + SumFunctionOnSet(f, (m \ {p}) \ {x})
      /\ SumFunctionOnSet(f, m \ {x}) = f[p] + SumFunctionOnSet(f, (m \ {x}) \ {p})
  BY <1>4, <1>6, <1>7
<1>9. (m \ {p}) \ {x} = (m \ {x}) \ {p}
  OBVIOUS
<1>10. SumFunctionOnSet(f, (m \ {p}) \ {x}) \in Int /\ f[p] \in Int /\ f[x] \in Int
  BY <1>4, SumType, FS_Subset
<1>11. SumFunctionOnSet(f, m \ {x}) = f[p] + SumFunctionOnSet(f, (m \ {p}) \ {x})
  BY <1>8, <1>9
<1> QED BY <1>3, <1>5, <1>8, <1>10, <1>11

\* The sum with one element more.
LEMMA SumInsert ==
  ASSUME NEW f, NEW S, IsFiniteSet(S), NEW a, a \notin S,
         \A x \in S \cup {a} : f[x] \in Int
  PROVE  SumFunctionOnSet(f, S \cup {a}) = f[a] + SumFunctionOnSet(f, S)
<1>1. IsFiniteSet(S \cup {a}) /\ (S \cup {a}) \ {a} = S
  BY FS_AddElement
<1> QED BY <1>1, SumRemove

\* The sum of a function that differs in one argument.
LEMMA SumUpdate ==
  ASSUME NEW S, IsFiniteSet(S), NEW f, NEW e, NEW a \in S,
         \A x \in S : f[x] \in Int, e[a] \in Int, \A x \in S \ {a} : e[x] = f[x]
  PROVE  SumFunctionOnSet(e, S) = SumFunctionOnSet(f, S) + e[a] - f[a]
<1>1. IsFiniteSet(S \ {a}) /\ \A x \in S : e[x] \in Int
  BY FS_Subset
<1>2. SumFunctionOnSet(e, S \ {a}) = SumFunctionOnSet(f, S \ {a}) /\ SumFunctionOnSet(f, S \ {a}) \in Int
  BY <1>1, SumSame, SumType
<1>3. /\ SumFunctionOnSet(f, S) = f[a] + SumFunctionOnSet(f, S \ {a})
      /\ SumFunctionOnSet(e, S) = e[a] + SumFunctionOnSet(e, S \ {a})
  BY <1>1, SumRemove
<1> QED BY <1>2, <1>3

\* A sum of zeros.
LEMMA SumZero ==
  ASSUME NEW f, NEW S, IsFiniteSet(S), \A x \in S : f[x] = 0
  PROVE  SumFunctionOnSet(f, S) = 0
<1> DEFINE T == {s \in SUBSET S : SumFunctionOnSet(f, s) # 0}
<1> SUFFICES ASSUME T # {} PROVE FALSE
  OBVIOUS
<1>1. \A s \in T : IsFiniteSet(s)
  BY FS_Subset
<1>2. PICK m \in T : \A s \in T : Cardinality(m) <= Cardinality(s)
  BY <1>1, LeastSet
<1>3. CASE m = {}
  BY <1>2, <1>3, SumEmpty
<1>4. CASE m # {}
  <2> DEFINE t == m \ {Pick(m)}
  <2>1. Pick(m) \in m /\ Pick(m) \in S /\ IsFiniteSet(m)
    BY <1>1, <1>4, PickIn
  <2>2. t \in SUBSET S /\ SumFunctionOnSet(f, t) = 0
    <3>1. t \in SUBSET S
      BY <1>2
    <3>2. /\ Cardinality(m) = Cardinality(t) + 1
          /\ Cardinality(m) \in Nat /\ Cardinality(t) \in Nat
      BY <2>1, RemoveOne
    <3>3. t \notin T
      <4> HIDE DEF T, t
      <4> QED BY <1>2, <3>2
    <3> QED BY <3>1, <3>3
  <2>3. SumFunctionOnSet(f, m) = f[Pick(m)] + SumFunctionOnSet(f, t)
    BY <1>4, <2>1, SumPick
  <2> QED BY <1>2, <2>1, <2>2, <2>3
<1> QED BY <1>3, <1>4

\* The sum of a function with one argument that is not zero.
LEMMA SumSingle ==
  ASSUME NEW f, NEW S, IsFiniteSet(S), NEW a \in S, f[a] \in Int,
         \A x \in S \ {a} : f[x] = 0
  PROVE  SumFunctionOnSet(f, S) = f[a]
<1>1. IsFiniteSet(S \ {a}) /\ \A x \in S : f[x] \in Int
  BY FS_Subset
<1>2. SumFunctionOnSet(f, S \ {a}) = 0
  BY <1>1, SumZero
<1>3. SumFunctionOnSet(f, S) = f[a] + SumFunctionOnSet(f, S \ {a})
  BY <1>1, SumRemove
<1> QED BY <1>2, <1>3
=============================================================================
