------------------------------ MODULE SumTheorems ------------------------------
(***************************************************************************)
(* Least numbers, least parts of a finite set, and sums over one.  CHOOSE  *)
(* picks which element a sum takes first; that the sum exists and that the *)
(* order is of no account is shown by a least part of the set for which it *)
(* fails.                                                                  *)
(***************************************************************************)
EXTENDS Integers, FiniteSets, Functions, FiniteSetTheorems,
        WellFoundedInduction, TLAPS

Below == {p \in Nat \X Nat : p[1] < p[2]}

LEMMA BelowIsWellFounded == IsWellFoundedOn(Below, Nat)
  BY NatLessThanWellFounded DEF OpToRel, Below

LEMMA HasLeast ==
    ASSUME NEW numbers, numbers \subseteq Nat, numbers # {}
    PROVE  \E x \in numbers : \A y \in numbers : x <= y
<1>1. PICK x \in numbers : \A y \in numbers : <<y, x>> \notin Below
  BY BelowIsWellFounded, WFMin
<1>2. ASSUME NEW y \in numbers PROVE x <= y
  <2>1. x \in Nat /\ y \in Nat /\ <<y, x>> \notin Below
    BY <1>1
  <2>2. ~(y < x)
    BY <2>1 DEF Below
  <2> QED
    BY <2>1, <2>2
<1> QED
  BY <1>2

\* Of some parts of a finite set one is a part that is none of them any more
\* whatever is taken from it.
LEMMA LeastPart ==
    ASSUME NEW S, IsFiniteSet(S), NEW Parts, Parts \subseteq SUBSET S, Parts # {}
    PROVE  \E s \in Parts : \A x \in s : s \ {x} \notin Parts
<1> DEFINE Sizes == {Cardinality(s) : s \in Parts}
<1>1. \A s \in Parts : IsFiniteSet(s) /\ Cardinality(s) \in Nat
  BY FS_Subset, FS_CardinalityType
<1>2. Sizes \subseteq Nat /\ Sizes # {}
  BY <1>1
<1>3. PICK n \in Sizes : \A m \in Sizes : n <= m
  BY <1>2, HasLeast
<1>4. PICK s \in Parts : Cardinality(s) = n
  BY <1>3
<1>5. ASSUME NEW x \in s, s \ {x} \in Parts
      PROVE  FALSE
  <2>1. IsFiniteSet(s) /\ Cardinality(s \ {x}) = Cardinality(s) - 1
    BY <1>1, FS_RemoveElement
  <2>2. Cardinality(s \ {x}) \in Sizes /\ Cardinality(s) \in Nat
    BY <1>1, <1>5
  <2> HIDE DEF Sizes
  <2>3. n <= Cardinality(s \ {x}) /\ n \in Nat
    BY <1>3, <1>4, <2>2
  <2> QED
    BY <1>4, <2>1, <2>2, <2>3
<1> QED
  BY <1>5

\* How a sum over a part of S goes back to sums of its parts.
FirstOf(s) == CHOOSE x \in s : TRUE

Adds(f, S, g) ==
    g = [s \in SUBSET S |-> IF s = {} THEN 0 ELSE f[FirstOf(s)] + g[s \ {FirstOf(s)}]]

LEMMA SumIsAdded ==
    ASSUME NEW f, NEW S
    PROVE  SumFunctionOnSet(f, S) = (CHOOSE g : Adds(f, S, g))[S]
BY DEF SumFunctionOnSet, FoldFunctionOnSet, MapThenFoldSet, Adds, FirstOf

LEMMA FirstIsOne == ASSUME NEW s, s # {} PROVE FirstOf(s) \in s
BY DEF FirstOf

LEMMA AddsAgree ==
    ASSUME NEW f, NEW S, IsFiniteSet(S), NEW g, Adds(f, S, g),
           NEW U, NEW h, Adds(f, U, h)
    PROVE  \A s \in SUBSET (S \cap U) : g[s] = h[s]
<1> DEFINE Bad == {s \in SUBSET (S \cap U) : g[s] # h[s]}
<1>1. SUFFICES ASSUME Bad # {} PROVE FALSE
  OBVIOUS
<1>2. Bad \subseteq SUBSET S
  OBVIOUS
<1>3. PICK s \in Bad : \A x \in s : s \ {x} \notin Bad
  <2> HIDE DEF Bad
  <2> QED
    BY <1>1, <1>2, LeastPart
<1>4. s \in SUBSET S /\ s \in SUBSET U /\ s \in SUBSET (S \cap U)
  OBVIOUS
<1>5. CASE s = {}
  BY <1>4, <1>5 DEF Adds
<1>6. CASE s # {}
  <2>1. FirstOf(s) \in s
    BY <1>6, FirstIsOne
  <2>2. s \ {FirstOf(s)} \in SUBSET (S \cap U) /\ s \ {FirstOf(s)} \notin Bad
    BY <1>3, <1>4, <2>1
  <2>3. g[s \ {FirstOf(s)}] = h[s \ {FirstOf(s)}]
    BY <2>2
  <2>4. g[s] = f[FirstOf(s)] + g[s \ {FirstOf(s)}]
    BY <1>4, <1>6 DEF Adds
  <2>5. h[s] = f[FirstOf(s)] + h[s \ {FirstOf(s)}]
    BY <1>4, <1>6 DEF Adds
  <2> QED
    BY <2>3, <2>4, <2>5
<1> QED
  BY <1>5, <1>6

LEMMA AddsExists ==
    ASSUME NEW f, NEW S, IsFiniteSet(S)
    PROVE  \E g : Adds(f, S, g)
<1> DEFINE Bad == {part \in SUBSET S : ~\E g : Adds(f, part, g)}
<1>1. SUFFICES ASSUME Bad # {} PROVE FALSE
  OBVIOUS
<1>2. PICK part \in Bad : \A x \in part : part \ {x} \notin Bad
  <2>1. Bad \subseteq SUBSET S
    OBVIOUS
  <2> HIDE DEF Bad
  <2> QED
    BY <1>1, <2>1, LeastPart
<1>3. part \in SUBSET S /\ IsFiniteSet(part)
  BY FS_Subset
<1> DEFINE Solved(s) == (CHOOSE h : Adds(f, s, h))
           G == [s \in SUBSET part |-> IF s = {} THEN 0
                     ELSE f[FirstOf(s)] + Solved(s \ {FirstOf(s)})[s \ {FirstOf(s)}]]
<1>4. ASSUME NEW s \in SUBSET part, s # part
      PROVE  Adds(f, s, Solved(s)) /\ G[s] = Solved(s)[s]
  <2>1. ASSUME NEW t \in SUBSET part, t # part
        PROVE  Adds(f, t, Solved(t)) /\ IsFiniteSet(t)
    <3>1. PICK x \in part : x \notin t
      BY <2>1
    <3>2. PICK g : Adds(f, part \ {x}, g)
      BY <1>2, <1>3
    <3> DEFINE g2 == [q \in SUBSET t |-> g[q]]
    <3>3. Adds(f, t, g2)
      <4>1. ASSUME NEW q \in SUBSET t
            PROVE  g2[q] = IF q = {} THEN 0 ELSE f[FirstOf(q)] + g2[q \ {FirstOf(q)}]
        <5>1. q \in SUBSET (part \ {x}) /\ q \ {FirstOf(q)} \in SUBSET t
          BY <3>1
        <5>2. g[q] = IF q = {} THEN 0 ELSE f[FirstOf(q)] + g[q \ {FirstOf(q)}]
          BY <3>2, <5>1 DEF Adds
        <5> QED
          BY <5>1, <5>2
      <4> QED
        BY <4>1 DEF Adds
    <3> QED
      BY <1>3, <3>3, FS_Subset
  <2>2. CASE s = {}
    <3>1. Solved(s)[s] = 0
      <4> HIDE DEF Solved
      <4> QED
        BY <2>1, <2>2, <1>4 DEF Adds
    <3> QED
      BY <2>1, <1>4, <2>2, <3>1
  <2>3. CASE s # {}
    <3> DEFINE r == s \ {FirstOf(s)}
    <3>1. r \in SUBSET part /\ r # part /\ r \in SUBSET s
      BY <1>4
    <3>2. Adds(f, s, Solved(s)) /\ Adds(f, r, Solved(r)) /\ IsFiniteSet(s)
      BY <1>4, <2>1, <3>1
    <3> HIDE DEF Solved
    <3>3. Solved(s)[r] = Solved(r)[r]
      <4>1. r \in SUBSET (s \cap r)
        BY <3>1
      <4> QED
        BY <3>2, <4>1, AddsAgree
    <3>4. Solved(s)[s] = f[FirstOf(s)] + Solved(s)[r]
      BY <2>3, <3>2 DEF Adds
    <3>5. G[s] = f[FirstOf(s)] + Solved(r)[r]
      BY <2>3
    <3> QED
      BY <3>2, <3>3, <3>4, <3>5
  <2> QED
    BY <2>2, <2>3
<1>5. Adds(f, part, G)
  <2>1. ASSUME NEW s \in SUBSET part
        PROVE  G[s] = IF s = {} THEN 0 ELSE f[FirstOf(s)] + G[s \ {FirstOf(s)}]
    <3>1. CASE s = {}
      BY <3>1
    <3>2. CASE s # {}
      <4>1. FirstOf(s) \in s
        BY <3>2, FirstIsOne
      <4>2. s \ {FirstOf(s)} \in SUBSET part /\ s \ {FirstOf(s)} # part
        BY <4>1
      <4>3. G[s \ {FirstOf(s)}] = Solved(s \ {FirstOf(s)})[s \ {FirstOf(s)}]
        BY <1>4, <4>2
      <4>4. G[s] = f[FirstOf(s)] + Solved(s \ {FirstOf(s)})[s \ {FirstOf(s)}]
        BY <3>2
      <4> HIDE DEF G, Solved
      <4> QED
        BY <3>2, <4>3, <4>4
    <3> QED
      BY <3>1, <3>2
  <2>2. G = [s \in SUBSET part |-> G[s]]
    OBVIOUS
  <2> HIDE DEF G
  <2> QED
    BY <2>1, <2>2 DEF Adds
<1> QED
  BY <1>5

\* A sum is that of the rest and the first.
LEMMA SumOfFirst ==
    ASSUME NEW f, NEW S, IsFiniteSet(S)
    PROVE  /\ S = {} => SumFunctionOnSet(f, S) = 0
           /\ S # {} => SumFunctionOnSet(f, S)
                          = f[FirstOf(S)] + SumFunctionOnSet(f, S \ {FirstOf(S)})
<1> DEFINE g == CHOOSE g : Adds(f, S, g)
           R == S \ {FirstOf(S)}
           h == CHOOSE h : Adds(f, R, h)
<1>1. Adds(f, S, g)
  BY AddsExists
<1>2. Adds(f, R, h)
  <2>1. IsFiniteSet(R)
    BY FS_Subset
  <2> QED
    BY <2>1, AddsExists
<1>3. SumFunctionOnSet(f, S) = g[S] /\ SumFunctionOnSet(f, R) = h[R]
  BY SumIsAdded
<1> HIDE DEF g, h
<1>4. g[R] = h[R]
  <2>1. R \in SUBSET (S \cap R)
    OBVIOUS
  <2> HIDE DEF R
  <2> QED
    BY <1>1, <1>2, <2>1, AddsAgree
<1>5. g[S] = IF S = {} THEN 0 ELSE f[FirstOf(S)] + g[R]
  BY <1>1 DEF Adds
<1> QED
  BY <1>3, <1>4, <1>5

LEMMA SumIsInt ==
    ASSUME NEW f, NEW S, IsFiniteSet(S), \A x \in S : f[x] \in Int
    PROVE  SumFunctionOnSet(f, S) \in Int
<1> DEFINE Bad == {s \in SUBSET S : SumFunctionOnSet(f, s) \notin Int}
<1>1. SUFFICES ASSUME Bad # {} PROVE FALSE
  OBVIOUS
<1>2. PICK s \in Bad : \A x \in s : s \ {x} \notin Bad
  <2>1. Bad \subseteq SUBSET S
    OBVIOUS
  <2> HIDE DEF Bad
  <2> QED
    BY <1>1, <2>1, LeastPart
<1>3. s \subseteq S /\ IsFiniteSet(s) /\ (s # {} => FirstOf(s) \in s)
  BY FS_Subset, FirstIsOne
<1>4. s # {} => SumFunctionOnSet(f, s \ {FirstOf(s)}) \in Int
  BY <1>2, <1>3
<1>5. s # {} => f[FirstOf(s)] \in Int
  BY <1>3
<1>6. SumFunctionOnSet(f, s) \in Int
  <2>1. CASE s = {}
    <3>1. SumFunctionOnSet(f, s) = 0
      BY <1>3, <2>1, SumOfFirst
    <3> QED
      BY <3>1
  <2>2. CASE s # {}
    <3>1. SumFunctionOnSet(f, s) = f[FirstOf(s)] + SumFunctionOnSet(f, s \ {FirstOf(s)})
      BY <1>3, <2>2, SumOfFirst
    <3> QED
      BY <1>4, <1>5, <2>2, <3>1
  <2> QED
    BY <2>1, <2>2
<1> QED
  BY <1>2, <1>6

\* A sum does not depend on the order.
LEMMA SumOfOneMore ==
    ASSUME NEW f, NEW S, IsFiniteSet(S), \A x \in S : f[x] \in Int
    PROVE  \A x \in S : SumFunctionOnSet(f, S) = f[x] + SumFunctionOnSet(f, S \ {x})
<1> DEFINE Sum(s) == SumFunctionOnSet(f, s)
           Bad == {s \in SUBSET S : \E x \in s : Sum(s) # f[x] + Sum(s \ {x})}
<1>1. SUFFICES ASSUME Bad # {} PROVE FALSE
  OBVIOUS
<1>2. PICK s \in Bad : \A x \in s : s \ {x} \notin Bad
  <2>1. Bad \subseteq SUBSET S
    OBVIOUS
  <2> HIDE DEF Bad
  <2> QED
    BY <1>1, <2>1, LeastPart
<1>3. PICK x \in s : Sum(s) # f[x] + Sum(s \ {x})
  BY <1>2
<1>4. s \in SUBSET S /\ FirstOf(s) \in s /\ FirstOf(s) \in S /\ x \in S
  BY <1>2, <1>3, FirstIsOne
<1>5. \A t \in SUBSET S : IsFiniteSet(t) /\ Sum(t) \in Int
  BY FS_Subset, SumIsInt
<1>6. Sum(s) = f[FirstOf(s)] + Sum(s \ {FirstOf(s)})
  BY <1>3, <1>4, <1>5, SumOfFirst
<1>7. x # FirstOf(s)
  BY <1>3, <1>6
<1> DEFINE t == s \ {FirstOf(s)}
           u == s \ {x}
           v == t \ {x}
<1>8. t \in SUBSET S /\ u \in SUBSET S /\ v \in SUBSET S /\ x \in t /\ FirstOf(s) \in u
      /\ v = u \ {FirstOf(s)}
  BY <1>3, <1>4, <1>7
<1>9. Sum(t) = f[x] + Sum(v)
  BY <1>2, <1>4, <1>8
<1>10. Sum(u) = f[FirstOf(s)] + Sum(v)
  BY <1>2, <1>3, <1>8
<1>11. /\ Sum(s) \in Int /\ Sum(t) \in Int /\ Sum(u) \in Int /\ Sum(v) \in Int
       /\ f[x] \in Int /\ f[FirstOf(s)] \in Int
  BY <1>4, <1>5, <1>8
<1> HIDE DEF Sum, t, u, v
<1>12. Sum(s) = f[FirstOf(s)] + Sum(t) /\ Sum(s) # f[x] + Sum(u)
  BY <1>3, <1>6 DEF t, u
<1> QED
  BY <1>9, <1>10, <1>11, <1>12

\* A sum depends on what is added only.
LEMMA SumOfTheSame ==
    ASSUME NEW f, NEW g, NEW S, IsFiniteSet(S), \A x \in S : f[x] = g[x]
    PROVE  SumFunctionOnSet(f, S) = SumFunctionOnSet(g, S)
<1> DEFINE Bad == {s \in SUBSET S : SumFunctionOnSet(f, s) # SumFunctionOnSet(g, s)}
<1>1. SUFFICES ASSUME Bad # {} PROVE FALSE
  OBVIOUS
<1>2. PICK s \in Bad : \A x \in s : s \ {x} \notin Bad
  <2>1. Bad \subseteq SUBSET S
    OBVIOUS
  <2> HIDE DEF Bad
  <2> QED
    BY <1>1, <2>1, LeastPart
<1>3. s \in SUBSET S /\ IsFiniteSet(s) /\ (s # {} => FirstOf(s) \in s)
  BY FS_Subset, FirstIsOne
<1>4. s # {} => SumFunctionOnSet(f, s \ {FirstOf(s)}) = SumFunctionOnSet(g, s \ {FirstOf(s)})
  BY <1>2, <1>3
<1>5. s # {} => f[FirstOf(s)] = g[FirstOf(s)]
  BY <1>3
<1>6. SumFunctionOnSet(f, s) = SumFunctionOnSet(g, s)
  BY <1>3, <1>4, <1>5, SumOfFirst
<1> QED
  BY <1>2, <1>6

LEMMA SumIsNat ==
    ASSUME NEW f, NEW S, IsFiniteSet(S), \A x \in S : f[x] \in Nat
    PROVE  SumFunctionOnSet(f, S) \in Nat
<1> DEFINE Bad == {s \in SUBSET S : SumFunctionOnSet(f, s) \notin Nat}
<1>1. SUFFICES ASSUME Bad # {} PROVE FALSE
  OBVIOUS
<1>2. PICK s \in Bad : \A x \in s : s \ {x} \notin Bad
  <2>1. Bad \subseteq SUBSET S
    OBVIOUS
  <2> HIDE DEF Bad
  <2> QED
    BY <1>1, <2>1, LeastPart
<1>3. s \subseteq S /\ IsFiniteSet(s) /\ (s # {} => FirstOf(s) \in s)
  BY FS_Subset, FirstIsOne
<1>4. s # {} => SumFunctionOnSet(f, s \ {FirstOf(s)}) \in Nat
  BY <1>2, <1>3
<1>5. s # {} => f[FirstOf(s)] \in Nat
  BY <1>3
<1>6. SumFunctionOnSet(f, s) \in Nat
  <2>1. CASE s = {}
    <3>1. SumFunctionOnSet(f, s) = 0
      BY <1>3, <2>1, SumOfFirst
    <3> QED
      BY <3>1
  <2>2. CASE s # {}
    <3>1. SumFunctionOnSet(f, s) = f[FirstOf(s)] + SumFunctionOnSet(f, s \ {FirstOf(s)})
      BY <1>3, <2>2, SumOfFirst
    <3> QED
      BY <1>4, <1>5, <2>2, <3>1
  <2> QED
    BY <2>1, <2>2
<1> QED
  BY <1>2, <1>6

\* What is left out of a sum of numbers that are not negative makes it smaller.
LEMMA SumOfPart ==
    ASSUME NEW f, NEW S, IsFiniteSet(S), \A x \in S : f[x] \in Nat,
           NEW part, part \subseteq S
    PROVE  SumFunctionOnSet(f, part) <= SumFunctionOnSet(f, S)
<1> DEFINE Sum(s) == SumFunctionOnSet(f, s)
           Parts == {s \in SUBSET S : part \subseteq s /\ ~(Sum(part) <= Sum(s))}
<1>1. SUFFICES ASSUME Parts # {} PROVE FALSE
  OBVIOUS
<1>2. PICK s \in Parts : \A x \in s : s \ {x} \notin Parts
  <2>1. Parts \subseteq SUBSET S
    OBVIOUS
  <2> HIDE DEF Parts
  <2> QED
    BY <1>1, <2>1, LeastPart
<1>3. \A t \in SUBSET S : IsFiniteSet(t) /\ Sum(t) \in Nat
  BY FS_Subset, SumIsNat
<1>4. PICK x \in s : x \notin part
  <2>1. s # part
    <3>1. Sum(part) \in Nat
      BY <1>3
    <3>2. ~(Sum(part) <= Sum(s))
      BY <1>2
    <3> QED
      BY <3>1, <3>2
  <2> QED
    BY <1>2, <2>1
<1>5. s \ {x} \in SUBSET S /\ part \subseteq s \ {x} /\ x \in S
  BY <1>2, <1>4
<1>6. Sum(part) <= Sum(s \ {x})
  BY <1>2, <1>4, <1>5
<1>7. Sum(s) = f[x] + Sum(s \ {x})
  BY <1>2, <1>3, <1>4, SumOfOneMore
<1>8. /\ Sum(part) \in Nat /\ Sum(s) \in Nat /\ Sum(s \ {x}) \in Nat
      /\ f[x] \in Nat /\ ~(Sum(part) <= Sum(s))
  BY <1>2, <1>3, <1>5
<1> HIDE DEF Sum
<1> QED
  BY <1>6, <1>7, <1>8
=============================================================================
