---------------------------- MODULE NumberLemmas ----------------------------
(***************************************************************************)
(* Induction over the natural numbers and over finite sets, stated with    *)
(* sets rather than with predicates, and what follows from it for the sums *)
(* of the community modules (SumFunctionOnSet, SumFunction): what a sum    *)
(* becomes when one term changes or one is added.  And what an int makes   *)
(* of a sum.                                                               *)
(***************************************************************************)
EXTENDS MachineInt, Sequences, FiniteSets, Functions, FiniteSetTheorems,
        WellFoundedInduction, TLAPS

(* Induction. *)

(* Every set of numbers that is not empty has a least element. *)
LEMMA LeastNumber ==
  ASSUME NEW T \in SUBSET Nat, T # {}
  PROVE  \E x \in T : \A y \in T : ~(y < x)
  <1> DEFINE less == OpToRel(<, Nat)
  <1>1. \E x \in T : \A y \in T : ~ (<<y, x>> \in less)
    <2>1. IsWellFoundedOn(less, Nat)
      BY NatLessThanWellFounded
    <2> HIDE DEF less
    <2> QED
      BY <2>1, WFMin
  <1>2. \A x, y \in Nat : x < y => <<x, y>> \in less
    BY DEF OpToRel
  <1> QED
    BY <1>1, <1>2

(* A set with 0 and with the successor of each of its numbers has them all. *)
LEMMA Induction ==
  ASSUME NEW S, 0 \in S, \A n \in Nat : n \in S => n + 1 \in S
  PROVE  Nat \subseteq S
  <1> SUFFICES ASSUME Nat \ S # {} PROVE FALSE
    OBVIOUS
  <1>1. PICK x \in Nat \ S : \A y \in Nat \ S : ~(y < x)
    BY LeastNumber
  <1>2. x # 0 /\ x \in Nat
    OBVIOUS
  <1>3. x - 1 \in Nat /\ x - 1 < x /\ (x - 1) + 1 = x
    BY <1>2
  <1>4. x - 1 \in S
    BY <1>1, <1>3
  <1> QED
    BY <1>3, <1>4

(* A family of sets with the empty one, and with T \cup {x} whenever it has *)
(* the part T of S and x is in the rest, has S.                             *)
LEMMA SetInduction ==
  ASSUME NEW S, IsFiniteSet(S), NEW Family,
         {} \in Family,
         \A T \in SUBSET S : \A x \in S \ T : T \in Family => T \cup {x} \in Family
  PROVE  S \in Family
  <1> DEFINE good == {n \in Nat : \A T \in SUBSET S : Cardinality(T) = n => T \in Family}
  <1>1. \A T \in SUBSET S : IsFiniteSet(T) /\ Cardinality(T) \in Nat
    BY FS_Subset, FS_CardinalityType
  <1>2. 0 \in good
    BY <1>1, FS_EmptySet
  <1>3. ASSUME NEW n \in Nat, n \in good PROVE n + 1 \in good
    <2> SUFFICES ASSUME NEW T \in SUBSET S, Cardinality(T) = n + 1 PROVE T \in Family
      OBVIOUS
    <2>1. PICK x \in T : TRUE
      BY <1>1, FS_EmptySet
    <2>2. T \ {x} \in SUBSET S /\ Cardinality(T \ {x}) = n
      <3>1. IsFiniteSet(T) /\ x \in T
        BY <1>1, <2>1
      <3>2. Cardinality(T \ {x}) = (n + 1) - 1
        BY <3>1, FS_RemoveElement
      <3> QED
        BY <3>2
    <2>3. T \ {x} \in Family
      BY <1>3, <2>2
    <2>4. (T \ {x}) \cup {x} = T /\ x \in S \ (T \ {x})
      BY <2>1
    <2> QED
      BY <2>2, <2>3, <2>4
  <1> HIDE DEF good
  <1>4. Nat \subseteq good
    BY <1>2, <1>3, Induction
  <1> QED
    BY <1>1, <1>4 DEF good
-----------------------------------------------------------------------------
(* The fold behind a sum is defined: the recursion of Folds has a solution. *)

Pick(s) == CHOOSE x \in s : TRUE

Folded(G, f, s) == IF s = {} THEN 0 ELSE f[Pick(s)] + G[s \ {Pick(s)}]

IsFold(G, f, S) == \A s \in SUBSET S : G[s] = Folded(G, f, s)

(* A partial sum for every part of S, whichever term is taken out. *)
Tally(G, f, S) ==
  /\ G \in [SUBSET S -> Int] /\ G[{}] = 0
  /\ \A s \in SUBSET S : \A x \in s : G[s] = f[x] + G[s \ {x}]

LEMMA FoldExists ==
  ASSUME NEW S, IsFiniteSet(S), NEW f, \A x \in S : f[x] \in Int
  PROVE  \E G \in [SUBSET S -> Int] : IsFold(G, f, S)
  <1> DEFINE UpTo(G, n) == \A s \in SUBSET S :
                             Cardinality(s) <= n => G[s] = Folded(G, f, s)
             good == {n \in Nat : \E G \in [SUBSET S -> Int] : UpTo(G, n)}
  <1>1. \A s \in SUBSET S :
          /\ IsFiniteSet(s) /\ Cardinality(s) \in Nat /\ (Cardinality(s) = 0 <=> s = {})
          /\ s # {} => /\ Pick(s) \in s /\ s \ {Pick(s)} \in SUBSET S
                       /\ Cardinality(s \ {Pick(s)}) = Cardinality(s) - 1
    BY FS_Subset, FS_CardinalityType, FS_EmptySet, FS_RemoveElement DEF Pick
  <1>2. 0 \in good
    <2>1. [s \in SUBSET S |-> 0] \in [SUBSET S -> Int]
      OBVIOUS
    <2>2. ASSUME NEW s \in SUBSET S, Cardinality(s) <= 0 PROVE s = {}
      <3>1. Cardinality(s) \in Nat /\ (Cardinality(s) = 0 <=> s = {})
        BY <1>1
      <3> QED
        BY <2>2, <3>1
    <2>3. UpTo([s \in SUBSET S |-> 0], 0)
      BY <2>2 DEF Folded
    <2> QED
      BY <2>1, <2>3
  <1>3. ASSUME NEW n \in Nat, n \in good PROVE n + 1 \in good
    <2>1. PICK G \in [SUBSET S -> Int] : UpTo(G, n)
      BY <1>3
    <2> DEFINE H == [s \in SUBSET S |-> Folded(G, f, s)]
    <2>2. H \in [SUBSET S -> Int]
      <3>1. \A s \in SUBSET S : Folded(G, f, s) \in Int
        <4> TAKE s \in SUBSET S
        <4>1. CASE s = {}
          BY <4>1 DEF Folded
        <4>2. CASE s # {}
          <5>1. f[Pick(s)] \in Int /\ G[s \ {Pick(s)}] \in Int
            BY <1>1, <4>2
          <5> QED
            BY <4>2, <5>1 DEF Folded
        <4> QED
          BY <4>1, <4>2
      <3> QED
        BY <3>1
    <2>3. ASSUME NEW s \in SUBSET S, Cardinality(s) <= n + 1
          PROVE  H[s] = Folded(H, f, s)
      <3>1. CASE s = {}
        BY <3>1 DEF Folded
      <3>2. CASE s # {}
        <4> DEFINE t == s \ {Pick(s)}
        <4>1. t \in SUBSET S /\ Cardinality(t) <= n
          BY <1>1, <2>3, <3>2
        <4>2. G[t] = H[t]
          BY <2>1, <4>1
        <4> QED
          BY <3>2, <4>1, <4>2 DEF Folded
      <3> QED
        BY <3>1, <3>2
    <2> HIDE DEF H
    <2> QED
      BY <2>2, <2>3
  <1>4. Cardinality(S) \in good
    <2> HIDE DEF good
    <2> QED
      BY <1>1, <1>2, <1>3, Induction
  <1>5. PICK G \in [SUBSET S -> Int] : UpTo(G, Cardinality(S))
    BY <1>4
  <1>6. IsFold(G, f, S)
    BY <1>5, FS_Subset DEF IsFold
  <1> QED
    BY <1>6

LEMMA FoldType ==
  ASSUME NEW S, IsFiniteSet(S), NEW f, \A x \in S : f[x] \in Int,
         NEW G, G = [s \in SUBSET S |-> Folded(G, f, s)]
  PROVE  G \in [SUBSET S -> Int]
  <1> DEFINE good == {n \in Nat : \A s \in SUBSET S : Cardinality(s) = n => G[s] \in Int}
  <1>1. \A s \in SUBSET S :
          /\ IsFiniteSet(s) /\ Cardinality(s) \in Nat /\ (Cardinality(s) = 0 <=> s = {})
          /\ s # {} => /\ Pick(s) \in s /\ s \ {Pick(s)} \in SUBSET S
                       /\ Cardinality(s \ {Pick(s)}) = Cardinality(s) - 1
    BY FS_Subset, FS_CardinalityType, FS_EmptySet, FS_RemoveElement DEF Pick
  <1>2. 0 \in good
    <2> SUFFICES ASSUME NEW s \in SUBSET S, Cardinality(s) = 0 PROVE G[s] \in Int
      OBVIOUS
    <2>1. s = {}
      BY <1>1
    <2> QED
      BY <2>1 DEF Folded
  <1>3. ASSUME NEW n \in Nat, n \in good PROVE n + 1 \in good
    <2> SUFFICES ASSUME NEW s \in SUBSET S, Cardinality(s) = n + 1 PROVE G[s] \in Int
      BY n + 1 \in Nat
    <2>1. s # {}
      <3>1. n + 1 # 0
        OBVIOUS
      <3>2. Cardinality(s) = 0 <=> s = {}
        BY <1>1
      <3> QED
        BY <3>1, <3>2
    <2>2. /\ Pick(s) \in s /\ s \ {Pick(s)} \in SUBSET S
          /\ Cardinality(s \ {Pick(s)}) = Cardinality(s) - 1
      BY <1>1, <2>1
    <2>3. Cardinality(s \ {Pick(s)}) = n
      BY <2>2
    <2>4. G[s \ {Pick(s)}] \in Int /\ f[Pick(s)] \in Int
      BY <1>3, <2>2, <2>3
    <2>5. G[s] = f[Pick(s)] + G[s \ {Pick(s)}]
      BY <2>1 DEF Folded
    <2> QED
      BY <2>4, <2>5
  <1> HIDE DEF good
  <1>4. Nat \subseteq good
    BY <1>2, <1>3, Induction
  <1>5. \A s \in SUBSET S : G[s] \in Int
    BY <1>1, <1>4 DEF good
  <1> QED
    BY <1>5

LEMMA FoldIsTally ==
  ASSUME NEW S, IsFiniteSet(S), NEW f, \A x \in S : f[x] \in Int,
         NEW G, G = [s \in SUBSET S |-> Folded(G, f, s)]
  PROVE  Tally(G, f, S)
  <1>0. G \in [SUBSET S -> Int]
    BY FoldType
  <1> DEFINE Free(s) == \A x \in s : G[s] = f[x] + G[s \ {x}]
             good == {n \in Nat : \A s \in SUBSET S : Cardinality(s) <= n => Free(s)}
  <1>1. \A s \in SUBSET S :
          /\ IsFiniteSet(s) /\ Cardinality(s) \in Nat /\ (Cardinality(s) = 0 <=> s = {})
          /\ \A x \in s : s \ {x} \in SUBSET S /\ Cardinality(s \ {x}) = Cardinality(s) - 1
    BY FS_Subset, FS_CardinalityType, FS_EmptySet, FS_RemoveElement
  <1>2. 0 \in good
    BY <1>1
  <1>3. ASSUME NEW n \in Nat, n \in good PROVE n + 1 \in good
    <2> SUFFICES ASSUME NEW s \in SUBSET S, Cardinality(s) <= n + 1, NEW x \in s
                 PROVE  G[s] = f[x] + G[s \ {x}]
      BY n + 1 \in Nat
    <2> DEFINE c == Pick(s)
    <2>1. c \in s
      BY DEF Pick
    <2>2. G[s] = f[c] + G[s \ {c}]
      BY DEF Folded
    <2> HIDE DEF c
    <2>3. CASE x = c
      BY <2>2, <2>3
    <2>4. CASE x # c
      <3>1. /\ s \ {c} \in SUBSET S /\ Cardinality(s \ {c}) <= n /\ x \in s \ {c}
            /\ s \ {x} \in SUBSET S /\ Cardinality(s \ {x}) <= n /\ c \in s \ {x}
        BY <1>1, <2>1, <2>4
      <3>2. /\ G[s \ {c}] = f[x] + G[(s \ {c}) \ {x}]
            /\ G[s \ {x}] = f[c] + G[(s \ {x}) \ {c}]
        BY <1>3, <3>1
      <3>3. (s \ {c}) \ {x} = (s \ {x}) \ {c} /\ (s \ {x}) \ {c} \in SUBSET S
        OBVIOUS
      <3>4. G[(s \ {x}) \ {c}] \in Int /\ f[x] \in Int /\ f[c] \in Int
        BY <1>0, <2>1, <3>3
      <3> DEFINE rest == G[(s \ {x}) \ {c}]
      <3>5. G[s] = f[c] + (f[x] + rest) /\ G[s \ {x}] = f[c] + rest
        BY <2>2, <3>2, <3>3
      <3>6. rest \in Int
        BY <3>4
      <3> HIDE DEF rest
      <3> QED
        BY <3>4, <3>5, <3>6
    <2> QED
      BY <2>3, <2>4
  <1>4. Cardinality(S) \in good
    <2> HIDE DEF good
    <2> QED
      BY <1>1, <1>2, <1>3, Induction
  <1>5. \A s \in SUBSET S : Free(s)
    BY <1>4, FS_Subset
  <1>6. G[{}] = 0
    BY DEF Folded
  <1> QED
    BY <1>0, <1>5, <1>6 DEF Tally

(* The sum of the library is such a fold. *)
LEMMA SumIsTally ==
  ASSUME NEW S, IsFiniteSet(S), NEW f, \A x \in S : f[x] \in Int
  PROVE  \E G : Tally(G, f, S) /\ SumFunctionOnSet(f, S) = G[S]
  <1>0. \E g : g = [s \in SUBSET S |-> Folded(g, f, s)]
    <2>1. PICK g \in [SUBSET S -> Int] : IsFold(g, f, S)
      BY FoldExists
    <2> QED
      BY <2>1 DEF IsFold
  <1> DEFINE Body(g) == [s \in SUBSET S |-> IF s = {} THEN 0
                                            ELSE LET x == CHOOSE x \in s : TRUE
                                                 IN  f[x] + g[s \ {x}]]
             G == CHOOSE g : g = Body(g)
  <1>1. \A g : Body(g) = [s \in SUBSET S |-> Folded(g, f, s)]
    BY DEF Folded, Pick
  <1>2. SumFunctionOnSet(f, S) = G[S]
    BY Zenon DEF SumFunctionOnSet, FoldFunctionOnSet, MapThenFoldSet
  <1> HIDE DEF Body
  <1>3. \E g : g = Body(g)
    BY <1>0, <1>1
  <1>4. G = Body(G)
    BY <1>3
  <1> HIDE DEF G
  <1>5. G = [s \in SUBSET S |-> Folded(G, f, s)]
    BY <1>1, <1>4
  <1>6. Tally(G, f, S)
    BY <1>5, FoldIsTally
  <1> QED
    BY <1>2, <1>6
-----------------------------------------------------------------------------
(* What may be done with sums. *)

LEMMA SumOfNone == ASSUME NEW f PROVE SumFunctionOnSet(f, {}) = 0
  <1>1. PICK G : Tally(G, f, {}) /\ SumFunctionOnSet(f, {}) = G[{}]
    BY SumIsTally, FS_EmptySet
  <1> QED
    BY <1>1 DEF Tally

(* Two tallies agree where both are defined. *)
LEMMA TalliesAgree ==
  ASSUME NEW S, IsFiniteSet(S), NEW f, NEW T \in SUBSET S,
         NEW G, Tally(G, f, S), NEW H, Tally(H, f, T)
  PROVE  G[T] = H[T]
  <1> DEFINE same == {s \in SUBSET T : G[s] = H[s]}
  <1>1. {} \in same
    BY DEF Tally
  <1>2. ASSUME NEW s \in SUBSET T, NEW x \in T \ s, s \in same PROVE s \cup {x} \in same
    <2>1. (s \cup {x}) \ {x} = s /\ s \cup {x} \in SUBSET T /\ s \cup {x} \in SUBSET S
      OBVIOUS
    <2>2. G[s \cup {x}] = f[x] + G[s] /\ H[s \cup {x}] = f[x] + H[s]
      BY <2>1 DEF Tally
    <2> QED
      BY <1>2, <2>1, <2>2
  <1>3. IsFiniteSet(T)
    BY FS_Subset
  <1> HIDE DEF same
  <1>4. T \in same
    BY <1>1, <1>2, <1>3, SetInduction
  <1> QED
    BY <1>4 DEF same

(* Any term may be taken out of a sum. *)
LEMMA TakeOut ==
  ASSUME NEW S, IsFiniteSet(S), NEW f, \A y \in S : f[y] \in Int, NEW x \in S
  PROVE  /\ SumFunctionOnSet(f, S \ {x}) \in Int
         /\ SumFunctionOnSet(f, S) = f[x] + SumFunctionOnSet(f, S \ {x})
  <1> DEFINE T == S \ {x}
  <1>1. PICK G : Tally(G, f, S) /\ SumFunctionOnSet(f, S) = G[S]
    BY SumIsTally
  <1>2. PICK H : Tally(H, f, T) /\ SumFunctionOnSet(f, T) = H[T]
    BY SumIsTally, FS_Subset
  <1>3. G[T] = H[T]
    BY <1>1, <1>2, TalliesAgree
  <1>4. G[S] = f[x] + G[T] /\ G[T] \in Int
    BY <1>1 DEF Tally
  <1> QED
    BY <1>1, <1>2, <1>3, <1>4

LEMMA SumIsInt ==
  ASSUME NEW S, IsFiniteSet(S), NEW f, \A y \in S : f[y] \in Int
  PROVE  SumFunctionOnSet(f, S) \in Int
  <1>1. PICK G : Tally(G, f, S) /\ SumFunctionOnSet(f, S) = G[S]
    BY SumIsTally
  <1> QED
    BY <1>1 DEF Tally

LEMMA SumWithOneMore ==
  ASSUME NEW S, IsFiniteSet(S), NEW f, NEW x, x \notin S,
         \A y \in S \cup {x} : f[y] \in Int
  PROVE  SumFunctionOnSet(f, S \cup {x}) = SumFunctionOnSet(f, S) + f[x]
  <1>1. IsFiniteSet(S \cup {x}) /\ (S \cup {x}) \ {x} = S
    BY FS_AddElement
  <1>2. SumFunctionOnSet(f, S \cup {x}) = f[x] + SumFunctionOnSet(f, S)
    BY <1>1, TakeOut
  <1>3. SumFunctionOnSet(f, S) \in Int
    BY SumIsInt
  <1> QED
    BY <1>2, <1>3

(* A sum depends on its terms only. *)
LEMMA SameSum ==
  ASSUME NEW S, IsFiniteSet(S), NEW f, NEW g,
         \A y \in S : f[y] \in Int /\ f[y] = g[y]
  PROVE  SumFunctionOnSet(f, S) = SumFunctionOnSet(g, S)
  <1>1. PICK G : Tally(G, f, S) /\ SumFunctionOnSet(f, S) = G[S]
    BY SumIsTally
  <1>2. PICK H : Tally(H, g, S) /\ SumFunctionOnSet(g, S) = H[S]
    BY SumIsTally
  <1>3. Tally(H, f, S)
    <2>1. ASSUME NEW s \in SUBSET S, NEW x \in s PROVE H[s] = f[x] + H[s \ {x}]
      BY <1>2 DEF Tally
    <2> QED
      BY <1>2, <2>1 DEF Tally
  <1>4. G[S] = H[S]
    BY <1>1, <1>3, TalliesAgree
  <1> QED
    BY <1>1, <1>2, <1>4

(* One term changes. *)
LEMMA SumWithOneChanged ==
  ASSUME NEW S, IsFiniteSet(S), NEW f \in [S -> Int], NEW g \in [S -> Int],
         NEW x \in S, \A y \in S \ {x} : g[y] = f[y]
  PROVE  SumFunctionOnSet(g, S) = SumFunctionOnSet(f, S) + g[x] - f[x]
  <1> DEFINE T == S \ {x}
  <1>1. /\ SumFunctionOnSet(f, T) \in Int
        /\ SumFunctionOnSet(f, S) = f[x] + SumFunctionOnSet(f, T)
        /\ SumFunctionOnSet(g, S) = g[x] + SumFunctionOnSet(g, T)
    BY TakeOut
  <1>2. SumFunctionOnSet(f, T) = SumFunctionOnSet(g, T)
    <2>1. IsFiniteSet(T) /\ \A y \in T : f[y] \in Int /\ f[y] = g[y]
      BY FS_Subset
    <2> HIDE DEF T
    <2> QED
      BY <2>1, SameSum
  <1> QED
    BY <1>1, <1>2

(* A sum of terms of one sign has that sign. *)
LEMMA SumOfNaturals ==
  ASSUME NEW S, IsFiniteSet(S), NEW f, \A y \in S : f[y] \in Nat
  PROVE  SumFunctionOnSet(f, S) \in Nat
  <1>1. PICK G : Tally(G, f, S) /\ SumFunctionOnSet(f, S) = G[S]
    BY SumIsTally
  <1> DEFINE good == {s \in SUBSET S : G[s] \in Nat}
  <1>2. {} \in good
    BY <1>1 DEF Tally
  <1>3. ASSUME NEW s \in SUBSET S, NEW x \in S \ s, s \in good PROVE s \cup {x} \in good
    <2>1. (s \cup {x}) \ {x} = s /\ s \cup {x} \in SUBSET S
      OBVIOUS
    <2>2. G[s \cup {x}] = f[x] + G[s]
      BY <1>1, <2>1 DEF Tally
    <2> QED
      BY <1>3, <2>1, <2>2
  <1> HIDE DEF good
  <1>4. S \in good
    BY <1>2, <1>3, SetInduction
  <1> QED
    BY <1>1, <1>4 DEF good

(* The sum over two sets that have nothing in common. *)
LEMMA SumOfUnion ==
  ASSUME NEW S, IsFiniteSet(S), NEW T, IsFiniteSet(T), S \cap T = {},
         NEW f, \A y \in S \cup T : f[y] \in Int
  PROVE  SumFunctionOnSet(f, S \cup T) = SumFunctionOnSet(f, S) + SumFunctionOnSet(f, T)
  <1> DEFINE Sum(X) == SumFunctionOnSet(f, X)
             good == {s \in SUBSET T : Sum(S \cup s) = Sum(S) + Sum(s)}
  <1>1. Sum(S) \in Int
    BY SumIsInt
  <1>2. {} \in good
    <2>1. Sum({}) = 0 /\ S \cup {} = S
      BY SumOfNone
    <2> QED
      BY <1>1, <2>1
  <1>3. ASSUME NEW s \in SUBSET T, NEW x \in T \ s, s \in good PROVE s \cup {x} \in good
    <2>1. IsFiniteSet(s) /\ IsFiniteSet(S \cup s)
      BY FS_Subset, FS_Union
    <2>2. x \notin s /\ \A y \in s \cup {x} : f[y] \in Int
      OBVIOUS
    <2>3. Sum(s \cup {x}) = Sum(s) + f[x]
      BY <2>1, <2>2, SumWithOneMore
    <2>4. x \notin S \cup s /\ \A y \in (S \cup s) \cup {x} : f[y] \in Int
      OBVIOUS
    <2>5. Sum((S \cup s) \cup {x}) = Sum(S \cup s) + f[x]
      BY <2>1, <2>4, SumWithOneMore
    <2>6. S \cup (s \cup {x}) = (S \cup s) \cup {x} /\ s \cup {x} \in SUBSET T
      OBVIOUS
    <2>7. Sum(s) \in Int /\ f[x] \in Int
      BY <2>1, SumIsInt
    <2>8. Sum(S \cup s) = Sum(S) + Sum(s)
      BY <1>3
    <2>9. Sum(S \cup (s \cup {x})) = Sum(S \cup s) + f[x]
      BY <2>5, <2>6
    <2>10. Sum(S \cup (s \cup {x})) = Sum(S) + Sum(s \cup {x})
      <3> DEFINE a == Sum(S)
                 b == Sum(s)
      <3>1. Sum(S \cup (s \cup {x})) = (a + b) + f[x] /\ Sum(s \cup {x}) = b + f[x]
        BY <2>3, <2>8, <2>9
      <3>2. a \in Int /\ b \in Int
        BY <1>1, <2>7
      <3> HIDE DEF a, b
      <3> QED
        BY <2>7, <3>1, <3>2 DEF a
    <2> QED
      BY <2>6, <2>10
  <1> HIDE DEF good
  <1>4. T \in good
    BY <1>2, <1>3, SetInduction
  <1> QED
    BY <1>4 DEF good

(* A part of a sum of natural numbers is at most the sum. *)
LEMMA SumOfPart ==
  ASSUME NEW S, IsFiniteSet(S), NEW T \in SUBSET S, NEW f, \A y \in S : f[y] \in Nat
  PROVE  SumFunctionOnSet(f, T) <= SumFunctionOnSet(f, S)
  <1> DEFINE R == S \ T
  <1>1. IsFiniteSet(T) /\ IsFiniteSet(R)
    BY FS_Subset
  <1>2. T \cup R = S /\ T \cap R = {} /\ \A y \in T \cup R : f[y] \in Int
    OBVIOUS
  <1>3. \A y \in R : f[y] \in Nat
    OBVIOUS
  <1>4. \A y \in T : f[y] \in Nat
    OBVIOUS
  <1> HIDE DEF R
  <1>5. SumFunctionOnSet(f, S) = SumFunctionOnSet(f, T) + SumFunctionOnSet(f, R)
    BY <1>1, <1>2, SumOfUnion
  <1>6. SumFunctionOnSet(f, R) \in Nat
    BY <1>1, <1>3, SumOfNaturals
  <1>7. SumFunctionOnSet(f, T) \in Nat
    BY <1>1, <1>4, SumOfNaturals
  <1> QED
    BY <1>5, <1>6, <1>7

-----------------------------------------------------------------------------
(* Sums of sequences. *)

LEMMA SumOfEmptySequence == SumFunction(<<>>) = 0
  <1>1. DOMAIN <<>> = {}
    OBVIOUS
  <1> QED
    BY <1>1, SumOfNone DEF SumFunction

LEMMA SequenceSumIsInt ==
  ASSUME NEW s, NEW n \in Nat, s \in [1..n -> Int]
  PROVE  SumFunction(s) \in Int /\ SumFunction(s) = SumFunctionOnSet(s, 1..n)
  <1>1. DOMAIN s = 1..n /\ IsFiniteSet(1..n)
    BY FS_Interval
  <1> QED
    BY <1>1, SumIsInt DEF SumFunction

LEMMA OneMoreNumber ==
  ASSUME NEW n \in Nat
  PROVE  IsFiniteSet(1..n) /\ n + 1 \notin 1..n /\ 1..(n + 1) = (1..n) \cup {n + 1}
  <1>1. IsFiniteSet(1..n)
    BY FS_Interval
  <1> QED
    BY <1>1

LEMMA SumUpTo ==
  ASSUME NEW n \in Nat, NEW f, \A i \in 1..(n + 1) : f[i] \in Int
  PROVE  /\ SumFunctionOnSet(f, 1..n) \in Int
         /\ SumFunctionOnSet(f, 1..(n + 1)) = SumFunctionOnSet(f, 1..n) + f[n + 1]
  <1> DEFINE I == 1..n
             last == n + 1
  <1>1. IsFiniteSet(I) /\ last \notin I /\ 1..(n + 1) = I \cup {last}
    BY OneMoreNumber
  <1>2. \A y \in I \cup {last} : f[y] \in Int
    BY <1>1
  <1> HIDE DEF I, last
  <1>3. SumFunctionOnSet(f, I \cup {last}) = SumFunctionOnSet(f, I) + f[last]
    BY <1>1, <1>2, SumWithOneMore
  <1>4. SumFunctionOnSet(f, I) \in Int
    BY <1>1, <1>2, SumIsInt
  <1> QED
    BY <1>1, <1>3, <1>4 DEF I, last

(* A term at the end. *)
LEMMA SumWithLast ==
  ASSUME NEW n \in Nat, NEW s \in [1..n -> Int], NEW t \in [1..(n + 1) -> Int],
         \A i \in 1..n : t[i] = s[i]
  PROVE  SumFunction(t) = SumFunction(s) + t[n + 1]
  <1>1. /\ SumFunction(t) = SumFunctionOnSet(t, 1..(n + 1))
        /\ SumFunction(s) = SumFunctionOnSet(s, 1..n)
    BY SequenceSumIsInt, n + 1 \in Nat
  <1>2. SumFunctionOnSet(t, 1..(n + 1)) = SumFunctionOnSet(t, 1..n) + t[n + 1]
    BY SumUpTo
  <1>3. SumFunctionOnSet(t, 1..n) = SumFunctionOnSet(s, 1..n)
    BY OneMoreNumber, SameSum
  <1> QED
    BY <1>1, <1>2, <1>3

(* A term at the front: every other one moves up. *)
LEMMA SumWithFirst ==
  ASSUME NEW n \in Nat, NEW s \in [1..n -> Int], NEW t \in [1..(n + 1) -> Int],
         \A i \in 1..n : t[i + 1] = s[i]
  PROVE  SumFunction(t) = t[1] + SumFunction(s)
  <1> DEFINE S(k) == SumFunctionOnSet(s, 1..k)
             T(k) == SumFunctionOnSet(t, 1..k)
             good == {k \in Nat : k <= n => T(k + 1) = t[1] + S(k)}
  <1>2. ASSUME NEW k \in 0..n PROVE S(k) \in Int
    <2>1. IsFiniteSet(1..k) /\ \A y \in 1..k : s[y] \in Int
      BY OneMoreNumber
    <2> QED
      BY <2>1, SumIsInt
  <1>3. ASSUME NEW k \in 0..n PROVE T(k + 1) = T(k) + t[k + 1]
    <2>1. k \in Nat /\ \A i \in 1..(k + 1) : t[i] \in Int
      OBVIOUS
    <2> QED
      BY <2>1, SumUpTo
  <1>4. ASSUME NEW k \in 0..(n - 1) PROVE S(k + 1) = S(k) + s[k + 1]
    <2>1. k \in Nat /\ \A i \in 1..(k + 1) : s[i] \in Int
      OBVIOUS
    <2> QED
      BY <2>1, SumUpTo
  <1>5. 1..0 = {}
    OBVIOUS
  <1>6. S(0) = 0 /\ T(0) = 0
    BY <1>5, SumOfNone
  <1> HIDE DEF S, T
  <1>7. 0 \in good
    BY <1>3, <1>6
  <1>8. ASSUME NEW k \in Nat, k \in good PROVE k + 1 \in good
    <2> SUFFICES ASSUME k + 1 <= n PROVE T((k + 1) + 1) = t[1] + S(k + 1)
      BY k + 1 \in Nat
    <2>1. T(k + 1) = t[1] + S(k)
      BY <1>8
    <2>2. T((k + 1) + 1) = T(k + 1) + t[(k + 1) + 1]
      BY <1>3
    <2>3. S(k + 1) = S(k) + s[k + 1] /\ t[(k + 1) + 1] = s[k + 1]
      BY <1>4
    <2>4. S(k) \in Int /\ t[1] \in Int /\ s[k + 1] \in Int
      BY <1>2
    <2> QED
      BY <2>1, <2>2, <2>3, <2>4
  <1> HIDE DEF good
  <1>9. n \in good
    BY <1>7, <1>8, Induction
  <1>10. T(n + 1) = t[1] + S(n)
    BY <1>9 DEF good
  <1> QED
    BY <1>10, SequenceSumIsInt, n + 1 \in Nat DEF S, T

(* The same for Append. *)
LEMMA SumOfAppended ==
  ASSUME NEW s \in Seq(Int), NEW e \in Int
  PROVE  SumFunction(s) \in Int /\ SumFunction(Append(s, e)) = SumFunction(s) + e
  <1> DEFINE n == Len(s)
             t == Append(s, e)
  <1>1. n \in Nat /\ s \in [1..n -> Int]
    OBVIOUS
  <1>2. t \in Seq(Int) /\ Len(t) = n + 1 /\ t[n + 1] = e /\ \A i \in 1..n : t[i] = s[i]
    OBVIOUS
  <1> HIDE DEF n, t
  <1>3. t \in [1..(n + 1) -> Int]
    BY <1>2
  <1>4. SumFunction(t) = SumFunction(s) + t[n + 1]
    BY <1>1, <1>2, <1>3, SumWithLast
  <1> QED
    BY <1>1, <1>2, <1>4, SequenceSumIsInt DEF t

-----------------------------------------------------------------------------
(* Ints: AsInt keeps the remainder modulo the width of an int. *)

Width == 2 * (INT_MAX + 1)

LEMMA WidthIsPositive == Width \in Nat \ {0} /\ Width = INT_MAX - INT_MIN + 1
  BY IntMaxAssumption DEF Width, INT_MIN

LEMMA RemainderType ==
  ASSUME NEW w \in Nat \ {0}, NEW d \in Int
  PROVE  d % w \in 0..(w - 1) /\ d \div w \in Int
  OBVIOUS

LEMMA Remainder ==
  ASSUME NEW w \in Nat \ {0}, NEW d \in Int
  PROVE  d = w * (d \div w) + (d % w)
  OBVIOUS

LEMMA SmallMultiple ==
  ASSUME NEW w \in Nat \ {0}, NEW k \in Int, -w < k * w, k * w < w
  PROVE  k = 0
  OBVIOUS

LEMMA SameRemainder ==
  ASSUME NEW w \in Nat \ {0}, NEW d \in Int, NEW k \in Int
  PROVE  (d + k * w) % w = d % w
  <1> DEFINE a == (d + k * w) % w
             b == d % w
             p == (d + k * w) \div w
             q == d \div w
  <1>1. k * w \in Int
    OBVIOUS
  <1>2. a \in 0..(w - 1) /\ b \in 0..(w - 1) /\ p \in Int /\ q \in Int
    BY <1>1, RemainderType
  <1>3. d + k * w = w * p + a /\ d = w * q + b
    BY <1>1, Remainder
  <1> HIDE DEF a, b, p, q
  <1>4. (p - q - k) * w = w * p - w * q - k * w
    BY <1>2
  <1>5. (p - q - k) * w = b - a
    <2> DEFINE x == w * p
               y == w * q
               z == k * w
    <2>1. x \in Int /\ y \in Int /\ z \in Int /\ (p - q - k) * w = x - y - z
      BY <1>2, <1>4
    <2>2. d + z = x + a /\ d = y + b
      BY <1>3
    <2> HIDE DEF x, y, z
    <2> QED
      BY <1>2, <2>1, <2>2
  <1>6. p - q - k \in Int /\ -w < b - a /\ b - a < w
    BY <1>2
  <1>7. p - q - k = 0
    BY <1>5, <1>6, SmallMultiple
  <1>8. b - a = 0
    BY <1>5, <1>7
  <1> QED
    BY <1>2, <1>8 DEF a, b

LEMMA IntIsNumber ==
  ASSUME NEW x \in MachineInts
  PROVE  x \in Int /\ INT_MIN <= x /\ x <= INT_MAX
  BY IntMaxAssumption DEF MachineInts, INT_MIN

LEMMA IntsAreNumbers ==
  ASSUME NEW s \in Seq(MachineInts)
  PROVE  s \in Seq(Int)
  <1>1. \A i \in 1..Len(s) : s[i] \in Int
    BY IntIsNumber
  <1> QED
    BY <1>1

(* What a sum of ints wraps to is an int, a multiple of the width away. *)
LEMMA AsIntType == ASSUME NEW x \in Int PROVE AsInt(x) \in MachineInts
  <1>1. x - INT_MIN \in Int
    BY IntMaxAssumption DEF INT_MIN
  <1>2. (x - INT_MIN) % Width \in 0..(Width - 1)
    BY <1>1, WidthIsPositive, RemainderType
  <1> QED
    BY <1>2, WidthIsPositive, IntMaxAssumption DEF AsInt, MachineInts, INT_MIN, Width

LEMMA AsIntWraps ==
  ASSUME NEW x \in Int
  PROVE  \E k \in Int : k * Width \in Int /\ AsInt(x) = x + k * Width
  <1> DEFINE d == x - INT_MIN
             q == d \div Width
             r == d % Width
  <1>1. d \in Int /\ x \in Int /\ INT_MIN \in Int
    BY IntMaxAssumption DEF INT_MIN
  <1> HIDE DEF d
  <1>2. q \in Int /\ r \in Int /\ d = Width * q + r
    <2>1. Width \in Nat \ {0}
      BY WidthIsPositive
    <2> QED
      BY <1>1, <2>1, Remainder, RemainderType
  <1>3. AsInt(x) = INT_MIN + r
    BY DEF AsInt, Width, d
  <1> HIDE DEF q, r
  <1> DEFINE z == Width * q
  <1>4. z \in Int /\ (-q) \in Int /\ (-q) * Width = -z
    BY <1>2, WidthIsPositive
  <1> HIDE DEF z
  <1>5. d = z + r
    BY <1>2 DEF z
  <1>6. INT_MIN + r = x + (-z)
    BY <1>1, <1>2, <1>4, <1>5 DEF d
  <1> QED
    BY <1>3, <1>4, <1>6

LEMMA AsIntOfMore ==
  ASSUME NEW x \in Int, NEW k \in Int
  PROVE  AsInt(x + k * Width) = AsInt(x)
  <1> DEFINE d == x - INT_MIN
             z == k * Width
  <1>1. d \in Int /\ z \in Int /\ INT_MIN \in Int
    BY WidthIsPositive, IntMaxAssumption DEF INT_MIN
  <1>2. (d + z) % Width = d % Width
    BY <1>1, WidthIsPositive, SameRemainder
  <1>3. (x + z) - INT_MIN = d + z
    BY <1>1
  <1> HIDE DEF z, d
  <1>4. AsInt(x + z) = INT_MIN + ((d + z) % Width)
    BY <1>3 DEF AsInt, Width
  <1>5. AsInt(x) = INT_MIN + (d % Width)
    BY DEF AsInt, Width, d
  <1> QED
    BY <1>2, <1>4, <1>5 DEF z

(* Wrapping early or late makes no difference. *)
LEMMA AsIntAbsorbs ==
  ASSUME NEW x \in Int, NEW y \in Int
  PROVE  /\ AsInt(AsInt(x) + y) = AsInt(x + y)
         /\ AsInt(y + AsInt(x)) = AsInt(x + y)
         /\ AsInt(y - AsInt(x)) = AsInt(y - x)
  <1>1. PICK k \in Int : k * Width \in Int /\ AsInt(x) = x + k * Width
    BY AsIntWraps
  <1> DEFINE z == k * Width
  <1>2. (-k) \in Int /\ (-k) * Width = -z
    BY WidthIsPositive
  <1>3. z \in Int /\ AsInt(x) = x + z
    BY <1>1
  <1> HIDE DEF z
  <1>4. /\ AsInt(x) + y = (x + y) + z /\ y + AsInt(x) = (x + y) + z
        /\ y - AsInt(x) = (y - x) + (-z)
    BY <1>3
  <1>5. AsInt((x + y) + z) = AsInt(x + y)
    BY AsIntOfMore DEF z
  <1>6. AsInt((y - x) + (-z)) = AsInt(y - x)
    <2>1. y - x \in Int
      OBVIOUS
    <2> QED
      BY <1>2, <2>1, AsIntOfMore
  <1> QED
    BY <1>4, <1>5, <1>6

(* An int is what it is. *)
LEMMA AsIntOfInt == ASSUME NEW x \in MachineInts PROVE x \in Int /\ AsInt(x) = x
  <1> DEFINE d == x - INT_MIN
             q == d \div Width
             r == d % Width
  <1>1. x \in Int /\ d \in 0..(Width - 1) /\ INT_MIN \in Int
    BY WidthIsPositive, IntMaxAssumption DEF MachineInts, INT_MIN
  <1>3. AsInt(x) = INT_MIN + r
    BY DEF AsInt, Width
  <1> HIDE DEF d
  <1>2. q \in Int /\ r \in 0..(Width - 1) /\ d = Width * q + r
    <2>1. Width \in Nat \ {0} /\ d \in Int
      BY <1>1, WidthIsPositive
    <2> QED
      BY <2>1, Remainder, RemainderType
  <1> HIDE DEF q, r
  <1>4. q * Width = d - r /\ -Width < d - r /\ d - r < Width
    <2> DEFINE z == Width * q
    <2>1. z = q * Width /\ z \in Int
      BY <1>2, WidthIsPositive
    <2> HIDE DEF z
    <2>2. d = z + r
      BY <1>2 DEF z
    <2> QED
      BY <1>1, <1>2, <2>1, <2>2, WidthIsPositive
  <1>5. q = 0
    BY <1>2, <1>4, WidthIsPositive, SmallMultiple
  <1>6. r = d
    BY <1>1, <1>2, <1>5, WidthIsPositive
  <1> QED
    BY <1>1, <1>3, <1>6 DEF d

(* Sums that wrap to the same int do so whatever is added to both. *)
LEMMA AsIntOfSums ==
  ASSUME NEW x \in Int, NEW y \in Int, AsInt(x) = AsInt(y), NEW z \in Int
  PROVE  AsInt(x + z) = AsInt(y + z)
  BY AsIntAbsorbs
-----------------------------------------------------------------------------
(* Recursion. *)

\* G[0], G[1], ... starts with base and goes on with step.
IsRun(G, base, step, n) ==
  G[0] = base /\ \A i \in 1..n : G[i] = step[<<i, G[i - 1]>>]

LEMMA Recursion ==
  ASSUME NEW X, NEW base \in X, NEW n \in Nat, NEW step \in [(1..n) \X X -> X]
  PROVE  \E G \in [0..n -> X] : IsRun(G, base, step, n)
  <1> DEFINE good == {m \in Nat : m <= n => \E G \in [0..m -> X] : IsRun(G, base, step, m)}
  <1>1. 0 \in good
    <2>1. [i \in 0..0 |-> base] \in [0..0 -> X]
      OBVIOUS
    <2>2. IsRun([i \in 0..0 |-> base], base, step, 0)
      BY DEF IsRun
    <2> QED
      BY <2>1, <2>2
  <1>2. ASSUME NEW m \in Nat, m \in good PROVE m + 1 \in good
    <2> SUFFICES ASSUME m + 1 <= n
                 PROVE  \E G \in [0..(m + 1) -> X] : IsRun(G, base, step, m + 1)
      OBVIOUS
    <2>1. PICK G \in [0..m -> X] : IsRun(G, base, step, m)
      BY <1>2
    <2> DEFINE H == [i \in 0..(m + 1) |-> IF i = m + 1 THEN step[<<m + 1, G[m]>>] ELSE G[i]]
    <2>2. G[m] \in X /\ m + 1 \in 1..n
      OBVIOUS
    <2>3. step[<<m + 1, G[m]>>] \in X
      BY <2>2
    <2>4. H \in [0..(m + 1) -> X]
      BY <2>3
    <2>5. /\ H[m + 1] = step[<<m + 1, G[m]>>]
          /\ \A i \in 0..m : H[i] = G[i]
      OBVIOUS
    <2> HIDE DEF H
    <2>6. H[0] = base
      BY <2>1, <2>5 DEF IsRun
    <2>7. ASSUME NEW i \in 1..(m + 1) PROVE H[i] = step[<<i, H[i - 1]>>]
      <3>1. CASE i = m + 1
        <4>1. i - 1 = m /\ m \in 0..m
          BY <3>1
        <4> QED
          BY <2>5, <3>1, <4>1
      <3>2. CASE i # m + 1
        <4>1. i \in 1..m /\ i \in 0..m /\ i - 1 \in 0..m
          BY <3>2
        <4> QED
          BY <2>1, <2>5, <4>1 DEF IsRun
      <3> QED
        BY <3>1, <3>2
    <2>8. IsRun(H, base, step, m + 1)
      BY <2>6, <2>7 DEF IsRun
    <2> QED
      BY <2>4, <2>8
  <1> HIDE DEF good
  <1>3. n \in good
    BY <1>1, <1>2, Induction
  <1> QED
    BY <1>3 DEF good
=============================================================================
