---------------------------- MODULE FunctionSums ----------------------------
(***************************************************************************)
(* Sums of a function over a finite set, as SumFunctionOnSet of the        *)
(* community modules defines them: a fold that takes the elements out in   *)
(* an arbitrary order. The stake and balance arguments of the other proof  *)
(* modules need that the order does not matter: a sum splits over disjoint *)
(* sets, grows with the set and survives renaming.                         *)
(*                                                                         *)
(* The facts are proved by smallest counterexample: among the subsets of a *)
(* finite set at which a fact fails, one has no smaller one inside it      *)
(* (SmallestSet).                                                          *)
(***************************************************************************)
EXTENDS Naturals, Sequences, FiniteSets, Functions, FiniteSetTheorems,
        WellFoundedInduction, TLAPS

(* The time the provers are given for a leaf. *)
USE SMTT(30), ZenonT(30)

(* Among finitely based sets, some member of a collection has no other     *)
(* member inside it: a smallest counterexample, the form of induction used *)
(* below.                                                                  *)
LEMMA SmallestSet ==
    ASSUME NEW S, IsFiniteSet(S), NEW T \in SUBSET (SUBSET S), T # {}
    PROVE  \E x \in T : \A y \in T : y \subseteq x => y = x
<1> DEFINE R == StrictSubsetOrdering(S)
<1>1. IsWellFoundedOn(R, SUBSET S)
  BY FS_StrictSubsetOrderingWellFounded, FS_FiniteSubsetsOfFinite
<1>2. \E x \in T : \A y \in T : ~ (<<y, x>> \in R)
  <2> HIDE DEF R
  <2> QED BY <1>1, WFMin
<1> QED
  BY <1>2, ZenonT(30) DEF StrictSubsetOrdering

(* A set of naturals that is not empty has a least element. *)
LEMMA SmallestNat ==
    ASSUME NEW T \in SUBSET Nat, T # {}
    PROVE  \E x \in T : \A y \in T : x <= y
<1> DEFINE R == OpToRel(<, Nat)
<1>1. IsWellFoundedOn(R, Nat)
  BY NatLessThanWellFounded, ZenonT(30)
<1>2. \E x \in T : \A y \in T : ~ (<<y, x>> \in R)
  <2> HIDE DEF R
  <2> QED BY <1>1, WFMin, ZenonT(30)
<1>3. PICK x \in T : \A y \in T : ~ (<<y, x>> \in R)
  BY <1>2, ZenonT(30)
<1>4. ASSUME NEW y \in T PROVE x <= y
  <2>1. x \in Nat /\ y \in Nat
    OBVIOUS
  <2>2. y < x => <<y, x>> \in R
    BY <2>1 DEF OpToRel
  <2> HIDE DEF R
  <2> QED
    BY <1>3, <2>1, <2>2
<1> QED
  BY <1>4

-----------------------------------------------------------------------------
(* The element a fold takes out of a set first. *)
First(s) == CHOOSE x \in s : TRUE

(* What the fold assigns to s if g holds its values on smaller sets. *)
Unfold(f, g, s) == IF s = {} THEN 0 ELSE f[First(s)] + g[s \ {First(s)}]

(* g holds the values of the fold on the subsets of S. *)
IsFold(f, S, g) == g = [s \in SUBSET S |-> Unfold(f, g, s)]

(* The element taken out first is one of the set. *)
LEMMA FirstIn == ASSUME NEW s, s # {} PROVE First(s) \in s
BY DEF First

(* A sum is the value of the fold at the whole set. *)
LEMMA SumIsFold ==
    ASSUME NEW f, NEW S
    PROVE  SumFunctionOnSet(f, S) = (CHOOSE g : IsFold(f, S, g))[S]
BY Zenon DEF SumFunctionOnSet, FoldFunctionOnSet, MapThenFoldSet, IsFold, Unfold, First

(* The values on the subsets of a subset. *)
LEMMA FoldRestricts ==
    ASSUME NEW f, NEW S, NEW T \in SUBSET S, NEW g, IsFold(f, S, g)
    PROVE  IsFold(f, T, [s \in SUBSET T |-> g[s]])
<1> DEFINE h == [s \in SUBSET T |-> g[s]]
<1>1. ASSUME NEW s \in SUBSET T PROVE g[s] = Unfold(f, h, s)
  <2>1. g[s] = Unfold(f, g, s)
    BY DEF IsFold
  <2>2. h[s \ {First(s)}] = g[s \ {First(s)}]
    OBVIOUS
  <2> QED
    BY <2>1, <2>2 DEF Unfold
<1> QED
  BY <1>1, ZenonT(30) DEF IsFold

(* Two folds agree. *)
LEMMA FoldUnique ==
    ASSUME NEW f, NEW S, IsFiniteSet(S), NEW g, NEW h, IsFold(f, S, g), IsFold(f, S, h)
    PROVE  g = h
<1> DEFINE Bad == {s \in SUBSET S : g[s] # h[s]}
<1>0. Bad \in SUBSET (SUBSET S)
  OBVIOUS
<1>1. ASSUME Bad # {} PROVE FALSE
  <2>1. PICK s \in Bad : \A t \in Bad : t \subseteq s => t = s
    <3> HIDE DEF Bad
    <3> QED
      BY <1>0, <1>1, SmallestSet
  <2>2. g[s] = Unfold(f, g, s) /\ h[s] = Unfold(f, h, s)
    BY DEF IsFold
  <2>3. s # {}
    BY <2>2 DEF Unfold
  <2>4. First(s) \in s
    BY <2>3, FirstIn
  <2>5. s \ {First(s)} \notin Bad
    BY <2>1, <2>4
  <2>6. g[s \ {First(s)}] = h[s \ {First(s)}]
    BY <2>5
  <2> QED
    BY <2>2, <2>6 DEF Unfold
<1>2. \A s \in SUBSET S : g[s] = h[s]
  BY <1>1
<1>3. /\ g = [s \in SUBSET S |-> Unfold(f, g, s)]
      /\ h = [s \in SUBSET S |-> Unfold(f, h, s)]
  BY DEF IsFold
<1> HIDE DEF Bad
<1> QED
  BY <1>2, <1>3, ZenonT(30)

(* There is a fold over every finite set: a smallest set without one would *)
(* have one on the union of those of its strict subsets.                   *)
LEMMA FoldExists ==
    ASSUME NEW f, NEW S, IsFiniteSet(S)
    PROVE  \E g : IsFold(f, S, g)
<1> DEFINE Bad == {T \in SUBSET S : ~ \E g : IsFold(f, T, g)}
<1>0. Bad \in SUBSET (SUBSET S)
  OBVIOUS
<1>1. ASSUME Bad # {} PROVE FALSE
  <2>1. PICK T \in Bad : \A U \in Bad : U \subseteq T => U = T
    <3> HIDE DEF Bad
    <3> QED
      BY <1>0, <1>1, SmallestSet
  <2> DEFINE G(U) == CHOOSE g : IsFold(f, U, g)
  <2>2. ASSUME NEW U \in SUBSET T, U # T PROVE IsFold(f, U, G(U))
    <3>1. U \notin Bad
      BY <2>1, <2>2
    <3>2. \E g : IsFold(f, U, g)
      BY <3>1
    <3> QED
      BY <3>2
  <2> HIDE DEF G
  <2> DEFINE low == [U \in SUBSET T |-> IF U = T THEN 0 ELSE G(U)[U]]
             new == [U \in SUBSET T |-> Unfold(f, low, U)]
  <2>3. ASSUME NEW U \in SUBSET T, U # T PROVE low[U] = Unfold(f, low, U)
    <3>1. G(U)[U] = Unfold(f, G(U), U)
      BY <2>2, <2>3, ZenonT(30) DEF IsFold
    <3>2. CASE U = {}
      BY <2>3, <3>1, <3>2 DEF Unfold
    <3>3. CASE U # {}
      <4> DEFINE V == U \ {First(U)}
      <4>1. V \in SUBSET U /\ V \in SUBSET T /\ V # T /\ V # U /\ First(U) \in U
        BY <2>3, <3>3, FirstIn
      <4>2. IsFold(f, V, [s \in SUBSET V |-> G(U)[s]])
        <5>1. IsFold(f, U, G(U))
          BY <2>2, <2>3
        <5> HIDE DEF V
        <5> QED
          BY <4>1, <5>1, FoldRestricts, ZenonT(30)
      <4>3. IsFiniteSet(V)
        BY <4>1, FS_Subset
      <4>4. G(V) = [s \in SUBSET V |-> G(U)[s]]
        BY <2>2, <4>1, <4>2, <4>3, FoldUnique
      <4>5. G(V)[V] = G(U)[V]
        BY <4>4
      <4>6. low[V] = G(V)[V] /\ low[U] = G(U)[U]
        BY <2>3, <4>1
      <4> QED
        BY <3>1, <3>3, <4>5, <4>6 DEF Unfold
    <3> QED
      BY <3>2, <3>3
  <2>4. ASSUME NEW U \in SUBSET T PROVE new[U] = Unfold(f, new, U)
    <3>1. CASE U = {}
      BY <3>1 DEF Unfold
    <3>2. CASE U # {}
      <4> DEFINE V == U \ {First(U)}
      <4>1. V \in SUBSET T /\ V # T
        BY <3>2, FirstIn
      <4>2. new[V] = low[V]
        BY <2>3, <4>1, ZenonT(30)
      <4>3. new[U] = Unfold(f, low, U)
        OBVIOUS
      <4> HIDE DEF new, low
      <4> QED
        BY <3>2, <4>2, <4>3 DEF Unfold
    <3> QED
      BY <3>1, <3>2
  <2>5. IsFold(f, T, new)
    BY <2>4, ZenonT(30) DEF IsFold
  <2> QED
    BY <2>1, <2>5
<1> QED
  BY <1>1
-----------------------------------------------------------------------------
(* The sum over a non-empty set takes out one element. *)
LEMMA SumUnfold ==
    ASSUME NEW f, NEW S, IsFiniteSet(S)
    PROVE  SumFunctionOnSet(f, S) =
               IF S = {} THEN 0
               ELSE f[First(S)] + SumFunctionOnSet(f, S \ {First(S)})
<1> DEFINE T == S \ {First(S)}
           G(U) == CHOOSE g : IsFold(f, U, g)
<1>1. IsFold(f, S, G(S))
  BY FoldExists
<1>2. SumFunctionOnSet(f, S) = G(S)[S] /\ SumFunctionOnSet(f, T) = G(T)[T]
  BY SumIsFold
<1>3. G(S)[S] = Unfold(f, G(S), S)
  BY <1>1, ZenonT(30) DEF IsFold
<1>4. IsFiniteSet(T) /\ T \in SUBSET S
  BY FS_Subset
<1>5. IsFold(f, T, G(T))
  BY <1>4, FoldExists
<1> HIDE DEF G, T
<1>6. IsFold(f, T, [s \in SUBSET T |-> G(S)[s]])
  BY <1>1, <1>4, FoldRestricts
<1>7. G(T) = [s \in SUBSET T |-> G(S)[s]]
  BY <1>4, <1>5, <1>6, FoldUnique, ZenonT(30)
<1>8. G(T)[T] = G(S)[T]
  BY <1>7
<1> QED
  BY <1>2, <1>3, <1>8 DEF Unfold, T

(* The sum over no elements. *)
LEMMA SumEmpty == ASSUME NEW f PROVE SumFunctionOnSet(f, {}) = 0
BY SumUnfold, FS_EmptySet, ZenonT(30)

(* A sum of naturals is one. *)
LEMMA SumIsNat ==
    ASSUME NEW f, NEW S, IsFiniteSet(S), \A x \in S : f[x] \in Nat
    PROVE  SumFunctionOnSet(f, S) \in Nat
<1> DEFINE Bad == {T \in SUBSET S : SumFunctionOnSet(f, T) \notin Nat}
<1>0. Bad \in SUBSET (SUBSET S)
  OBVIOUS
<1>1. ASSUME Bad # {} PROVE FALSE
  <2>1. PICK T \in Bad : \A U \in Bad : U \subseteq T => U = T
    <3> HIDE DEF Bad
    <3> QED
      BY <1>0, <1>1, SmallestSet
  <2>2. IsFiniteSet(T) /\ T \subseteq S
    BY FS_Subset
  <2>3. T # {}
    BY SumEmpty
  <2>4. First(T) \in T
    BY <2>3, FirstIn
  <2>5. SumFunctionOnSet(f, T \ {First(T)}) \in Nat
    BY <2>1, <2>4
  <2>6. SumFunctionOnSet(f, T) = f[First(T)] + SumFunctionOnSet(f, T \ {First(T)})
    BY <2>2, <2>3, SumUnfold
  <2> QED
    BY <2>2, <2>4, <2>5, <2>6
<1> QED
  BY <1>1

(* The sum grows by the value of a new element, whichever element the fold *)
(* takes out first.                                                        *)
LEMMA SumAdd ==
    ASSUME NEW f, NEW S, IsFiniteSet(S), NEW x, x \notin S,
           \A y \in S \cup {x} : f[y] \in Nat
    PROVE  SumFunctionOnSet(f, S \cup {x}) = SumFunctionOnSet(f, S) + f[x]
<1> DEFINE Sum(T) == SumFunctionOnSet(f, T)
           Bad == {T \in SUBSET S : \E z \in (S \cup {x}) \ T : Sum(T \cup {z}) # Sum(T) + f[z]}
<1>0. Bad \in SUBSET (SUBSET S)
  OBVIOUS
<1>1. ASSUME Bad # {} PROVE FALSE
  <2>1. PICK T \in Bad : \A U \in Bad : U \subseteq T => U = T
    <3> HIDE DEF Bad
    <3> QED
      BY <1>0, <1>1, SmallestSet
  <2>2. PICK z \in (S \cup {x}) \ T : Sum(T \cup {z}) # Sum(T) + f[z]
    BY <2>1
  <2> DEFINE c == First(T \cup {z})
             V == T \ {c}
  <2>3. /\ T \in SUBSET S /\ IsFiniteSet(T) /\ IsFiniteSet(T \cup {z})
        /\ IsFiniteSet(V)
    BY FS_Subset, FS_AddElement, FS_RemoveElement
  <2>4. c \in T \cup {z}
    BY FirstIn
  <2>5. Sum(T \cup {z}) = f[c] + Sum((T \cup {z}) \ {c})
    BY <2>3, SumUnfold
  <2>6. /\ \A y \in S \cup {x} : f[y] \in Nat
        /\ \A U \in SUBSET S : Sum(U) \in Nat
    <3>1. ASSUME NEW U \in SUBSET S PROVE Sum(U) \in Nat
      BY FS_Subset, SumIsNat
    <3> QED
      BY <3>1
  <2>7. CASE c = z
    <3>1. (T \cup {z}) \ {c} = T
      BY <2>2, <2>7
    <3> QED
      BY <2>2, <2>3, <2>5, <2>6, <2>7, <3>1
  <2>8. CASE c # z
    <3>1. c \in T /\ (T \cup {z}) \ {c} = V \cup {z} /\ T = V \cup {c}
      BY <2>4, <2>8
    <3>2. V \notin Bad /\ V \in SUBSET S
      BY <2>1, <2>3, <3>1, ZenonT(30)
    <3>3. Sum(V \cup {z}) = Sum(V) + f[z] /\ Sum(V \cup {c}) = Sum(V) + f[c]
      <4>1. z \in (S \cup {x}) \ V /\ c \in (S \cup {x}) \ V
        BY <2>2, <2>3, <3>1
      <4> HIDE DEF c, V, Sum
      <4> QED
        BY <3>2, <4>1, ZenonT(30)
    <3>4. Sum(V) \in Nat /\ f[z] \in Nat /\ f[c] \in Nat
      BY <2>2, <2>3, <2>6, <3>1, <3>2
    <3>5. Sum(T \cup {z}) = f[c] + Sum(V) + f[z] /\ Sum(T) = Sum(V) + f[c]
      <4> HIDE DEF c, V, Sum
      <4> QED
        BY <2>5, <3>1, <3>3, <3>4
    <3> HIDE DEF c, V, Sum
    <3> QED
      BY <2>2, <3>4, <3>5
  <2> QED
    BY <2>7, <2>8
<1>2. S \notin Bad
  BY <1>1
<1> QED
  BY <1>2, ZenonT(30)
(* A sum depends on the values in its set only. *)
LEMMA SumSame ==
    ASSUME NEW f, NEW g, NEW S, IsFiniteSet(S),
           \A x \in S : f[x] \in Nat /\ g[x] = f[x]
    PROVE  SumFunctionOnSet(g, S) = SumFunctionOnSet(f, S)
<1> DEFINE Bad == {T \in SUBSET S : SumFunctionOnSet(g, T) # SumFunctionOnSet(f, T)}
<1>0. Bad \in SUBSET (SUBSET S)
  OBVIOUS
<1>1. ASSUME Bad # {} PROVE FALSE
  <2>1. PICK T \in Bad : \A U \in Bad : U \subseteq T => U = T
    <3> HIDE DEF Bad
    <3> QED
      BY <1>0, <1>1, SmallestSet
  <2>2. IsFiniteSet(T) /\ T \subseteq S
    BY FS_Subset
  <2>3. T # {}
    BY SumEmpty
  <2>4. First(T) \in T
    BY <2>3, FirstIn
  <2>5. SumFunctionOnSet(g, T \ {First(T)}) = SumFunctionOnSet(f, T \ {First(T)})
    BY <2>1, <2>4
  <2>6. /\ SumFunctionOnSet(f, T) = f[First(T)] + SumFunctionOnSet(f, T \ {First(T)})
        /\ SumFunctionOnSet(g, T) = g[First(T)] + SumFunctionOnSet(g, T \ {First(T)})
    BY <2>2, <2>3, SumUnfold
  <2> QED
    BY <2>2, <2>4, <2>5, <2>6
<1> QED
  BY <1>1

(* The sum over two disjoint sets. *)
LEMMA SumSplit ==
    ASSUME NEW f, NEW A, IsFiniteSet(A), NEW B, IsFiniteSet(B), A \cap B = {},
           \A x \in A \cup B : f[x] \in Nat
    PROVE  SumFunctionOnSet(f, A \cup B) = SumFunctionOnSet(f, A) + SumFunctionOnSet(f, B)
<1> DEFINE Sum(T) == SumFunctionOnSet(f, T)
           Bad == {T \in SUBSET A : Sum(T \cup B) # Sum(T) + Sum(B)}
<1>0. Bad \in SUBSET (SUBSET A)
  OBVIOUS
<1>1. ASSUME Bad # {} PROVE FALSE
  <2>1. PICK T \in Bad : \A U \in Bad : U \subseteq T => U = T
    <3> HIDE DEF Bad
    <3> QED
      BY <1>0, <1>1, SmallestSet
  <2>2. T \in SUBSET A /\ Sum(T \cup B) # Sum(T) + Sum(B)
    BY <2>1
  <2>3. Sum(B) \in Nat
    BY SumIsNat
  <2>4. T # {}
    <3>1. Sum({}) = 0 /\ {} \cup B = B
      BY SumEmpty
    <3> HIDE DEF Sum
    <3> QED
      BY <2>2, <2>3, <3>1
  <2>5. PICK c : c \in T
    BY <2>4
  <2> DEFINE V == T \ {c}
  <2>6. /\ V \in SUBSET A /\ c \notin V /\ c \notin V \cup B
        /\ T = V \cup {c} /\ T \cup B = (V \cup B) \cup {c}
    BY <2>2, <2>5
  <2>7. IsFiniteSet(V) /\ IsFiniteSet(V \cup B)
    BY <2>6, FS_Subset, FS_Union, ZenonT(30)
  <2>8. Sum(V \cup B) = Sum(V) + Sum(B)
    <3>1. V \notin Bad
      BY <2>1, <2>5
    <3> HIDE DEF V, Sum
    <3> QED
      BY <2>6, <3>1
  <2>9. f[c] \in Nat /\ Sum(V) \in Nat
    <3>1. \A x \in V : f[x] \in Nat
      BY <2>6
    <3> QED
      BY <2>2, <2>5, <2>7, <3>1, SumIsNat
  <2> HIDE DEF V
  <2>10. Sum(T) = Sum(V) + f[c]
    BY <2>2, <2>6, <2>7, SumAdd
  <2>11. Sum(T \cup B) = Sum(V \cup B) + f[c]
    BY <2>2, <2>6, <2>7, SumAdd, ZenonT(30)
  <2> HIDE DEF Sum
  <2> QED
    BY <2>2, <2>3, <2>8, <2>9, <2>10, <2>11
<1>2. A \notin Bad
  BY <1>1
<1> QED
  BY <1>2

(* A part sums to no more than the whole. *)
LEMMA SumBound ==
    ASSUME NEW f, NEW S, IsFiniteSet(S), NEW A \in SUBSET S,
           \A x \in S : f[x] \in Nat
    PROVE  SumFunctionOnSet(f, A) <= SumFunctionOnSet(f, S)
<1> DEFINE B == S \ A
<1>1. IsFiniteSet(A) /\ IsFiniteSet(B) /\ A \cap B = {} /\ A \cup B = S
  BY FS_Subset
<1>2. SumFunctionOnSet(f, S) = SumFunctionOnSet(f, A) + SumFunctionOnSet(f, B)
  <2>1. SumFunctionOnSet(f, A \cup B) = SumFunctionOnSet(f, A) + SumFunctionOnSet(f, B)
    BY <1>1, SumSplit
  <2> QED
    BY <1>1, <2>1
<1>3. SumFunctionOnSet(f, A) \in Nat /\ SumFunctionOnSet(f, B) \in Nat
  BY <1>1, SumIsNat
<1> QED
  BY <1>2, <1>3

(* A sum over positions that hold different elements is the sum over the   *)
(* elements.                                                               *)
LEMMA SumReindex ==
    ASSUME NEW f, NEW g, NEW p, NEW I, IsFiniteSet(I),
           \A i, j \in I : p[i] = p[j] => i = j,
           \A i \in I : f[p[i]] \in Nat /\ g[i] = f[p[i]]
    PROVE  /\ SumFunctionOnSet(g, I) = SumFunctionOnSet(f, {p[i] : i \in I})
           /\ IsFiniteSet({p[i] : i \in I})
<1> DEFINE Im(J) == {p[i] : i \in J}
           Good(J) == /\ SumFunctionOnSet(g, J) = SumFunctionOnSet(f, Im(J))
                      /\ IsFiniteSet(Im(J))
           Bad == {J \in SUBSET I : ~Good(J)}
<1>0. Bad \in SUBSET (SUBSET I)
  OBVIOUS
<1>1. ASSUME Bad # {} PROVE FALSE
  <2>1. PICK J \in Bad : \A K \in Bad : K \subseteq J => K = J
    <3> HIDE DEF Bad
    <3> QED
      BY <1>0, <1>1, SmallestSet
  <2>2. J \in SUBSET I /\ ~Good(J)
    BY <2>1
  <2>3. J # {}
    <3>1. Im({}) = {}
      OBVIOUS
    <3>2. Good({})
      BY <3>1, SumEmpty, FS_EmptySet
    <3> HIDE DEF Good
    <3> QED
      BY <2>2, <3>2
  <2>4. PICK c : c \in J
    BY <2>3
  <2> DEFINE K == J \ {c}
  <2>5. K \in SUBSET I /\ c \notin K /\ c \in I /\ J = K \cup {c} /\ IsFiniteSet(K)
    BY <2>2, <2>4, FS_Subset
  <2>6. Good(K)
    <3>1. K \notin Bad
      BY <2>1, <2>4
    <3> HIDE DEF K, Good
    <3> QED
      BY <2>5, <3>1
  <2> HIDE DEF K
  <2>7. Im(J) = Im(K) \cup {p[c]} /\ p[c] \notin Im(K)
    BY <2>5
  <2>8. SumFunctionOnSet(g, J) = SumFunctionOnSet(g, K) + g[c]
    BY <2>5, SumAdd
  <2>9. SumFunctionOnSet(f, Im(K) \cup {p[c]}) = SumFunctionOnSet(f, Im(K)) + f[p[c]]
    <3>1. \A y \in Im(K) \cup {p[c]} : f[y] \in Nat
      BY <2>5
    <3>2. IsFiniteSet(Im(K))
      BY <2>6
    <3> HIDE DEF Im
    <3> QED
      BY <2>7, <3>1, <3>2, SumAdd
  <2>10. IsFiniteSet(Im(K) \cup {p[c]})
    <3>1. IsFiniteSet(Im(K))
      BY <2>6
    <3> HIDE DEF Im
    <3> QED
      BY <3>1, FS_AddElement, ZenonT(30)
  <2>11. Good(J)
    <3> HIDE DEF Im
    <3> QED
      BY <2>5, <2>6, <2>7, <2>8, <2>9, <2>10
  <2> QED
    BY <2>2, <2>11
<1>2. I \notin Bad
  BY <1>1, ZenonT(30)
<1> QED
  BY <1>2

(* The sum over a list counts an element once per position, and elements   *)
(* without a value for nothing.                                            *)
ListSum(w, s) ==
    SumFunction([i \in DOMAIN s |-> IF s[i] \in DOMAIN w THEN w[s[i]] ELSE 0])

(* Without repetitions it is the sum over the elements. *)
LEMMA ListSumIsSum ==
    ASSUME NEW w, \A x \in DOMAIN w : w[x] \in Nat, NEW s \in Seq(DOMAIN w),
           \A i, j \in DOMAIN s : s[i] = s[j] => i = j
    PROVE  /\ ListSum(w, s) = SumFunctionOnSet(w, {s[i] : i \in DOMAIN s})
           /\ IsFiniteSet({s[i] : i \in DOMAIN s})
           /\ ListSum(w, s) \in Nat
<1> DEFINE I == DOMAIN s
           g == [i \in I |-> IF s[i] \in DOMAIN w THEN w[s[i]] ELSE 0]
<1>1. I = 1..Len(s) /\ Len(s) \in Nat /\ \A i \in I : s[i] \in DOMAIN w
  OBVIOUS
<1>2. IsFiniteSet(I)
  BY <1>1, FS_Interval
<1>3. \A i \in I : w[s[i]] \in Nat /\ g[i] = w[s[i]]
  BY <1>1
<1>4. ListSum(w, s) = SumFunctionOnSet(g, I)
  BY DEF ListSum, SumFunction
<1> HIDE DEF g, I
<1>5. /\ SumFunctionOnSet(g, I) = SumFunctionOnSet(w, {s[i] : i \in I})
      /\ IsFiniteSet({s[i] : i \in I})
  <2>1. \A i, j \in I : s[i] = s[j] => i = j
    BY DEF I
  <2> QED
    BY <1>2, <1>3, <2>1, SumReindex
<1>6. SumFunctionOnSet(g, I) \in Nat
  BY <1>2, <1>3, SumIsNat
<1> QED
  BY <1>4, <1>5, <1>6 DEF I
=============================================================================
