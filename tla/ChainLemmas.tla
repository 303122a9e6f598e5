----------------------------- MODULE ChainLemmas -----------------------------
(***************************************************************************)
(* Lemmas about the values the consensus modules are built from: walks     *)
(* over the entries of a block tree (is_descendant_of), the tree value     *)
(* under insert and set_finalized, and the node value under the operations *)
(* of ChainOps. The proofs about BlockTree, ChainNode and ValidatorNet     *)
(* share them.                                                             *)
(*                                                                         *)
(* The walk of the code is the least closed set around its start, so each  *)
(* fact about walks is proved by naming one closed set. Facts about all    *)
(* heights are proved by smallest counterexample (LeastNat).            *)
(*                                                                         *)
(* TreeGood holds of every tree value, NodeGood of every node value, also  *)
(* after a restart. RecordsGood holds of a node that has not been          *)
(* restarted, if every proposer has stake (PositiveStakes): tree, cursor   *)
(* and tracker then agree on the head and on what is final.                *)
(***************************************************************************)
EXTENDS ChainOps, WellFoundedInduction, TLAPS

(* The time the provers are given for a leaf. *)
USE SMTT(30), ZenonT(30)

(* A set of naturals that is not empty has a least element. *)
LEMMA LeastNat ==
    ASSUME NEW T \in SUBSET Nat, T # {}
    PROVE  \E x \in T : \A y \in T : x <= y
<1> DEFINE R == OpToRel(<, Nat)
<1>1. IsWellFoundedOn(R, Nat)
  BY NatLessThanWellFounded, ZenonT(30)
<1>2. \E x \in T : \A y \in T : ~ (<<y, x>> \in R)
  <2> HIDE DEF R
  <2> QED BY <1>1, WFMin, ZenonT(30)
<1>3. PICK x \in T : \A y \in T : ~ (<<y, x>> \in R)
  BY <1>2, ZenonT(30)
<1>4. ASSUME NEW y \in T PROVE x <= y
  <2>1. x \in Nat /\ y \in Nat
    OBVIOUS
  <2>2. y < x => <<y, x>> \in R
    BY <2>1 DEF OpToRel
  <2> HIDE DEF R
  <2> QED
    BY <1>3, <2>1, <2>2
<1> QED
  BY <1>4

(* Heights are ordered as numbers are. *)
LEMMA HeightOrder ==
    /\ \A x \in Nat : x <= x
    /\ \A x, y, z \in Nat : x <= y /\ y <= z => x <= z
    /\ \A x, y, z \in Nat : x > y /\ z <= y => x > z
    /\ \A x, y \in Nat : x > y => y <= x
    /\ \A x, y, z \in Nat : x - y <= x - z => y >= z
    /\ \A x \in Nat : x + 1 # 0
    /\ \A x, y \in Nat : y > 0 => x + y > x /\ ~(x + y <= x)
  OBVIOUS

(* The walk from d meets a, without the bound to the line of headers that  *)
(* is_descendant_of puts on the sets it looks at.                          *)
Meets(E, d, a) ==
    /\ d \in E
    /\ \A S \in SUBSET E : (d \in S /\ WalkClosed(E, S)) => a \in S

(* The bound makes no difference: the line of headers is closed, so that a *)
(* closed set can be cut down to it.                                       *)
LEMMA WalkOnLine ==
    ASSUME NEW E \in SUBSET Blocks, NEW d, NEW a
    PROVE  is_descendant_of(E, d, a) <=> Meets(E, d, a)
<1> SUFFICES ASSUME d \in E, is_descendant_of(E, d, a) PROVE Meets(E, d, a)
  BY DEF is_descendant_of, Meets
<1> DEFINE L == HeaderLine[d]
<1>1. d \in Blocks /\ L = {x \in Blocks : \A S \in SUBSET Blocks :
                            (d \in S /\ WalkClosed(Blocks, S)) => x \in S}
  BY DEF HeaderLine
<1>2. d \in L
  BY <1>1
<1>3. ASSUME NEW x \in L, HeightOf[x] # 0 PROVE PrevHash[x] \in L
  <2>1. x \in Blocks /\ PrevHash[x] \in Blocks
    BY <1>1, BlocksAssumption
  <2>2. ASSUME NEW S \in SUBSET Blocks, d \in S, WalkClosed(Blocks, S)
        PROVE  PrevHash[x] \in S
    BY <1>1, <1>3, <2>1, <2>2 DEF WalkClosed
  <2> QED
    BY <1>1, <2>1, <2>2
<1> HIDE DEF L
<1>4. ASSUME NEW S \in SUBSET E, d \in S, WalkClosed(E, S)
      PROVE  a \in S
  <2>1. S \cap L \in SUBSET (E \cap L) /\ d \in S \cap L
    BY <1>2, <1>4
  <2>2. WalkClosed(E, S \cap L)
    BY <1>3, <1>4 DEF WalkClosed
  <2>3. a \in S \cap L
    BY <2>1, <2>2 DEF is_descendant_of, L
  <2> QED
    BY <2>3
<1> QED
  BY <1>4 DEF Meets

(* A walk meets its start. *)
LEMMA WalkReflexive ==
    ASSUME NEW E \in SUBSET Blocks, NEW x \in E
    PROVE  is_descendant_of(E, x, x)
BY WalkOnLine DEF Meets

(* A walk meets only entries. *)
LEMMA WalkInEntries ==
    ASSUME NEW E \in SUBSET Blocks, NEW d, NEW a, is_descendant_of(E, d, a)
    PROVE  d \in E /\ a \in E
<1>1. WalkClosed(E, E)
  BY DEF WalkClosed
<1> QED
  BY <1>1, WalkOnLine DEF Meets

(* A walk goes on to the parent of what it meets, if that has an entry. *)
LEMMA WalkToParent ==
    ASSUME NEW E \in SUBSET Blocks, NEW d, NEW x, is_descendant_of(E, d, x),
           HeightOf[x] # 0, PrevHash[x] \in E
    PROVE  is_descendant_of(E, d, PrevHash[x])
BY WalkOnLine DEF Meets, WalkClosed

(* The walk from something a walk meets is part of that walk. *)
LEMMA WalkTransitive ==
    ASSUME NEW E \in SUBSET Blocks, NEW d, NEW x, NEW a,
           is_descendant_of(E, d, x), is_descendant_of(E, x, a)
    PROVE  is_descendant_of(E, d, a)
BY WalkOnLine DEF Meets

(* A walk that meets something other than its start goes through the       *)
(* parent of its start.                                                    *)
LEMMA WalkUnfold ==
    ASSUME NEW E \in SUBSET Blocks, NEW d, NEW a, is_descendant_of(E, d, a), d # a
    PROVE  /\ HeightOf[d] # 0
           /\ PrevHash[d] \in E
           /\ is_descendant_of(E, PrevHash[d], a)
<1> DEFINE p == PrevHash[d]
           S == {d} \cup {x \in E : is_descendant_of(E, p, x)}
<1>1. d \in E
  BY WalkInEntries
<1>2. HeightOf[d] # 0 /\ p \in E
  <2> SUFFICES ASSUME ~(HeightOf[d] # 0 /\ p \in E) PROVE FALSE
    OBVIOUS
  <2>1. WalkClosed(E, {d})
    BY DEF WalkClosed
  <2> QED
    BY <1>1, <2>1, WalkOnLine DEF Meets
<1>3. WalkClosed(E, S)
  <2> SUFFICES ASSUME NEW x \in S, HeightOf[x] # 0, PrevHash[x] \in E
               PROVE  PrevHash[x] \in S
    BY DEF WalkClosed
  <2>1. CASE x = d
    BY <1>2, <2>1, WalkReflexive
  <2>2. CASE is_descendant_of(E, p, x)
    BY <2>2, WalkToParent
  <2> QED
    BY <2>1, <2>2
<1>4. a \in S
  <2>1. S \in SUBSET E /\ d \in S
    BY <1>1
  <2>2. Meets(E, d, a)
    BY WalkOnLine
  <2> QED
    BY <1>3, <2>1, <2>2 DEF Meets
<1> QED
  BY <1>2, <1>4

(* Adding entries lengthens no walk's start and loses nothing it met. *)
LEMMA WalkGrows ==
    ASSUME NEW E \in SUBSET Blocks, NEW F \in SUBSET Blocks, E \subseteq F, NEW d, NEW a,
           is_descendant_of(E, d, a)
    PROVE  is_descendant_of(F, d, a)
<1>1. d \in F
  BY WalkOnLine DEF Meets
<1>2. ASSUME NEW S \in SUBSET F, d \in S, WalkClosed(F, S)
      PROVE  a \in S
  <2>1. WalkClosed(E, S \cap E)
    BY <1>2 DEF WalkClosed
  <2>2. d \in S \cap E
    BY <1>2, WalkOnLine DEF Meets
  <2> QED
    BY <2>1, <2>2, WalkOnLine DEF Meets
<1> QED
  BY <1>1, <1>2, WalkOnLine DEF Meets

(* Two blocks that one walk meets are an ancestor and a descendant. *)
LEMMA WalkIsAChain ==
    ASSUME NEW E \in SUBSET Blocks, NEW t, NEW f, NEW a,
           is_descendant_of(E, t, f), is_descendant_of(E, t, a)
    PROVE  is_descendant_of(E, a, f) \/ is_descendant_of(E, f, a)
<1> DEFINE S == {x \in E : is_descendant_of(E, x, f) \/ is_descendant_of(E, f, x)}
<1>1. f \in E
  BY WalkInEntries
<1>2. WalkClosed(E, S)
  <2> SUFFICES ASSUME NEW x \in S, HeightOf[x] # 0, PrevHash[x] \in E
               PROVE  PrevHash[x] \in S
    BY DEF WalkClosed
  <2>1. CASE is_descendant_of(E, f, x)
    BY <2>1, WalkToParent
  <2>2. CASE is_descendant_of(E, x, f) /\ x # f
    BY <2>2, WalkUnfold
  <2>3. CASE x = f
    BY <1>1, <2>3, WalkReflexive, WalkToParent
  <2> QED
    BY <2>1, <2>2, <2>3
<1>3. t \in S
  BY WalkInEntries
<1> HIDE DEF S
<1>4. a \in S
  <2>1. S \in SUBSET E
    BY DEF S
  <2> QED
    BY <1>2, <1>3, <2>1, WalkOnLine DEF Meets
<1> QED
  BY <1>4 DEF S

-----------------------------------------------------------------------------
(* What the checks of insert establish for every entry but genesis. *)
Linked(E) ==
    \A x \in E \ {Genesis} :
        PrevHash[x] \in E /\ HeightOf[x] = HeightOf[PrevHash[x]] + 1

(* On linked entries a walk strictly descends. *)
LEMMA WalkDescends ==
    ASSUME NEW E \in SUBSET Blocks, Linked(E), NEW d, NEW a,
           is_descendant_of(E, d, a), d # a
    PROVE  HeightOf[a] < HeightOf[d]
<1> DEFINE S == {d} \cup {x \in E : HeightOf[x] < HeightOf[d]}
<1>1. d \in E /\ S \in SUBSET E
  BY WalkInEntries
<1>2. WalkClosed(E, S)
  <2> SUFFICES ASSUME NEW x \in S, HeightOf[x] # 0, PrevHash[x] \in E
               PROVE  HeightOf[PrevHash[x]] < HeightOf[d]
    BY DEF WalkClosed
  <2>1. x \in E /\ x # Genesis
    BY <1>1, BlocksAssumption
  <2>2. HeightOf[x] = HeightOf[PrevHash[x]] + 1
    BY <2>1 DEF Linked
  <2>3. /\ HeightOf[x] \in Nat /\ HeightOf[d] \in Nat
        /\ HeightOf[PrevHash[x]] \in Nat
    BY <1>1, <2>1, BlocksAssumption
  <2>4. HeightOf[x] <= HeightOf[d]
    BY <2>3
  <2> QED
    BY <2>2, <2>3, <2>4
<1>3. a \in S
  BY <1>1, <1>2, WalkOnLine DEF Meets
<1> QED
  BY <1>3

(* The prune keeps the parent of everything it keeps. *)
LEMMA KeptIsClosed ==
    ASSUME NEW E \in SUBSET Blocks, NEW f \in E
    PROVE  WalkClosed(E, Kept(E, f))
<1> SUFFICES ASSUME NEW x \in Kept(E, f), HeightOf[x] # 0, PrevHash[x] \in E
             PROVE  PrevHash[x] \in Kept(E, f)
  BY DEF WalkClosed
<1>1. CASE is_descendant_of(E, f, x)
  BY <1>1, WalkToParent DEF Kept
<1>2. CASE is_descendant_of(E, x, f) /\ x # f
  BY <1>2, WalkUnfold DEF Kept
<1>3. CASE x = f
  BY <1>3, WalkReflexive, WalkToParent DEF Kept
<1> QED
  BY <1>1, <1>2, <1>3 DEF Kept

(* The prune shortens no walk from a block it keeps. *)
LEMMA WalkSurvivesPrune ==
    ASSUME NEW E \in SUBSET Blocks, NEW f \in E, NEW d \in Kept(E, f), NEW a,
           is_descendant_of(E, d, a)
    PROVE  is_descendant_of(Kept(E, f), d, a)
<1> DEFINE K == Kept(E, f)
<1>1. K \subseteq E /\ K \in SUBSET Blocks /\ d \in K
  BY DEF Kept
<1>2. ASSUME NEW S \in SUBSET K, d \in S, WalkClosed(K, S)
      PROVE  a \in S
  <2>1. WalkClosed(E, S)
    BY <1>2, KeptIsClosed DEF WalkClosed
  <2> QED
    BY <1>1, <1>2, <2>1, WalkOnLine DEF Meets
<1>3. Meets(K, d, a)
  BY <1>1, <1>2 DEF Meets
<1> QED
  BY <1>1, <1>3, WalkOnLine

-----------------------------------------------------------------------------
(* The invariant of a tree value: it is well formed, its entries are       *)
(* linked, no entry is heavier than the tip, every entry reaches genesis,  *)
(* and every entry is comparable with the finalized block, which is on the *)
(* canonical chain.                                                        *)
TreeTyped(t) ==
    /\ Entries(t) \in SUBSET Blocks
    /\ t.weight \in [Entries(t) -> Nat]
    /\ {Genesis, t.canonical_tip, t.finalized_hash} \subseteq Entries(t)
    /\ t.finalized_height = HeightOf[t.finalized_hash]

TreeGood(t) ==
    /\ TreeTyped(t)
    /\ Linked(Entries(t))
    /\ \A b \in Entries(t) : t.weight[b] <= t.weight[t.canonical_tip]
    /\ \A b \in Entries(t) : is_descendant_of(Entries(t), b, Genesis)
    /\ is_on_canonical_chain(t, t.finalized_hash)
    /\ \A b \in Entries(t) : \/ is_descendant_of(Entries(t), b, t.finalized_hash)
                             \/ is_descendant_of(Entries(t), t.finalized_hash, b)

(* A new tree holds genesis alone (from_genesis). *)
LEMMA GenesisGood == TreeGood(from_genesis)
<1> DEFINE t == from_genesis
<1>1. /\ t.weight = [b \in {Genesis} |-> 0]
      /\ t.canonical_tip = Genesis
      /\ t.finalized_hash = Genesis
      /\ t.finalized_height = 0
  BY DEF from_genesis
<1>2. Entries(t) = {Genesis}
  BY <1>1 DEF Entries
<1>3. is_descendant_of(Entries(t), Genesis, Genesis)
  BY <1>2, BlocksAssumption, WalkReflexive
<1> HIDE DEF t
<1>4. TreeTyped(t)
  BY <1>1, <1>2, BlocksAssumption DEF TreeTyped
<1>5. Linked(Entries(t))
  BY <1>2 DEF Linked
<1> QED
  BY <1>1, <1>2, <1>3, <1>4, <1>5 DEF TreeGood, is_on_canonical_chain, t

(* What a successful insert changes, and what its checks established. *)
Inserted(t, b, s, u) ==
    /\ b \notin Entries(t)
    /\ Entries(u) = Entries(t) \cup {b}
    /\ PrevHash[b] \in Entries(t)
    /\ HeightOf[b] = HeightOf[PrevHash[b]] + 1
    /\ u.weight = AddEntry(t, b, s)
    /\ u.canonical_tip =
          IF t.weight[PrevHash[b]] + s > t.weight[t.canonical_tip]
          THEN b ELSE t.canonical_tip
    /\ u.finalized_hash = t.finalized_hash
    /\ u.finalized_height = t.finalized_height
    /\ is_descendant_of(Entries(t), PrevHash[b], t.finalized_hash)

(* insert does so when it returns the block as inserted. *)
LEMMA InsertFacts ==
    ASSUME NEW t, TreeGood(t), NEW b \in Blocks, NEW s \in Nat,
           InsertResult(t, b) = "inserted", NEW u, u = insert(t, b, s)
    PROVE  Inserted(t, b, s, u)
<1>1. /\ b \notin Entries(t)
      /\ PrevHash[b] \in Entries(t)
      /\ HeightOf[b] = HeightOf[PrevHash[b]] + 1
      /\ \/ ~(t.finalized_height > 0)
         \/ PrevHash[b] = t.finalized_hash
         \/ is_descendant_of(Entries(t), PrevHash[b], t.finalized_hash)
  BY DEF InsertResult
<1>2. TipWeight(t) = t.weight[t.canonical_tip]
  BY DEF TreeGood, TreeTyped, TipWeight
<1>3. u = [ weight           |-> AddEntry(t, b, s),
            canonical_tip    |-> IF t.weight[PrevHash[b]] + s > TipWeight(t)
                                 THEN b ELSE t.canonical_tip,
            finalized_hash   |-> t.finalized_hash,
            finalized_height |-> t.finalized_height ]
  BY DEF insert
<1>4. /\ u.weight = AddEntry(t, b, s)
      /\ u.canonical_tip = IF t.weight[PrevHash[b]] + s > TipWeight(t)
                           THEN b ELSE t.canonical_tip
      /\ u.finalized_hash = t.finalized_hash
      /\ u.finalized_height = t.finalized_height
  BY <1>3
<1>5. Entries(u) = Entries(t) \cup {b}
  BY <1>4 DEF Entries, AddEntry
<1>6. is_descendant_of(Entries(t), PrevHash[b], t.finalized_hash)
  <2>1. CASE PrevHash[b] = t.finalized_hash
    BY <1>1, <2>1, WalkReflexive DEF TreeGood, TreeTyped
  <2>2. CASE ~(t.finalized_height > 0)
    <3>1. HeightOf[t.finalized_hash] = 0
      BY <2>2, BlocksAssumption DEF TreeGood, TreeTyped
    <3>2. t.finalized_hash = Genesis
      <4> DEFINE q == t.finalized_hash
      <4>1. q \in Entries(t) /\ q \in Blocks
        BY DEF TreeGood, TreeTyped
      <4>2. HeightOf[PrevHash[q]] \in Nat
        BY <4>1, BlocksAssumption
      <4>3. q # Genesis => HeightOf[q] = HeightOf[PrevHash[q]] + 1
        BY <4>1 DEF TreeGood, Linked
      <4> QED
        BY <3>1, <4>2, <4>3
    <3> QED
      BY <1>1, <3>2 DEF TreeGood
  <2> QED
    BY <1>1, <2>1, <2>2
<1> QED
  BY <1>1, <1>2, <1>4, <1>5, <1>6 DEF Inserted

(* insert keeps the invariant, whatever it returns. *)
LEMMA InsertGood ==
    ASSUME NEW t, TreeGood(t), NEW b \in Blocks, NEW s \in Nat
    PROVE  TreeGood(insert(t, b, s))
<1> DEFINE u == insert(t, b, s)
<1>1. CASE InsertResult(t, b) # "inserted"
  BY <1>1 DEF insert
<1>2. CASE InsertResult(t, b) = "inserted"
  <2> DEFINE E == Entries(t)
             F == Entries(u)
             p == PrevHash[b]
             f == t.finalized_hash
  <2> HIDE DEF u
  <2>1. /\ b \notin E /\ F = E \cup {b} /\ p \in E
        /\ HeightOf[b] = HeightOf[p] + 1
        /\ u.weight = AddEntry(t, b, s)
        /\ u.canonical_tip = IF t.weight[p] + s > t.weight[t.canonical_tip]
                             THEN b ELSE t.canonical_tip
        /\ u.finalized_hash = f
        /\ u.finalized_height = t.finalized_height
        /\ is_descendant_of(E, p, f)
    BY <1>2, InsertFacts DEF Inserted, u
  <2> HIDE DEF E, F, p, f
  <2>2. \A x \in F : u.weight[x] = IF x = b THEN t.weight[p] + s ELSE t.weight[x]
    BY <2>1 DEF AddEntry, E, p
  <2>3. t.weight \in [E -> Nat] /\ t.canonical_tip \in E /\ E \in SUBSET Blocks
    BY DEF TreeGood, TreeTyped, E
  <2>4. TreeTyped(u)
    <3>1. u.weight \in [F -> Nat]
      BY <2>1, <2>3 DEF AddEntry, E, p
    <3> QED
      BY <2>1, <3>1 DEF TreeGood, TreeTyped, E, F, f
  <2>5. Linked(F)
    BY <2>1 DEF TreeGood, Linked, E, p
  <2>6. \A x \in F : u.weight[x] <= u.weight[u.canonical_tip]
    <3>1. \A x \in E : t.weight[x] <= t.weight[t.canonical_tip]
      BY DEF TreeGood, E
    <3>2. t.weight[p] \in Nat /\ t.weight[t.canonical_tip] \in Nat
      BY <2>1, <2>3
    <3>3. u.canonical_tip \in F
      BY <2>1, <2>3
    <3> SUFFICES ASSUME NEW x \in F PROVE u.weight[x] <= u.weight[u.canonical_tip]
      OBVIOUS
    <3>4. CASE x = b
      BY <2>1, <2>2, <2>3, <3>2, <3>3, <3>4
    <3>5. CASE x # b
      <4>1. x \in E /\ t.weight[x] \in Nat
        BY <2>1, <2>3, <3>5
      <4> QED
        BY <2>1, <2>2, <2>3, <3>1, <3>2, <3>3, <3>5, <4>1
    <3> QED
      BY <3>4, <3>5
  <2>0. F \in SUBSET Blocks
    BY <2>1, <2>3
  <2>7. is_descendant_of(F, b, p)
    <3>1. HeightOf[b] # 0
      BY <2>1, <2>3, BlocksAssumption
    <3>2. is_descendant_of(F, b, b)
      BY <2>0, <2>1, WalkReflexive
    <3> QED
      BY <2>0, <2>1, <3>1, <3>2, WalkToParent DEF p
  <2>8. \A d, a : is_descendant_of(E, d, a) => is_descendant_of(F, d, a)
    BY <2>0, <2>1, <2>3, WalkGrows
  <2>9. is_descendant_of(F, b, f)
    BY <2>0, <2>1, <2>7, <2>8, WalkTransitive
  <2>10. \A x \in F : is_descendant_of(F, x, Genesis)
    <3>1. \A x \in E : is_descendant_of(E, x, Genesis)
      BY DEF TreeGood, E
    <3>2. is_descendant_of(F, b, Genesis)
      BY <2>0, <2>1, <2>7, <2>8, <3>1, WalkTransitive
    <3> QED
      BY <2>1, <2>8, <3>1, <3>2
  <2>11. is_on_canonical_chain(u, u.finalized_hash)
    <3>1. is_descendant_of(E, t.canonical_tip, f)
      BY DEF TreeGood, is_on_canonical_chain, E, f
    <3> QED
      BY <2>1, <2>8, <2>9, <3>1 DEF is_on_canonical_chain, F
  <2>12. \A x \in F : \/ is_descendant_of(F, x, u.finalized_hash)
                      \/ is_descendant_of(F, u.finalized_hash, x)
    <3>1. \A x \in E : is_descendant_of(E, x, f) \/ is_descendant_of(E, f, x)
      BY DEF TreeGood, E, f
    <3> QED
      BY <2>1, <2>8, <2>9, <3>1
  <2> QED
    BY <2>4, <2>5, <2>6, <2>10, <2>11, <2>12 DEF TreeGood, F, u
<1> QED
  BY <1>1, <1>2

(* A block on the canonical chain above the finalized height descends from *)
(* the finalized block.                                                    *)
LEMMA NextFinalizedDescends ==
    ASSUME NEW t, TreeGood(t), NEW b \in Blocks, is_on_canonical_chain(t, b),
           HeightOf[b] > t.finalized_height
    PROVE  is_descendant_of(Entries(t), b, t.finalized_hash)
<1> DEFINE E == Entries(t)
           f == t.finalized_hash
<1>1. is_descendant_of(E, t.canonical_tip, f)
  BY DEF TreeGood, is_on_canonical_chain
<1>2. is_descendant_of(E, t.canonical_tip, b)
  BY DEF is_on_canonical_chain
<1>0. E \in SUBSET Blocks /\ Linked(E) /\ f \in Blocks
  BY DEF TreeGood, TreeTyped
<1>3. is_descendant_of(E, b, f) \/ is_descendant_of(E, f, b)
  BY <1>0, <1>1, <1>2, WalkIsAChain
<1>4. HeightOf[f] \in Nat /\ HeightOf[b] \in Nat /\ HeightOf[b] > HeightOf[f]
  BY <1>0, BlocksAssumption DEF TreeGood, TreeTyped
<1>5. ~is_descendant_of(E, f, b)
  <2> SUFFICES ASSUME is_descendant_of(E, f, b) PROVE FALSE
    OBVIOUS
  <2>1. f # b
    BY <1>4
  <2>2. HeightOf[b] < HeightOf[f]
    BY <1>0, <2>1, WalkDescends
  <2> QED
    BY <1>4, <2>2
<1> QED
  BY <1>3, <1>5

(* What set_finalized changes. *)
LEMMA FinalizeFacts ==
    ASSUME NEW t, TreeGood(t), NEW b \in Blocks, is_on_canonical_chain(t, b),
           HeightOf[b] > t.finalized_height, NEW u, u = set_finalized(t, b, HeightOf[b])
    PROVE  /\ b \in Entries(t)
           /\ Entries(u) = Kept(Entries(t), b)
           /\ u.weight \in [Entries(u) -> Nat]
           /\ \A x \in Entries(u) : u.weight[x] = t.weight[x]
           /\ u.canonical_tip = t.canonical_tip
           /\ u.finalized_hash = b
           /\ u.finalized_height = HeightOf[b]
<1>1. HeightOf[b] # 0
  BY BlocksAssumption DEF TreeGood, TreeTyped
<1>2. /\ u.weight = [x \in Kept(Entries(t), b) |-> t.weight[x]]
      /\ u.canonical_tip = t.canonical_tip
      /\ u.finalized_hash = b
      /\ u.finalized_height = HeightOf[b]
  BY <1>1 DEF set_finalized
<1>3. Entries(u) = Kept(Entries(t), b)
  BY <1>2 DEF Entries
<1>4. b \in Entries(t)
  <2>1. Entries(t) \in SUBSET Blocks
    BY DEF TreeGood, TreeTyped
  <2> QED
    BY <2>1, WalkInEntries DEF is_on_canonical_chain
<1>5. /\ u.weight \in [Entries(u) -> Nat]
      /\ \A x \in Entries(u) : u.weight[x] = t.weight[x]
  <2>1. t.weight \in [Entries(t) -> Nat] /\ Kept(Entries(t), b) \subseteq Entries(t)
    BY DEF TreeGood, TreeTyped, Kept
  <2> QED
    BY <1>2, <1>3, <2>1
<1> QED
  BY <1>2, <1>3, <1>4, <1>5

(* set_finalized, with its prune, keeps the invariant. *)
LEMMA FinalizeGood ==
    ASSUME NEW t, TreeGood(t), NEW b \in Blocks, is_on_canonical_chain(t, b),
           HeightOf[b] > t.finalized_height
    PROVE  TreeGood(set_finalized(t, b, HeightOf[b]))
<1> DEFINE E == Entries(t)
           K == Kept(Entries(t), b)
           tip == t.canonical_tip
           u == set_finalized(t, b, HeightOf[b])
<1> HIDE DEF u
<1>1. /\ b \in E /\ Entries(u) = K
      /\ u.weight \in [K -> Nat] /\ \A x \in K : u.weight[x] = t.weight[x]
      /\ u.canonical_tip = tip
      /\ u.finalized_hash = b
      /\ u.finalized_height = HeightOf[b]
  BY FinalizeFacts DEF u
<1>2. is_descendant_of(E, tip, b)
  BY DEF is_on_canonical_chain
<1>3. is_descendant_of(E, b, Genesis)
  BY <1>1 DEF TreeGood
<1>0. E \in SUBSET Blocks
  BY DEF TreeGood, TreeTyped
<1>4. K \subseteq E /\ b \in K /\ tip \in K /\ Genesis \in K
  BY <1>0, <1>1, <1>2, <1>3, WalkInEntries DEF Kept
<1>5. ASSUME NEW d \in K, NEW a, is_descendant_of(E, d, a)
      PROVE  is_descendant_of(K, d, a)
  BY <1>0, <1>1, <1>5, WalkSurvivesPrune
<1> HIDE DEF K, E, tip
<1>6. TreeTyped(u)
  <2>1. E \subseteq Blocks
    BY DEF TreeGood, TreeTyped, E
  <2> QED
    BY <1>1, <1>4, <2>1 DEF TreeTyped
<1>7. Linked(K)
  <2> SUFFICES ASSUME NEW x \in K \ {Genesis}
               PROVE  PrevHash[x] \in K /\ HeightOf[x] = HeightOf[PrevHash[x]] + 1
    BY DEF Linked
  <2>1. /\ x \in E /\ x \in Blocks /\ PrevHash[x] \in E
        /\ HeightOf[x] = HeightOf[PrevHash[x]] + 1
    BY <1>4 DEF TreeGood, TreeTyped, Linked, E
  <2>2. HeightOf[x] # 0
    <3>1. HeightOf[PrevHash[x]] \in Nat
      BY <2>1, BlocksAssumption
    <3> QED
      BY <2>1, <3>1
  <2>3. WalkClosed(E, K)
    BY <1>0, <1>1, KeptIsClosed DEF K, E
  <2> QED
    BY <2>1, <2>2, <2>3 DEF WalkClosed
<1>8. \A x \in K : u.weight[x] <= u.weight[tip]
  <2>1. \A x \in E : t.weight[x] <= t.weight[tip]
    BY DEF TreeGood, E, tip
  <2> QED
    BY <1>1, <1>4, <2>1
<1>9. \A x \in K : is_descendant_of(K, x, Genesis)
  <2>1. \A x \in K : is_descendant_of(E, x, Genesis)
    BY <1>4 DEF TreeGood, E
  <2> QED
    BY <1>1, <1>5, <2>1
<1>10. is_descendant_of(K, tip, b)
  BY <1>1, <1>2, <1>4, <1>5
<1>11. \A x \in K : is_descendant_of(K, x, b) \/ is_descendant_of(K, b, x)
  <2>1. \A x \in K : is_descendant_of(E, x, b) \/ is_descendant_of(E, b, x)
    BY <1>0, <1>1, WalkReflexive DEF Kept, K, E
  <2> QED
    BY <1>1, <1>4, <1>5, <2>1
<1> QED
  BY <1>1, <1>6, <1>7, <1>8, <1>9, <1>10, <1>11 DEF TreeGood, is_on_canonical_chain, u

-----------------------------------------------------------------------------
(* Whole epochs. *)
LEMMA EpochStart ==
    ASSUME NEW h \in Nat
    PROVE  /\ EpochOf(h) \in Nat
           /\ EpochLength * EpochOf(h) \in Nat
           /\ EpochLength * EpochOf(h) <= h
           /\ EpochOf(EpochLength * EpochOf(h)) = EpochOf(h)
           /\ EpochOf(h) > 0 => IsBoundary(EpochLength * EpochOf(h))
           /\ h > 0 /\ ~IsBoundary(h) => EpochOf(h) = EpochOf(h - 1)
<1> DEFINE L == EpochLength
           q == h \div L
           r == h % L
<1>0. L \in Nat /\ L > 0
  BY EpochAssumption
<1>1. q \in Nat /\ r \in Nat /\ r < L /\ h = L * q + r
  BY <1>0
<1>2. (L * q) \div L = q /\ (L * q) % L = 0
  BY <1>0, <1>1
<1>3. L * q \in Nat /\ L * q <= h /\ (q > 0 => L * q > 0)
  BY <1>0, <1>1
<1>4. ASSUME h > 0, h % L # 0 PROVE (h - 1) \div L = q
  BY <1>0, <1>1, <1>4
<1> QED
  BY <1>1, <1>2, <1>3, <1>4 DEF EpochOf, IsBoundary

(* A walk meets one block of each height from its start down to genesis. *)
LEMMA LineHas ==
    ASSUME NEW t, TreeGood(t), NEW d \in Entries(t), NEW k \in 0..HeightOf[d]
    PROVE  \E a \in Lineage(Entries(t), d) : HeightOf[a] = k
<1> DEFINE E == Entries(t)
           H == HeightOf[d]
           Bad == {j \in 0..H : \A a \in Lineage(E, d) : HeightOf[a] # H - j}
<1>1. E \in SUBSET Blocks /\ Linked(E) /\ d \in E /\ H \in Nat
  BY BlocksAssumption DEF TreeGood, TreeTyped
<1>2. Bad \in SUBSET Nat
  BY <1>1
<1>3. ASSUME Bad # {} PROVE FALSE
  <2>1. PICK j \in Bad : \A i \in Bad : j <= i
    <3> HIDE DEF Bad
    <3> QED
      BY <1>2, <1>3, LeastNat
  <2>2. j \in 0..H /\ \A a \in Lineage(E, d) : HeightOf[a] # H - j
    OBVIOUS
  <2>3. d \in Lineage(E, d)
    BY <1>1, WalkReflexive DEF Lineage
  <2>4. j # 0
    BY <1>1, <2>2, <2>3
  <2>5. j - 1 \in 0..H /\ j - 1 \notin Bad
    <3> HIDE DEF Bad
    <3> QED
      BY <1>1, <2>1, <2>2, <2>4
  <2>6. PICK a \in Lineage(E, d) : HeightOf[a] = H - (j - 1)
    BY <2>5
  <2>7. a \in E /\ is_descendant_of(E, d, a) /\ HeightOf[a] # 0 /\ a # Genesis
    BY <1>1, <2>2, <2>4, <2>6, BlocksAssumption DEF Lineage
  <2>8. PrevHash[a] \in E /\ HeightOf[a] = HeightOf[PrevHash[a]] + 1
    BY <1>1, <2>7 DEF Linked
  <2>9. PrevHash[a] \in Lineage(E, d)
    BY <1>1, <2>7, <2>8, WalkToParent DEF Lineage
  <2>10. HeightOf[PrevHash[a]] \in Nat
    BY <1>1, <2>8, BlocksAssumption
  <2> QED
    BY <1>1, <2>2, <2>6, <2>8, <2>9, <2>10
<1>4. H - k \in 0..H /\ H - (H - k) = k
  BY <1>1
<1> QED
  BY <1>3, <1>4

(* And only one. *)
LEMMA LineUnique ==
    ASSUME NEW t, TreeGood(t), NEW d, NEW a, NEW c,
           is_descendant_of(Entries(t), d, a), is_descendant_of(Entries(t), d, c),
           HeightOf[a] = HeightOf[c]
    PROVE  a = c
<1>1. Entries(t) \in SUBSET Blocks /\ Linked(Entries(t))
  BY DEF TreeGood, TreeTyped
<1>2. is_descendant_of(Entries(t), a, c) \/ is_descendant_of(Entries(t), c, a)
  BY <1>1, WalkIsAChain
<1>3. a \in Blocks /\ c \in Blocks
  BY <1>1, WalkInEntries
<1>4. a # c => HeightOf[a] < HeightOf[c] \/ HeightOf[c] < HeightOf[a]
  BY <1>1, <1>2, WalkDescends
<1> QED
  BY <1>3, <1>4, BlocksAssumption

(* A chain of headers from height 0 up. *)
Headers(c) ==
    /\ c \in Seq(Blocks) /\ Len(c) >= 1
    /\ \A i \in 1..Len(c) : HeightOf[c[i]] = i - 1
    /\ \A i \in 2..Len(c) : PrevHash[c[i]] = c[i - 1]

(* There is a header in front. *)
LEMMA HeadersLength ==
    ASSUME NEW c, Headers(c)
    PROVE  Len(c) \in Nat /\ Len(c) >= 1
BY DEF Headers

(* canonical_chain lists the headers from genesis to the tip. *)
LEMMA CanonicalChain ==
    ASSUME NEW t, TreeGood(t)
    PROVE  LET c == canonical_chain(t) IN
           /\ Headers(c)
           /\ c[Len(c)] = t.canonical_tip
           /\ \A i \in 1..Len(c) : is_descendant_of(Entries(t), t.canonical_tip, c[i])
<1> DEFINE E == Entries(t)
           tip == t.canonical_tip
           H == HeightOf[tip]
           c == canonical_chain(t)
           P(i, b) == b \in Lineage(E, tip) /\ HeightOf[b] = i - 1
<1>1. E \in SUBSET Blocks /\ Linked(E) /\ tip \in E /\ H \in Nat
  BY BlocksAssumption DEF TreeGood, TreeTyped
<1>2. c = [i \in 1..(H + 1) |-> CHOOSE b \in Lineage(E, tip) : HeightOf[b] = i - 1]
  BY DEF canonical_chain
<1> HIDE DEF c
<1>3. ASSUME NEW i \in 1..(H + 1)
      PROVE  c[i] \in Lineage(E, tip) /\ HeightOf[c[i]] = i - 1
  <2>1. i - 1 \in 0..HeightOf[tip]
    BY <1>1
  <2>2. \E b \in Lineage(E, tip) : HeightOf[b] = i - 1
    BY <1>1, <2>1, LineHas
  <2>3. c[i] = CHOOSE b \in Lineage(E, tip) : HeightOf[b] = i - 1
    BY <1>2
  <2> QED
    BY <2>2, <2>3
<1>4. \A i \in 1..(H + 1) : /\ is_descendant_of(E, tip, c[i]) /\ c[i] \in Blocks
                            /\ HeightOf[c[i]] = i - 1
  BY <1>1, <1>3 DEF Lineage
<1>5. c \in Seq(Blocks) /\ Len(c) = H + 1
  <2>1. H + 1 \in Nat /\ DOMAIN c = 1..(H + 1)
    BY <1>1, <1>2
  <2>2. c \in [1..(H + 1) -> Blocks]
    <3> HIDE DEF E, tip, H
    <3>1. c = [i \in DOMAIN c |-> c[i]]
      BY <1>2
    <3> QED
      BY <1>4, <2>1, <3>1
  <2> QED
    BY <2>1, <2>2
<1>6. c[H + 1] = tip
  <2>1. H + 1 \in 1..(H + 1) /\ (H + 1) - 1 = H /\ is_descendant_of(E, tip, tip)
    BY <1>1, WalkReflexive
  <2>2. is_descendant_of(E, tip, c[H + 1]) /\ HeightOf[c[H + 1]] = HeightOf[tip]
    BY <1>4, <2>1
  <2> QED
    BY <2>1, <2>2, LineUnique
<1>7. ASSUME NEW i \in 2..(H + 1) PROVE PrevHash[c[i]] = c[i - 1]
  <2>1. i \in 1..(H + 1) /\ i - 1 \in 1..(H + 1) /\ i \in Nat /\ i > 1
    BY <1>1
  <2>2. HeightOf[c[i]] # 0 /\ HeightOf[c[i]] = i - 1 /\ HeightOf[c[i - 1]] = (i - 1) - 1
    BY <1>4, <2>1
  <2>3. c[i] \in E /\ c[i] # Genesis
    BY <1>1, <1>3, <2>1, <2>2, BlocksAssumption DEF Lineage
  <2>4. PrevHash[c[i]] \in E /\ HeightOf[c[i]] = HeightOf[PrevHash[c[i]]] + 1
    BY <1>1, <2>3 DEF Linked
  <2>5. is_descendant_of(E, tip, PrevHash[c[i]])
    BY <1>1, <1>4, <2>1, <2>2, <2>4, WalkToParent
  <2>6. HeightOf[PrevHash[c[i]]] \in Nat
    BY <1>1, <2>4, BlocksAssumption
  <2>7. HeightOf[PrevHash[c[i]]] = HeightOf[c[i - 1]]
    BY <2>1, <2>2, <2>4, <2>6
  <2>8. is_descendant_of(E, tip, c[i - 1])
    BY <1>4, <2>1
  <2> QED
    BY <2>5, <2>7, <2>8, LineUnique
<1>8. Headers(c)
  <2>1. 1..Len(c) = 1..(H + 1) /\ Len(c) >= 1
    BY <1>1, <1>5
  <2> QED
    BY <1>4, <1>5, <1>7, <2>1 DEF Headers
<1> QED
  BY <1>4, <1>5, <1>6, <1>8 DEF c

-----------------------------------------------------------------------------
(* What holds of every node value, also after a restart: its tree is good, *)
(* memory and disk hold chains of headers, the finalized height on disk is *)
(* that of the tracker and not below that of the tree, and every epoch of  *)
(* the chain is frozen.                                                    *)
NodeShape(n) ==
    /\ DOMAIN n = {"tree", "tracker", "chain", "epoch_snapshots", "disk"}
    /\ DOMAIN n.disk = {"chain", "accounts_at", "finalized_height"}

FinalityOK(n) ==
    /\ n.tracker.finalized_height \in Nat
    /\ n.tree.finalized_height <= n.tracker.finalized_height
    /\ n.disk.finalized_height = n.tracker.finalized_height
    /\ n.tracker.finalized_hash \in Blocks \cup {NoBlock}
    /\ n.tracker.finalized_hash # NoBlock =>
           n.tracker.finalized_height = HeightOf[n.tracker.finalized_hash]

EpochsFrozen(n) == \A i \in 1..Len(n.chain) : EpochOf(i - 1) \in n.epoch_snapshots

NodeGood(n) ==
    /\ NodeShape(n)
    /\ TreeGood(n.tree)
    /\ Headers(n.chain)
    /\ Headers(n.disk.chain) /\ n.disk.accounts_at \in Blocks
    /\ FinalityOK(n)
    /\ EpochsFrozen(n)

(* insert leaves finality alone. *)
SameFinal(t, u) ==
    u.finalized_height = t.finalized_height /\ u.finalized_hash = t.finalized_hash

LEMMA InsertKeepsFinality ==
    ASSUME NEW t, NEW b, NEW s
    PROVE  SameFinal(t, insert(t, b, s))
BY DEF insert, SameFinal

(* A node that starts from genesis. *)
LEMMA NewChainGood == NodeGood(new_chain)
<1> DEFINE n == new_chain
<1>1. /\ NodeShape(n) /\ n.tree = from_genesis /\ n.chain = <<Genesis>>
      /\ n.epoch_snapshots = {0} /\ n.disk.chain = <<Genesis>>
      /\ n.disk.accounts_at = Genesis /\ n.disk.finalized_height = 0
      /\ n.tracker.finalized_height = 0 /\ n.tracker.finalized_hash = NoBlock
      /\ n.tree.finalized_height = 0
  BY ZenonT(30) DEF new_chain, NodeShape, with_finalized, from_genesis
<1> HIDE DEF n
<1>2. Headers(<<Genesis>>)
  BY BlocksAssumption DEF Headers
<1>3. EpochOf(0) = 0
  BY EpochAssumption DEF EpochOf
<1>4. EpochsFrozen(n)
  BY <1>1, <1>3 DEF EpochsFrozen
<1> QED
  BY <1>1, <1>2, <1>4, GenesisGood, BlocksAssumption DEF NodeGood, FinalityOK, n

(* persist_full_state and persist_added_block write only the disk. *)
LEMMA PersistFacts ==
    ASSUME NEW n, NodeShape(n), NEW m, m \in {persist_full_state(n), persist_added_block(n)}
    PROVE  /\ NodeShape(m)
           /\ m.tree = n.tree /\ m.tracker = n.tracker /\ m.chain = n.chain
           /\ m.epoch_snapshots = n.epoch_snapshots
           /\ m.disk.chain \in {n.disk.chain, n.chain}
           /\ m.disk.accounts_at \in {n.disk.accounts_at, latest_block(n)}
           /\ m.disk.finalized_height \in {n.disk.finalized_height, n.tracker.finalized_height}
<1>1. CASE m = persist_full_state(n)
  BY <1>1 DEF persist_full_state, NodeShape
<1>2. CASE m = persist_added_block(n)
  BY <1>2 DEF persist_added_block, NodeShape
<1> QED
  BY <1>1, <1>2

(* m is n after add_block of b. *)
AddedBlock(n, b, m) ==
    /\ NodeShape(m)
    /\ m.tracker = n.tracker
    /\ m.epoch_snapshots = IF IsBoundary(HeightOf[b])
                           THEN n.epoch_snapshots \cup {EpochOf(HeightOf[b])}
                           ELSE n.epoch_snapshots
    /\ ValidationResult(b, latest_block(n)) # "Ok" =>
           m.tree = n.tree /\ m.chain = n.chain /\ m.disk = n.disk
    /\ ValidationResult(b, latest_block(n)) = "Ok" =>
           /\ m.tree = insert(n.tree, b, StakeOf[b][b])
           /\ m.chain = Append(n.chain, b)
           /\ m.disk.chain \in {n.disk.chain, m.chain}
           /\ m.disk.accounts_at \in {n.disk.accounts_at, latest_block(m)}
           /\ m.disk.finalized_height \in {n.disk.finalized_height, n.tracker.finalized_height}

(* What add_block changes. *)
LEMMA AddBlockFacts ==
    ASSUME NEW n, NodeShape(n), NEW b
    PROVE  AddedBlock(n, b, add_block(n, b))
<1> SUFFICES ASSUME NEW m, m = add_block(n, b) PROVE AddedBlock(n, b, m)
  OBVIOUS
<1> DEFINE frozen == IF IsBoundary(HeightOf[b])
                     THEN [n EXCEPT !.epoch_snapshots = @ \cup {EpochOf(HeightOf[b])}]
                     ELSE n
           grown == [frozen EXCEPT !.tree  = insert(@, b, StakeOf[b][b]),
                                   !.chain = Append(@, b)]
           added == persist_added_block(grown)
<1>1. /\ NodeShape(frozen) /\ frozen.tree = n.tree /\ frozen.tracker = n.tracker
      /\ frozen.chain = n.chain /\ frozen.disk = n.disk
      /\ frozen.epoch_snapshots = IF IsBoundary(HeightOf[b])
                                  THEN n.epoch_snapshots \cup {EpochOf(HeightOf[b])}
                                  ELSE n.epoch_snapshots
  BY DEF NodeShape
<1>2. m = IF ValidationResult(b, latest_block(n)) # "Ok" THEN frozen
          ELSE IF IsBoundary(HeightOf[b]) THEN persist_full_state(added)
          ELSE added
  BY DEF add_block
<1>3. CASE ValidationResult(b, latest_block(n)) # "Ok"
  BY <1>1, <1>2, <1>3 DEF AddedBlock
<1>4. CASE ValidationResult(b, latest_block(n)) = "Ok"
  <2> HIDE DEF frozen
  <2>1. /\ NodeShape(grown) /\ grown.tree = insert(n.tree, b, StakeOf[b][b])
        /\ grown.tracker = n.tracker /\ grown.chain = Append(n.chain, b)
        /\ grown.epoch_snapshots = frozen.epoch_snapshots /\ grown.disk = n.disk
    BY <1>1 DEF NodeShape
  <2> HIDE DEF grown
  <2>2. /\ NodeShape(added) /\ added.tree = grown.tree /\ added.tracker = n.tracker
        /\ added.chain = grown.chain /\ added.epoch_snapshots = frozen.epoch_snapshots
        /\ added.disk.chain \in {n.disk.chain, grown.chain}
        /\ added.disk.accounts_at \in {n.disk.accounts_at, latest_block(grown)}
        /\ added.disk.finalized_height \in
               {n.disk.finalized_height, n.tracker.finalized_height}
    BY <2>1, PersistFacts
  <2> HIDE DEF added
  <2>3. latest_block(added) = latest_block(grown)
    BY <2>2 DEF latest_block
  <2>4. CASE IsBoundary(HeightOf[b])
    <3>1. m = persist_full_state(added)
      BY <1>2, <1>4, <2>4
    <3>2. /\ NodeShape(m) /\ m.tree = added.tree /\ m.tracker = added.tracker
          /\ m.chain = added.chain /\ m.epoch_snapshots = added.epoch_snapshots
          /\ m.disk.chain \in {added.disk.chain, added.chain}
          /\ m.disk.accounts_at \in {added.disk.accounts_at, latest_block(added)}
          /\ m.disk.finalized_height \in
                 {added.disk.finalized_height, added.tracker.finalized_height}
      BY <2>2, <3>1, PersistFacts
    <3>3. latest_block(m) = latest_block(added)
      BY <3>2 DEF latest_block
    <3> QED
      BY <1>1, <1>4, <2>1, <2>2, <2>3, <3>2, <3>3, ZenonT(30) DEF AddedBlock
  <2>5. CASE ~IsBoundary(HeightOf[b])
    <3>1. m = added
      BY <1>2, <1>4, <2>5
    <3> QED
      BY <1>1, <1>4, <2>1, <2>2, <2>3, <3>1, ZenonT(30) DEF AddedBlock
  <2> QED
    BY <2>4, <2>5
<1> QED
  BY <1>3, <1>4

(* What a valid block says of its parent. *)
LEMMA ValidFacts ==
    ASSUME NEW b, NEW p, ValidationResult(b, p) = "Ok"
    PROVE  HeightOf[b] = HeightOf[p] + 1 /\ PrevHash[b] = p /\ b \in Valid
BY DEF ValidationResult

(* A valid block is one of the valid blocks, and has a stake. *)
LEMMA ValidBlock ==
    ASSUME NEW b \in Blocks, NEW p, ValidationResult(b, p) = "Ok"
    PROVE  b \in Valid /\ StakeOf[b][b] \in Nat
BY ValidFacts, ChainAssumption

(* A block on top of the last header. *)
Appended(c, b, d) ==
    /\ Headers(d) /\ Len(d) = Len(c) + 1
    /\ HeightOf[b] = Len(c) /\ d[Len(c) + 1] = b
    /\ \A i \in 1..Len(c) : d[i] = c[i]

(* A valid block on the last header makes a longer chain of headers. *)
LEMMA AppendHeaders ==
    ASSUME NEW c, Headers(c), NEW b \in Blocks,
           HeightOf[b] = HeightOf[c[Len(c)]] + 1, PrevHash[b] = c[Len(c)]
    PROVE  Appended(c, b, Append(c, b))
<1> DEFINE a == Append(c, b)
           k == Len(c)
<1>1. /\ c \in Seq(Blocks) /\ k \in Nat /\ k >= 1 /\ HeightOf[c[k]] = k - 1
  BY DEF Headers
<1>2. /\ a \in Seq(Blocks) /\ Len(a) = k + 1 /\ a[k + 1] = b
      /\ \A i \in 1..k : a[i] = c[i]
  BY <1>1
<1>3. HeightOf[b] = k
  BY <1>1
<1> HIDE DEF a, k
<1>4. ASSUME NEW i \in 1..Len(a) PROVE HeightOf[a[i]] = i - 1
  <2>1. CASE i \in 1..k
    BY <1>2, <2>1 DEF Headers, k
  <2>2. CASE i = k + 1
    BY <1>1, <1>2, <1>3, <2>2
  <2> QED
    BY <1>1, <1>2, <2>1, <2>2
<1>5. ASSUME NEW i \in 2..Len(a) PROVE PrevHash[a[i]] = a[i - 1]
  <2>1. CASE i \in 2..k
    <3>1. i \in 1..k /\ i - 1 \in 1..k
      BY <1>1, <2>1
    <3> QED
      BY <1>2, <2>1, <3>1, ZenonT(30) DEF Headers, k
  <2>2. CASE i = k + 1
    <3>1. i - 1 = k /\ k \in 1..k
      BY <1>1, <2>2
    <3> QED
      BY <1>2, <2>2, <3>1 DEF k
  <2> QED
    BY <1>1, <1>2, <2>1, <2>2
<1>6. Headers(a)
  BY <1>1, <1>2, <1>4, <1>5 DEF Headers
<1> QED
  BY <1>2, <1>3, <1>6 DEF a, k, Appended

(* add_block keeps a node value good. *)
LEMMA AddBlockGood ==
    ASSUME NEW n, NodeGood(n), NEW b \in Blocks
    PROVE  NodeGood(add_block(n, b))
<1> SUFFICES ASSUME NEW m, AddedBlock(n, b, m) PROVE NodeGood(m)
  BY AddBlockFacts DEF NodeGood
<1> DEFINE h == HeightOf[b]
<1>0. h \in Nat
  BY BlocksAssumption
<1>2. CASE ValidationResult(b, latest_block(n)) # "Ok"
  BY <1>2 DEF AddedBlock, NodeGood, FinalityOK, EpochsFrozen
<1>3. CASE ValidationResult(b, latest_block(n)) = "Ok"
  <2> DEFINE k == Len(n.chain)
  <2>1. h = HeightOf[latest_block(n)] + 1 /\ PrevHash[b] = latest_block(n)
    BY <1>3, ValidFacts
  <2>0. Headers(n.chain) /\ latest_block(n) = n.chain[Len(n.chain)]
    BY DEF NodeGood, latest_block
  <2>2. /\ Headers(m.chain) /\ Len(m.chain) = k + 1 /\ h = k /\ m.chain[k + 1] = b
    <3>1. m.chain = Append(n.chain, b)
      BY <1>3 DEF AddedBlock
    <3>2. Appended(n.chain, b, Append(n.chain, b))
      BY <2>0, <2>1, AppendHeaders, ZenonT(30)
    <3> QED
      BY <3>1, <3>2, ZenonT(30) DEF Appended
  <2>3. TreeGood(m.tree)
    BY <1>3, InsertGood, ChainAssumption DEF AddedBlock, NodeGood
  <2>4. Headers(m.disk.chain) /\ m.disk.accounts_at \in Blocks
    BY <1>3, <2>2, ZenonT(30) DEF AddedBlock, NodeGood, latest_block, Headers
  <2>5. FinalityOK(m)
    <3>1. SameFinal(n.tree, insert(n.tree, b, StakeOf[b][b])) /\ FinalityOK(n)
      BY InsertKeepsFinality, ZenonT(30) DEF NodeGood
    <3>2. /\ m.tree.finalized_height = n.tree.finalized_height /\ m.tracker = n.tracker
          /\ m.disk.finalized_height \in {n.disk.finalized_height, n.tracker.finalized_height}
      BY <1>3, <3>1, ZenonT(30) DEF AddedBlock, SameFinal
    <3> QED
      BY <3>1, <3>2 DEF FinalityOK
  <2>6. EpochsFrozen(m)
    <3> SUFFICES ASSUME NEW i \in 1..Len(m.chain)
                 PROVE  EpochOf(i - 1) \in m.epoch_snapshots
      BY DEF EpochsFrozen
    <3>1. k \in Nat /\ k >= 1
      BY <2>0, HeadersLength, ZenonT(30)
    <3>2. CASE i \in 1..k
      BY <3>2, ZenonT(30) DEF AddedBlock, NodeGood, EpochsFrozen
    <3>3. CASE i = k + 1
      <4>1. i - 1 = h /\ h > 0 /\ h \in 1..k
        BY <1>0, <2>2, <3>1, <3>3
      <4>2. EpochOf(h - 1) \in n.epoch_snapshots
        BY <4>1 DEF NodeGood, EpochsFrozen
      <4> QED
        BY <1>0, <4>1, <4>2, EpochStart, ZenonT(30) DEF AddedBlock
    <3> QED
      BY <2>2, <3>1, <3>2, <3>3
  <2> QED
    BY <2>2, <2>3, <2>4, <2>5, <2>6 DEF AddedBlock, NodeGood
<1> QED
  BY <1>2, <1>3

(* rebuild_canonical_state freezes every epoch of the chain it is given. *)
LEMMA RebuildFacts ==
    ASSUME NEW n, NodeShape(n), NEW c, Headers(c), NEW m, m = rebuild_canonical_state(n, c)
    PROVE  /\ NodeShape(m) /\ m.tree = n.tree /\ m.tracker = n.tracker /\ m.chain = c
           /\ m.disk = n.disk /\ EpochsFrozen(m)
<1> DEFINE S == {0} \cup {EpochOf(h) : h \in {i \in 1..(Len(c) - 1) : IsBoundary(i)}}
<1>1. /\ NodeShape(m) /\ m.tree = n.tree /\ m.tracker = n.tracker /\ m.chain = c
      /\ m.disk = n.disk /\ m.epoch_snapshots = S
  BY DEF rebuild_canonical_state, NodeShape
<1>2. ASSUME NEW i \in 1..Len(c) PROVE EpochOf(i - 1) \in S
  <2>1. i - 1 \in Nat /\ Len(c) \in Nat
    BY DEF Headers
  <2> DEFINE k == i - 1
             h == EpochLength * EpochOf(k)
  <2>2. /\ EpochOf(k) \in Nat /\ h \in Nat /\ h <= k /\ EpochOf(h) = EpochOf(k)
        /\ EpochOf(k) > 0 => IsBoundary(h)
    BY <2>1, EpochStart, ZenonT(30)
  <2> HIDE DEF h
  <2>3. CASE EpochOf(k) > 0
    <3>1. h \in 1..(Len(c) - 1) /\ IsBoundary(h)
      BY <2>1, <2>2, <2>3 DEF IsBoundary
    <3> QED
      BY <2>2, <3>1
  <2>4. CASE EpochOf(k) = 0
    BY <2>4
  <2> QED
    BY <2>2, <2>3, <2>4
<1> HIDE DEF S
<1> QED
  BY <1>1, <1>2 DEF EpochsFrozen

(* m is n after fork choice over a block b that does not extend the head. *)
ForkStep(n, b, m) ==
    LET u        == insert(n.tree, b, StakeOf[b][b])
        inserted == [n EXCEPT !.tree = u]
    IN  /\ NodeShape(m)
        /\ m.tree = u /\ m.tracker = n.tracker
        /\ PrevHash[b] # latest_block(n)
        /\ ValidationResult(b, PrevHash[b]) = "Ok"
        /\ \/ /\ TipChanged(n.tree, b, StakeOf[b][b]) => ~ReorgAllowed(inserted)
              /\ m.chain = n.chain /\ m.epoch_snapshots = n.epoch_snapshots
              /\ m.disk = n.disk
           \/ /\ TipChanged(n.tree, b, StakeOf[b][b])
              /\ m.chain = canonical_chain(u)
              /\ EpochsFrozen(m)
              /\ m.disk.chain \in {n.disk.chain, m.chain}
              /\ m.disk.accounts_at \in {n.disk.accounts_at, latest_block(m)}
              /\ m.disk.finalized_height \in
                     {n.disk.finalized_height, n.tracker.finalized_height}

(* What reorg_to_canonical_tip changes. *)
LEMMA ReorgFacts ==
    ASSUME NEW n, NodeShape(n), TreeGood(n.tree), ReorgAllowed(n),
           NEW m, m = reorg_to_canonical_tip(n)
    PROVE  /\ NodeShape(m) /\ m.tree = n.tree /\ m.tracker = n.tracker
           /\ m.chain = canonical_chain(n.tree)
           /\ EpochsFrozen(m)
           /\ m.disk.chain \in {n.disk.chain, m.chain}
           /\ m.disk.accounts_at \in {n.disk.accounts_at, latest_block(m)}
           /\ m.disk.finalized_height \in {n.disk.finalized_height, n.tracker.finalized_height}
<1>1. PICK c : c = canonical_chain(n.tree)
  OBVIOUS
<1>2. PICK k : k = rebuild_canonical_state(n, c)
  OBVIOUS
<1>3. Headers(c)
  BY <1>1, CanonicalChain
<1>4. /\ NodeShape(k) /\ k.tree = n.tree /\ k.tracker = n.tracker /\ k.chain = c
      /\ k.disk = n.disk /\ EpochsFrozen(k)
  BY <1>2, <1>3, RebuildFacts
<1>5. m = persist_full_state(k)
  BY <1>1, <1>2 DEF reorg_to_canonical_tip
<1>6. /\ NodeShape(m) /\ m.tree = k.tree /\ m.tracker = k.tracker /\ m.chain = k.chain
      /\ m.epoch_snapshots = k.epoch_snapshots
      /\ m.disk.chain \in {k.disk.chain, k.chain}
      /\ m.disk.accounts_at \in {k.disk.accounts_at, latest_block(k)}
      /\ m.disk.finalized_height \in {k.disk.finalized_height, k.tracker.finalized_height}
  BY <1>4, <1>5, PersistFacts
<1>7. latest_block(m) = latest_block(k) /\ EpochsFrozen(m)
  BY <1>4, <1>6 DEF latest_block, EpochsFrozen
<1> QED
  BY <1>1, <1>4, <1>6, <1>7, ZenonT(30)

(* The three ways add_block_with_fork_choice ends. *)
LEMMA ForkChoiceFacts ==
    ASSUME NEW n, NodeShape(n), TreeGood(n.tree), NEW b \in Blocks,
           NEW m, m = add_block_with_fork_choice(n, b)
    PROVE  \/ m = n
           \/ m = add_block(n, b)
           \/ ForkStep(n, b, m)
<1>1. PICK u : u = insert(n.tree, b, StakeOf[b][b])
  OBVIOUS
<1>2. PICK k : k = [n EXCEPT !.tree = u]
  BY ZenonT(30)
<1>3. /\ NodeShape(k) /\ k.tree = u /\ k.tracker = n.tracker /\ k.chain = n.chain
      /\ k.epoch_snapshots = n.epoch_snapshots /\ k.disk = n.disk
  BY <1>2 DEF NodeShape
<1>4. TreeGood(u)
  BY <1>1, InsertGood, ChainAssumption
<1>5. \/ m = n
      \/ m = add_block(n, b)
      \/ /\ PrevHash[b] # latest_block(n)
         /\ ValidationResult(b, PrevHash[b]) = "Ok"
         /\ m = IF TipChanged(n.tree, b, StakeOf[b][b]) THEN reorg_to_canonical_tip(k) ELSE k
  BY <1>1, <1>2 DEF add_block_with_fork_choice
<1> SUFFICES ASSUME PrevHash[b] # latest_block(n),
                    ValidationResult(b, PrevHash[b]) = "Ok",
                    m = IF TipChanged(n.tree, b, StakeOf[b][b])
                        THEN reorg_to_canonical_tip(k) ELSE k
             PROVE  ForkStep(n, b, m)
  BY <1>5
<1>6. CASE m = k /\ (TipChanged(n.tree, b, StakeOf[b][b]) => ~ReorgAllowed(k))
  BY <1>1, <1>2, <1>3, <1>6, ZenonT(30) DEF ForkStep
<1>7. CASE /\ TipChanged(n.tree, b, StakeOf[b][b]) /\ ReorgAllowed(k)
           /\ m = reorg_to_canonical_tip(k)
  <2>1. /\ NodeShape(m) /\ m.tree = u /\ m.tracker = n.tracker
        /\ m.chain = canonical_chain(u)
        /\ EpochsFrozen(m)
        /\ m.disk.chain \in {n.disk.chain, m.chain}
        /\ m.disk.accounts_at \in {n.disk.accounts_at, latest_block(m)}
        /\ m.disk.finalized_height \in {n.disk.finalized_height, n.tracker.finalized_height}
    BY <1>3, <1>4, <1>7, ReorgFacts, ZenonT(30)
  <2> QED
    BY <1>1, <1>7, <2>1 DEF ForkStep
<1>8. ~ReorgAllowed(k) => reorg_to_canonical_tip(k) = k
  BY ZenonT(30) DEF reorg_to_canonical_tip
<1> QED
  BY <1>6, <1>7, <1>8

(* Fork choice keeps a node value good. *)
LEMMA ForkChoiceGood ==
    ASSUME NEW n, NodeGood(n), NEW b \in Blocks
    PROVE  NodeGood(add_block_with_fork_choice(n, b))
<1> SUFFICES ASSUME NEW m, ForkStep(n, b, m) PROVE NodeGood(m)
  BY AddBlockGood, ForkChoiceFacts, ZenonT(30) DEF NodeGood
<1>1. PICK u : u = insert(n.tree, b, StakeOf[b][b])
  OBVIOUS
<1>2. TreeGood(u)
  BY <1>1, InsertGood, ChainAssumption DEF NodeGood
<1>3. /\ NodeShape(m) /\ m.tree = u /\ m.tracker = n.tracker
      /\ u.finalized_height = n.tree.finalized_height
  <2>1. SameFinal(n.tree, insert(n.tree, b, StakeOf[b][b]))
    BY InsertKeepsFinality, ZenonT(30)
  <2> QED
    BY <1>1, <2>1, ZenonT(30) DEF ForkStep, SameFinal
<1>4. CASE m.chain = n.chain /\ m.epoch_snapshots = n.epoch_snapshots /\ m.disk = n.disk
  BY <1>2, <1>3, <1>4 DEF NodeGood, FinalityOK, EpochsFrozen
<1>5. CASE /\ m.chain = canonical_chain(u)
           /\ EpochsFrozen(m)
           /\ m.disk.chain \in {n.disk.chain, m.chain}
           /\ m.disk.accounts_at \in {n.disk.accounts_at, latest_block(m)}
           /\ m.disk.finalized_height \in {n.disk.finalized_height, n.tracker.finalized_height}
  <2>1. Headers(m.chain) /\ latest_block(m) = u.canonical_tip
    BY <1>2, <1>5, CanonicalChain DEF latest_block
  <2>2. u.canonical_tip \in Blocks
    BY <1>2 DEF TreeGood, TreeTyped
  <2> QED
    BY <1>2, <1>3, <1>5, <2>1, <2>2, ZenonT(30) DEF NodeGood, FinalityOK
<1> QED
  BY <1>1, <1>4, <1>5 DEF ForkStep

(* m is n after a vote that passed the checks of add_finality_vote. *)
VoteStep(n, vote, m) ==
    LET e == EpochOf(vote.block_height)
        b == vote.block_hash
    IN  /\ NodeShape(m)
        /\ b \in Entries(n.tree) /\ HeightOf[b] = vote.block_height
        /\ is_on_canonical_chain(n.tree, b)
        /\ m.tracker = add_vote(n.tracker, vote, e)
        /\ m.chain = n.chain /\ m.epoch_snapshots = n.epoch_snapshots
        /\ m.disk.chain = n.disk.chain /\ m.disk.accounts_at = n.disk.accounts_at
        /\ ~Finalizes(n.tracker, vote, e) =>
               /\ m.tree = n.tree
               /\ m.disk.finalized_height = n.disk.finalized_height
        /\ Finalizes(n.tracker, vote, e) =>
               /\ m.tree = set_finalized(n.tree, b, HeightOf[b])
               /\ m.disk.finalized_height = HeightOf[b]

(* The two ways add_finality_vote ends. *)
LEMMA VoteFacts ==
    ASSUME NEW n, NodeShape(n), NEW vote, NEW m, m = add_finality_vote(n, vote)
    PROVE  m = n \/ VoteStep(n, vote, m)
<1> DEFINE e == EpochOf(vote.block_height)
           b == vote.block_hash
<1>1. PICK voted : voted = [n EXCEPT !.tracker = add_vote(@, vote, e)]
  BY ZenonT(30)
<1>2. /\ NodeShape(voted) /\ voted.tracker = add_vote(n.tracker, vote, e)
      /\ voted.tree = n.tree /\ voted.chain = n.chain
      /\ voted.epoch_snapshots = n.epoch_snapshots /\ voted.disk = n.disk
  BY <1>1 DEF NodeShape
<1>3. \/ m = n
      \/ /\ b \in Entries(n.tree) /\ HeightOf[b] = vote.block_height
         /\ is_on_canonical_chain(n.tree, b)
         /\ m = IF ~Finalizes(n.tracker, vote, e) THEN voted
                ELSE [voted EXCEPT !.tree = set_finalized(@, b, vote.block_height),
                                   !.disk.finalized_height = vote.block_height]
  BY <1>1 DEF add_finality_vote
<1> SUFFICES ASSUME b \in Entries(n.tree), HeightOf[b] = vote.block_height,
                    is_on_canonical_chain(n.tree, b),
                    m = IF ~Finalizes(n.tracker, vote, e) THEN voted
                        ELSE [voted EXCEPT !.tree = set_finalized(@, b, vote.block_height),
                                           !.disk.finalized_height = vote.block_height]
             PROVE  VoteStep(n, vote, m)
  BY <1>3
<1>4. CASE ~Finalizes(n.tracker, vote, e)
  BY <1>2, <1>4 DEF VoteStep
<1>5. CASE Finalizes(n.tracker, vote, e)
  <2>1. m = [voted EXCEPT !.tree = set_finalized(@, b, vote.block_height),
                          !.disk.finalized_height = vote.block_height]
    BY <1>5
  <2>2. /\ NodeShape(m) /\ m.tracker = voted.tracker /\ m.chain = voted.chain
        /\ m.tree = set_finalized(voted.tree, b, vote.block_height)
        /\ m.epoch_snapshots = voted.epoch_snapshots
        /\ m.disk.chain = voted.disk.chain /\ m.disk.accounts_at = voted.disk.accounts_at
        /\ m.disk.finalized_height = vote.block_height
    BY <1>2, <2>1, ZenonT(90) DEF NodeShape
  <2> QED
    BY <1>2, <1>5, <2>2 DEF VoteStep
<1> QED
  BY <1>4, <1>5

(* A vote that add_vote returns nothing for leaves finality. *)
LEMMA AddVoteKeeps ==
    ASSUME NEW tr, NEW vote, NEW e, ~Finalizes(tr, vote, e)
    PROVE  /\ add_vote(tr, vote, e).finalized_height = tr.finalized_height
           /\ add_vote(tr, vote, e).finalized_hash = tr.finalized_hash
<1>1. CASE ~Counts(tr, vote, e)
  BY <1>1, ZenonT(30) DEF add_vote
<1>2. CASE Counts(tr, vote, e)
  <2>1. add_vote(tr, vote, e) = Record(tr, vote)
    BY <1>2, ZenonT(30) DEF add_vote
  <2>2. /\ Record(tr, vote).finalized_height = tr.finalized_height
        /\ Record(tr, vote).finalized_hash = tr.finalized_hash
    BY DEF Record
  <2> QED
    BY <2>1, <2>2, ZenonT(30)
<1> QED
  BY <1>1, <1>2, ZenonT(30)

(* A vote that add_vote finalizes a block for moves finality up to it. *)
LEMMA AddVoteFinalizes ==
    ASSUME NEW tr, NEW vote, NEW e, Finalizes(tr, vote, e)
    PROVE  /\ vote.block_height > tr.finalized_height
           /\ add_vote(tr, vote, e).finalized_height = HeightOf[vote.block_hash]
           /\ add_vote(tr, vote, e).finalized_hash = vote.block_hash
<1>1. Counts(tr, vote, e)
  BY ZenonT(30) DEF Finalizes
<1>2. add_vote(tr, vote, e) = Finalize(Record(tr, vote), vote.block_hash)
  BY <1>1, ZenonT(30) DEF add_vote
<1>3. /\ Finalize(Record(tr, vote), vote.block_hash).finalized_height = HeightOf[vote.block_hash]
      /\ Finalize(Record(tr, vote), vote.block_hash).finalized_hash = vote.block_hash
  BY DEF Finalize
<1>4. vote.block_height > tr.finalized_height
  BY <1>1 DEF Counts
<1> QED
  BY <1>2, <1>3, <1>4, ZenonT(30)

(* A vote keeps a node value good. *)
LEMMA VoteGood ==
    ASSUME NEW n, NodeGood(n), NEW vote
    PROVE  NodeGood(add_finality_vote(n, vote))
<1> SUFFICES ASSUME NEW m, VoteStep(n, vote, m) PROVE NodeGood(m)
  BY VoteFacts, ZenonT(30) DEF NodeGood
<1> DEFINE e == EpochOf(vote.block_height)
           b == vote.block_hash
<1>0. m.tracker = add_vote(n.tracker, vote, e)
  BY ZenonT(30) DEF VoteStep
<1>1. b \in Blocks /\ HeightOf[b] = vote.block_height /\ is_on_canonical_chain(n.tree, b)
  BY ZenonT(30) DEF VoteStep, NodeGood, TreeGood, TreeTyped
<1>2. CASE ~Finalizes(n.tracker, vote, e)
  <2>1. /\ m.tracker.finalized_height = n.tracker.finalized_height
        /\ m.tracker.finalized_hash = n.tracker.finalized_hash
    <3>1. /\ add_vote(n.tracker, vote, e).finalized_height = n.tracker.finalized_height
          /\ add_vote(n.tracker, vote, e).finalized_hash = n.tracker.finalized_hash
      BY <1>2, AddVoteKeeps, ZenonT(90)
    <3> QED
      BY <1>0, <3>1, ZenonT(30)
  <2> QED
    BY <1>2, <2>1, ZenonT(30) DEF VoteStep, NodeGood, FinalityOK, EpochsFrozen
<1>3. CASE Finalizes(n.tracker, vote, e)
  <2>1. /\ HeightOf[b] > n.tracker.finalized_height
        /\ m.tracker.finalized_height = HeightOf[b] /\ m.tracker.finalized_hash = b
    <3>1. /\ vote.block_height > n.tracker.finalized_height
          /\ add_vote(n.tracker, vote, e).finalized_height = HeightOf[b]
          /\ add_vote(n.tracker, vote, e).finalized_hash = b
      BY <1>3, AddVoteFinalizes, ZenonT(30)
    <3> QED
      BY <1>0, <1>1, <3>1, ZenonT(30)
  <2>2. HeightOf[b] > n.tree.finalized_height
    <3>1. /\ HeightOf[b] \in Nat /\ n.tracker.finalized_height \in Nat
          /\ n.tree.finalized_height \in Nat
          /\ n.tree.finalized_height <= n.tracker.finalized_height
      BY <1>1, BlocksAssumption, ZenonT(30) DEF NodeGood, FinalityOK, TreeGood, TreeTyped
    <3> QED
      BY <2>1, <3>1, HeightOrder, ZenonT(30)
  <2>3. m.tree = set_finalized(n.tree, b, HeightOf[b])
    BY <1>3 DEF VoteStep
  <2>4. TreeGood(m.tree)
    BY <1>1, <2>2, <2>3, FinalizeGood, ZenonT(30) DEF NodeGood
  <2>5. m.tree.finalized_height = HeightOf[b]
    BY <2>3 DEF set_finalized
  <2>6. FinalityOK(m)
    <3>1. m.disk.finalized_height = HeightOf[b]
      BY <1>3, ZenonT(30) DEF VoteStep
    <3>2. HeightOf[b] \in Nat /\ HeightOf[b] <= HeightOf[b]
      BY <1>1, BlocksAssumption, HeightOrder, ZenonT(30)
    <3> QED
      BY <1>1, <2>1, <2>5, <3>1, <3>2, ZenonT(30) DEF FinalityOK
  <2> QED
    BY <2>4, <2>6, ZenonT(30) DEF VoteStep, NodeGood, EpochsFrozen
<1> QED
  BY <1>2, <1>3

-----------------------------------------------------------------------------
(* Every valid block is proposed by a validator that still has stake after *)
(* it.  The weight of a block is the stake of its proposer in the state it *)
(* leaves (add_block), so a proposer that withdraws all its stake in its   *)
(* own block falls outside.                                                *)
PositiveStakes == \A b \in Valid : StakeOf[b][b] > 0

(* Entries carry the cumulative weight that insert gave them. *)
WeightsAdd(t) ==
    \A x \in Entries(t) \ {Genesis} :
        x \in Valid /\ t.weight[x] = t.weight[PrevHash[x]] + StakeOf[x][x]

(* The parents a linked tree walks over. *)
LEMMA EntryFacts ==
    ASSUME NEW t, TreeGood(t), NEW x \in Entries(t), x # Genesis
    PROVE  /\ x \in Blocks /\ PrevHash[x] \in Entries(t)
           /\ HeightOf[x] = HeightOf[PrevHash[x]] + 1 /\ HeightOf[x] # 0
           /\ t.weight[x] \in Nat /\ t.weight[PrevHash[x]] \in Nat
<1>1. /\ x \in Blocks /\ PrevHash[x] \in Entries(t) /\ PrevHash[x] \in Blocks
      /\ HeightOf[x] = HeightOf[PrevHash[x]] + 1
      /\ t.weight \in [Entries(t) -> Nat]
  BY ZenonT(30) DEF TreeGood, TreeTyped, Linked
<1>2. HeightOf[PrevHash[x]] \in Nat
  BY <1>1, BlocksAssumption
<1> QED
  BY <1>1, <1>2

(* insert adds the stake of the new block to the weight of its parent. *)
LEMMA InsertWeights ==
    ASSUME NEW t, TreeGood(t), WeightsAdd(t), NEW b \in Valid
    PROVE  WeightsAdd(insert(t, b, StakeOf[b][b]))
<1> SUFFICES ASSUME NEW u, u = insert(t, b, StakeOf[b][b]) PROVE WeightsAdd(u)
  OBVIOUS
<1>0. b \in Blocks /\ StakeOf[b][b] \in Nat
  BY ChainAssumption
<1>1. CASE InsertResult(t, b) # "inserted"
  BY <1>1 DEF insert
<1>2. CASE InsertResult(t, b) = "inserted"
  <2>1. /\ b \notin Entries(t) /\ Entries(u) = Entries(t) \cup {b}
        /\ PrevHash[b] \in Entries(t) /\ u.weight = AddEntry(t, b, StakeOf[b][b])
    <3>1. Inserted(t, b, StakeOf[b][b], u)
      BY <1>0, <1>2, InsertFacts, ZenonT(30)
    <3> QED
      BY <3>1, ZenonT(30) DEF Inserted
  <2>2. /\ u.weight[b] = t.weight[PrevHash[b]] + StakeOf[b][b]
        /\ \A x \in Entries(t) : u.weight[x] = t.weight[x]
    BY <2>1, ZenonT(30) DEF AddEntry
  <2>3. ASSUME NEW x \in Entries(u) \ {Genesis}
        PROVE  x \in Valid /\ u.weight[x] = u.weight[PrevHash[x]] + StakeOf[x][x]
    <3>1. CASE x = b
      BY <2>1, <2>2, <3>1, ZenonT(30)
    <3>2. CASE x \in Entries(t)
      BY <2>2, <3>2, EntryFacts, ZenonT(30) DEF WeightsAdd
    <3> QED
      BY <2>1, <3>1, <3>2, ZenonT(30)
  <2> QED
    BY <2>3 DEF WeightsAdd
<1> QED
  BY <1>1, <1>2

(* The prune leaves the weights. *)
LEMMA FinalizeWeights ==
    ASSUME NEW t, TreeGood(t), WeightsAdd(t), NEW b \in Blocks,
           is_on_canonical_chain(t, b), HeightOf[b] > t.finalized_height
    PROVE  WeightsAdd(set_finalized(t, b, HeightOf[b]))
<1> SUFFICES ASSUME NEW u, u = set_finalized(t, b, HeightOf[b]) PROVE WeightsAdd(u)
  OBVIOUS
<1>1. Entries(u) = Kept(Entries(t), b) /\ \A x \in Entries(u) : u.weight[x] = t.weight[x]
  BY FinalizeFacts
<1>2. Entries(u) \subseteq Entries(t)
  BY <1>1 DEF Kept
<1>3. TreeGood(u)
  BY FinalizeGood
<1>4. ASSUME NEW x \in Entries(u) \ {Genesis}
      PROVE  x \in Valid /\ u.weight[x] = u.weight[PrevHash[x]] + StakeOf[x][x]
  <2>1. PrevHash[x] \in Entries(u)
    BY <1>3, EntryFacts
  <2>2. x \in Valid /\ t.weight[x] = t.weight[PrevHash[x]] + StakeOf[x][x]
    BY <1>2 DEF WeightsAdd
  <2> QED
    BY <1>1, <2>1, <2>2
<1> QED
  BY <1>4 DEF WeightsAdd

(* Ancestors are lighter. *)
LEMMA WalkLighter ==
    ASSUME PositiveStakes, NEW t, TreeGood(t), WeightsAdd(t), NEW d, NEW a,
           is_descendant_of(Entries(t), d, a), d # a
    PROVE  t.weight[a] < t.weight[d]
<1> DEFINE E == Entries(t)
           S == {d} \cup {x \in E : t.weight[x] < t.weight[d]}
<1>0. E \in SUBSET Blocks /\ t.weight \in [E -> Nat]
  BY ZenonT(30) DEF TreeGood, TreeTyped
<1>1. d \in E /\ S \in SUBSET E
  BY <1>0, WalkInEntries
<1>2. WalkClosed(E, S)
  <2> SUFFICES ASSUME NEW x \in S, HeightOf[x] # 0, PrevHash[x] \in E
               PROVE  t.weight[PrevHash[x]] < t.weight[d]
    BY DEF WalkClosed
  <2>1. x \in E /\ x # Genesis
    BY <1>1, BlocksAssumption
  <2>2. x \in Valid /\ t.weight[x] = t.weight[PrevHash[x]] + StakeOf[x][x]
    BY <2>1 DEF WeightsAdd
  <2>3. StakeOf[x][x] \in Nat /\ StakeOf[x][x] > 0
    BY <2>2, ChainAssumption DEF PositiveStakes
  <2>4. t.weight[x] <= t.weight[d] /\ t.weight[x] \in Nat /\ t.weight[d] \in Nat
        /\ t.weight[PrevHash[x]] \in Nat
    BY <1>0, <1>1, <2>1
  <2> QED
    BY <2>2, <2>3, <2>4
<1>3. Meets(E, d, a)
  BY <1>0, WalkOnLine
<1>4. a \in S
  <2> HIDE DEF E, S
  <2>1. d \in S
    BY DEF S
  <2> QED
    BY <1>1, <1>2, <1>3, <2>1 DEF Meets
<1> QED
  BY <1>4

(* A walk that meets a block has not gone below it. *)
LEMMA WalkNotHigher ==
    ASSUME NEW t, TreeGood(t), NEW d, NEW a, is_descendant_of(Entries(t), d, a)
    PROVE  /\ d \in Blocks /\ a \in Blocks
           /\ HeightOf[d] \in Nat /\ HeightOf[a] \in Nat /\ HeightOf[a] <= HeightOf[d]
<1>1. Entries(t) \in SUBSET Blocks /\ Linked(Entries(t))
  BY DEF TreeGood, TreeTyped
<1>2. d \in Blocks /\ a \in Blocks
  BY <1>1, WalkInEntries
<1>3. d # a => HeightOf[a] < HeightOf[d]
  BY <1>1, WalkDescends
<1> QED
  BY <1>2, <1>3, BlocksAssumption

(* u is t with b on top of its tip. *)
ExtendsHead(t, b, u) == Entries(u) = Entries(t) \cup {b} /\ u.canonical_tip = b

(* A valid block on top of the tip becomes the tip: it cannot be known     *)
(* already, for it would have been heavier than the tip.                   *)
LEMMA HeadExtends ==
    ASSUME PositiveStakes, NEW t, TreeGood(t), WeightsAdd(t),
           NEW b \in Blocks, ValidationResult(b, t.canonical_tip) = "Ok"
    PROVE  ExtendsHead(t, b, insert(t, b, StakeOf[b][b]))
<1> DEFINE E == Entries(t)
           tip == t.canonical_tip
           f == t.finalized_hash
           s == StakeOf[b][b]
<1>1. /\ HeightOf[b] = HeightOf[tip] + 1 /\ PrevHash[b] = tip /\ b \in Valid
  BY ValidFacts
<1>2. s \in Nat /\ s > 0
  BY <1>1, ChainAssumption DEF PositiveStakes
<1>3. /\ E \in SUBSET Blocks /\ t.weight \in [E -> Nat] /\ tip \in E
      /\ t.finalized_height = HeightOf[f]
      /\ \A x \in E : t.weight[x] <= t.weight[tip]
      /\ is_descendant_of(E, tip, f)
  BY ZenonT(30) DEF TreeGood, TreeTyped, is_on_canonical_chain
<1>4. HeightOf[f] \in Nat /\ HeightOf[tip] \in Nat /\ HeightOf[f] <= HeightOf[tip]
  BY <1>3, WalkNotHigher
<1>5. b # Genesis
  BY <1>1, <1>4, BlocksAssumption
<1>6. b \notin E
  <2> SUFFICES ASSUME b \in E PROVE FALSE
    OBVIOUS
  <2>1. t.weight[b] = t.weight[tip] + s
    BY <1>1, <1>5 DEF WeightsAdd
  <2>2. t.weight[b] <= t.weight[tip] /\ t.weight[tip] \in Nat
    BY <1>3
  <2> QED
    BY <1>2, <2>1, <2>2
<1>7. InsertResult(t, b) = "inserted"
  <2>1. ~(HeightOf[b] <= t.finalized_height)
    BY <1>1, <1>3, <1>4
  <2> QED
    BY <1>1, <1>3, <1>6, <2>1 DEF InsertResult
<1>8. PICK u : u = insert(t, b, s)
  BY ZenonT(30)
<1>9. /\ Entries(u) = E \cup {b}
      /\ u.canonical_tip = IF t.weight[PrevHash[b]] + s > t.weight[tip] THEN b ELSE tip
  <2>1. Inserted(t, b, s, u)
    BY <1>2, <1>7, <1>8, InsertFacts, ZenonT(30)
  <2> QED
    BY <2>1, ZenonT(30) DEF Inserted
<1>10. t.weight[PrevHash[b]] + s > t.weight[tip]
  <2>1. t.weight[tip] \in Nat
    BY <1>3, ZenonT(30)
  <2> QED
    BY <1>1, <1>2, <2>1, HeightOrder, ZenonT(30)
<1> QED
  BY <1>8, <1>9, <1>10, ZenonT(30) DEF ExtendsHead

(* Two descendants of the finalized block have a common ancestor that is   *)
(* not below it.                                                           *)
LEMMA CommonAncestorAbove ==
    ASSUME NEW t, TreeGood(t), NEW x, NEW y, NEW f,
           is_descendant_of(Entries(t), x, f), is_descendant_of(Entries(t), y, f)
    PROVE  \E a \in CommonAncestors(Entries(t), x, y) : HeightOf[a] >= HeightOf[f]
<1> DEFINE E == Entries(t)
           C == Lineage(E, x) \cap Lineage(E, y)
           D == {HeightOf[x] - HeightOf[a] : a \in C}
<1>1. E \in SUBSET Blocks
  BY ZenonT(30) DEF TreeGood, TreeTyped
<1>2. f \in C
  BY <1>1, WalkInEntries DEF Lineage
<1>3. ASSUME NEW a \in C
      PROVE  /\ is_descendant_of(E, x, a) /\ is_descendant_of(E, y, a)
             /\ HeightOf[a] \in Nat /\ HeightOf[x] \in Nat /\ HeightOf[a] <= HeightOf[x]
  BY WalkNotHigher DEF Lineage
<1>4. D \in SUBSET Nat /\ D # {}
  BY <1>2, <1>3
<1>5. PICK a \in C : \A c \in C : HeightOf[x] - HeightOf[a] <= HeightOf[x] - HeightOf[c]
  <2>1. PICK m \in D : \A y1 \in D : m <= y1
    <3> HIDE DEF D
    <3> QED
      BY <1>4, LeastNat
  <2> QED
    BY <2>1, ZenonT(30)
<1>6. ASSUME NEW c \in C PROVE is_descendant_of(E, a, c) /\ HeightOf[a] >= HeightOf[c]
  <2>1. HeightOf[a] >= HeightOf[c] /\ HeightOf[a] \in Nat /\ HeightOf[c] \in Nat
    <3>1. /\ HeightOf[a] \in Nat /\ HeightOf[c] \in Nat /\ HeightOf[x] \in Nat
          /\ HeightOf[x] - HeightOf[a] <= HeightOf[x] - HeightOf[c]
      BY <1>3, <1>5, ZenonT(30)
    <3> QED
      BY <3>1, HeightOrder, ZenonT(30)
  <2>2. is_descendant_of(E, a, c) \/ is_descendant_of(E, c, a)
    BY <1>1, <1>3, WalkIsAChain
  <2>3. CASE is_descendant_of(E, c, a)
    <3>1. c = a
      <4>1. Linked(E)
        BY ZenonT(30) DEF TreeGood
      <4>2. c = a \/ HeightOf[a] < HeightOf[c]
        BY <1>1, <2>3, <4>1, WalkDescends, ZenonT(30)
      <4> QED
        BY <2>1, <4>2, HeightOrder
    <3> QED
      BY <2>1, <2>3, <3>1, ZenonT(30)
  <2> QED
    BY <2>1, <2>2, <2>3
<1>7. a \in CommonAncestors(E, x, y)
  BY <1>6 DEF CommonAncestors
<1> QED
  BY <1>2, <1>6, <1>7

(* When a block beside the head becomes the tip, insert reports it, and    *)
(* the guards of the reorg let it through.                                 *)
LEMMA ForkTip ==
    ASSUME PositiveStakes, NEW t, TreeGood(t), WeightsAdd(t), NEW b \in Valid,
           PrevHash[b] # t.canonical_tip, NEW u, u = insert(t, b, StakeOf[b][b]),
           u.canonical_tip # t.canonical_tip
    PROVE  TipChanged(t, b, StakeOf[b][b])
<1> DEFINE tip == t.canonical_tip
           s == StakeOf[b][b]
<1>0. b \in Blocks /\ s \in Nat
  BY ChainAssumption
<1>1. InsertResult(t, b) = "inserted"
  BY DEF insert
<1>2. /\ b \notin Entries(t) /\ Entries(u) = Entries(t) \cup {b}
      /\ PrevHash[b] \in Entries(t) /\ u.weight = AddEntry(t, b, s)
      /\ u.canonical_tip = b
  <2>1. /\ b \notin Entries(t) /\ Entries(u) = Entries(t) \cup {b}
        /\ PrevHash[b] \in Entries(t) /\ u.weight = AddEntry(t, b, s)
        /\ u.canonical_tip = IF t.weight[PrevHash[b]] + s > t.weight[tip] THEN b ELSE tip
    <3>1. Inserted(t, b, s, u)
      BY <1>0, <1>1, InsertFacts, ZenonT(30)
    <3> QED
      BY <3>1, ZenonT(30) DEF Inserted
  <2> QED
    BY <2>1, ZenonT(30)
<1>3. TreeGood(u) /\ WeightsAdd(u)
  BY <1>0, InsertGood, InsertWeights, ZenonT(30)
<1>4. /\ tip \in Entries(t) /\ t.weight \in [Entries(t) -> Nat]
      /\ t.weight[PrevHash[b]] <= t.weight[tip]
      /\ Entries(u) \in SUBSET Blocks
  BY <1>2, <1>3, ZenonT(30) DEF TreeGood, TreeTyped
<1>5. u.weight[PrevHash[b]] = t.weight[PrevHash[b]] /\ u.weight[tip] = t.weight[tip]
  BY <1>2, <1>4, ZenonT(30) DEF AddEntry
<1>6. ASSUME is_descendant_of(Entries(u), b, tip) PROVE FALSE
  <2>1. is_descendant_of(Entries(u), PrevHash[b], tip)
    BY <1>2, <1>4, <1>6, WalkUnfold, ZenonT(30)
  <2>2. u.weight[tip] < u.weight[PrevHash[b]]
    BY <1>3, <2>1, WalkLighter, ZenonT(30)
  <2>3. t.weight[tip] \in Nat /\ t.weight[PrevHash[b]] \in Nat
    BY <1>2, <1>4
  <2> QED
    BY <1>4, <1>5, <2>2, <2>3
<1> QED
  BY <1>2, <1>6 DEF TipChanged

(* What a running node keeps: the head of the cursor is the tip of the     *)
(* tree, the cursor is the walk below it, and tree and tracker have the    *)
(* same finalized block.                                                   *)
SameFinality(n) ==
    /\ n.tracker.finalized_height = n.tree.finalized_height
    /\ IF n.tracker.finalized_hash = NoBlock
       THEN n.tracker.finalized_height = 0
       ELSE n.tree.finalized_hash = n.tracker.finalized_hash

CursorOnTree(n) ==
    \A i \in 1..Len(n.chain) :
        is_descendant_of(Entries(n.tree), n.tree.canonical_tip, n.chain[i])

RecordsGood(n) ==
    /\ WeightsAdd(n.tree)
    /\ latest_block(n) = n.tree.canonical_tip
    /\ CursorOnTree(n)
    /\ SameFinality(n)

(* What became final stays below the finalized block, and the finalized    *)
(* height does not fall.                                                   *)
FinalityGrows(n, m) ==
    /\ n.tracker.finalized_height <= m.tracker.finalized_height
    /\ \A a : is_descendant_of(Entries(n.tree), n.tree.finalized_hash, a)
              => is_descendant_of(Entries(m.tree), m.tree.finalized_hash, a)

(* A new chain. *)
LEMMA NewChainRecords == RecordsGood(new_chain)
<1> DEFINE n == new_chain
<1>1. /\ n.tree = from_genesis /\ n.chain = <<Genesis>>
      /\ n.tracker.finalized_height = 0 /\ n.tracker.finalized_hash = NoBlock
  BY DEF new_chain, with_finalized
<1>2. /\ Entries(from_genesis) = {Genesis} /\ from_genesis.canonical_tip = Genesis
      /\ from_genesis.finalized_height = 0
  BY DEF from_genesis, Entries
<1>3. is_descendant_of({Genesis}, Genesis, Genesis)
  BY WalkReflexive, BlocksAssumption
<1> HIDE DEF n
<1>4. CursorOnTree(n)
  BY <1>1, <1>2, <1>3 DEF CursorOnTree
<1> QED
  BY <1>1, <1>2, <1>4 DEF RecordsGood, WeightsAdd, SameFinality, latest_block, n

(* insert leaves what is final where it was. *)
LEMMA InsertFinality ==
    ASSUME NEW t, TreeGood(t), NEW b \in Blocks, NEW s \in Nat,
           NEW d, NEW a, is_descendant_of(Entries(t), d, a)
    PROVE  is_descendant_of(Entries(insert(t, b, s)), d, a)
<1> SUFFICES ASSUME NEW u, u = insert(t, b, s) PROVE is_descendant_of(Entries(u), d, a)
  OBVIOUS
<1>1. CASE InsertResult(t, b) # "inserted"
  BY <1>1 DEF insert
<1>2. CASE InsertResult(t, b) = "inserted"
  <2>1. Entries(u) = Entries(t) \cup {b} /\ Entries(t) \in SUBSET Blocks
    <3>1. Inserted(t, b, s, u)
      BY <1>2, InsertFacts, ZenonT(30)
    <3> QED
      BY <3>1, ZenonT(30) DEF Inserted, TreeGood, TreeTyped
  <2> QED
    BY <2>1, WalkGrows
<1> QED
  BY <1>1, <1>2

(* add_block keeps the records together. *)
LEMMA AddBlockRecords ==
    ASSUME PositiveStakes, NEW n, NodeGood(n), RecordsGood(n), NEW b \in Blocks
    PROVE  RecordsGood(add_block(n, b)) /\ FinalityGrows(n, add_block(n, b))
<1> SUFFICES ASSUME NEW m, AddedBlock(n, b, m), NodeGood(m)
             PROVE  RecordsGood(m) /\ FinalityGrows(n, m)
  BY AddBlockFacts, AddBlockGood, ZenonT(30) DEF NodeGood
<1>0. n.tracker.finalized_height \in Nat
  BY ZenonT(30) DEF NodeGood, FinalityOK
<1>1. CASE ValidationResult(b, latest_block(n)) # "Ok"
  <2>1. m.tree = n.tree /\ m.chain = n.chain /\ m.tracker = n.tracker
    BY <1>1, ZenonT(30) DEF AddedBlock
  <2>2. CursorOnTree(m) /\ SameFinality(m)
    BY <2>1, ZenonT(30) DEF RecordsGood, CursorOnTree, SameFinality
  <2>3. FinalityGrows(n, m)
    BY <1>0, <2>1, HeightOrder, ZenonT(30) DEF FinalityGrows
  <2> QED
    BY <2>1, <2>2, <2>3, ZenonT(30) DEF RecordsGood, latest_block
<1>2. CASE ValidationResult(b, latest_block(n)) = "Ok"
  <2> DEFINE t == n.tree
             k == Len(n.chain)
  <2>1. PICK u : u = insert(t, b, StakeOf[b][b])
    OBVIOUS
  <2>2. /\ m.tree = u /\ m.chain = Append(n.chain, b) /\ m.tracker = n.tracker
    BY <1>2, <2>1, ZenonT(30) DEF AddedBlock
  <2>3. /\ TreeGood(t) /\ WeightsAdd(t) /\ latest_block(n) = t.canonical_tip
        /\ Headers(n.chain) /\ TreeGood(u)
    BY <2>2, ZenonT(30) DEF NodeGood, RecordsGood
  <2>4. /\ HeightOf[b] = HeightOf[t.canonical_tip] + 1 /\ PrevHash[b] = t.canonical_tip
        /\ b \in Valid /\ StakeOf[b][b] \in Nat
    BY <1>2, <2>3, ValidFacts, ChainAssumption, ZenonT(90)
  <2>5. Entries(u) = Entries(t) \cup {b} /\ u.canonical_tip = b
    <3>1. ExtendsHead(t, b, insert(t, b, StakeOf[b][b]))
      BY <1>2, <2>3, HeadExtends, ZenonT(30)
    <3> QED
      BY <2>1, <3>1, ZenonT(30) DEF ExtendsHead
  <2>6. WeightsAdd(u)
    BY <2>1, <2>3, <2>4, InsertWeights, ZenonT(30)
  <2>7. /\ k \in Nat /\ Len(m.chain) = k + 1 /\ m.chain[k + 1] = b
        /\ \A i \in 1..k : m.chain[i] = n.chain[i]
    <3>1. n.chain[Len(n.chain)] = t.canonical_tip /\ k \in Nat
      BY <2>3, HeadersLength, ZenonT(30) DEF latest_block
    <3> QED
      <4>1. Appended(n.chain, b, Append(n.chain, b))
        BY <2>3, <2>4, <3>1, AppendHeaders, ZenonT(30)
      <4> QED
        BY <2>2, <3>1, <4>1, ZenonT(30) DEF Appended
  <2>8. \A d, a : is_descendant_of(Entries(t), d, a) => is_descendant_of(Entries(u), d, a)
    <3>1. \A d, a : is_descendant_of(Entries(t), d, a)
                    => is_descendant_of(Entries(insert(t, b, StakeOf[b][b])), d, a)
      BY <2>3, <2>4, InsertFinality, ZenonT(30)
    <3> QED
      BY <2>1, <3>1, ZenonT(30)
  <2>9. /\ Entries(u) \in SUBSET Blocks /\ b \in Entries(u) /\ t.canonical_tip \in Entries(u)
    BY <2>3, <2>5, ZenonT(30) DEF TreeGood, TreeTyped
  <2>10. is_descendant_of(Entries(u), b, t.canonical_tip)
    <3>1. is_descendant_of(Entries(u), b, b) /\ HeightOf[b] # 0
      BY <2>4, <2>9, WalkReflexive, BlocksAssumption
    <3> QED
      BY <2>4, <2>9, <3>1, WalkToParent, ZenonT(30)
  <2>11. CursorOnTree(m)
    <3> SUFFICES ASSUME NEW i \in 1..(k + 1)
                 PROVE  is_descendant_of(Entries(u), b, m.chain[i])
      BY <2>2, <2>5, <2>7, ZenonT(30) DEF CursorOnTree
    <3>1. CASE i = k + 1
      BY <2>7, <2>9, <3>1, WalkReflexive
    <3>2. CASE i \in 1..k
      <4>1. is_descendant_of(Entries(u), t.canonical_tip, m.chain[i])
        BY <2>7, <2>8, <3>2 DEF RecordsGood, CursorOnTree
      <4> QED
        BY <2>9, <2>10, <4>1, WalkTransitive
    <3> QED
      BY <2>7, <3>1, <3>2
  <2>12. u.finalized_height = t.finalized_height /\ u.finalized_hash = t.finalized_hash
    <3>1. SameFinal(t, insert(t, b, StakeOf[b][b]))
      BY InsertKeepsFinality, ZenonT(30)
    <3> QED
      BY <2>1, <3>1, ZenonT(30) DEF SameFinal
  <2>13. SameFinality(m) /\ FinalityGrows(n, m)
    <3>1. SameFinality(m)
      BY <2>2, <2>12, ZenonT(30) DEF RecordsGood, SameFinality
    <3>2. FinalityGrows(n, m)
      BY <1>0, <2>2, <2>8, <2>12, HeightOrder, ZenonT(30) DEF FinalityGrows
    <3> QED
      BY <3>1, <3>2
  <2>14. latest_block(m) = m.tree.canonical_tip
    BY <2>2, <2>5, <2>7 DEF latest_block
  <2> QED
    BY <2>2, <2>6, <2>11, <2>13, <2>14 DEF RecordsGood
<1> QED
  BY <1>1, <1>2

(* The guards of the reorg hold in the tree fork choice just grew. *)
LEMMA ReorgIsAllowed ==
    ASSUME NEW n, NodeGood(n), RecordsGood(n), NEW b \in Blocks, NEW u, NEW k,
           u = insert(n.tree, b, StakeOf[b][b]), k = [n EXCEPT !.tree = u]
    PROVE  ReorgAllowed(k)
<1> DEFINE f == n.tree.finalized_hash
           E == Entries(u)
           tip == u.canonical_tip
<1>1. /\ TreeGood(n.tree) /\ TreeGood(u) /\ u.finalized_hash = f
      /\ n.tracker.finalized_height = HeightOf[f]
  <2>1. TreeGood(n.tree) /\ StakeOf[b][b] \in Nat
    BY ChainAssumption DEF NodeGood
  <2>2. TreeGood(u)
    BY <2>1, InsertGood
  <2>3. n.tracker.finalized_height = HeightOf[f]
    BY <2>1 DEF RecordsGood, SameFinality, TreeGood, TreeTyped
  <2> QED
    BY <2>1, <2>2, <2>3, InsertKeepsFinality DEF SameFinal
<1>2. k.tree = u /\ k.tracker = n.tracker /\ k.chain = n.chain
  BY DEF NodeGood, NodeShape
<1>3. is_descendant_of(E, tip, f)
  BY <1>1 DEF TreeGood, is_on_canonical_chain
<1>4. is_descendant_of(E, latest_block(n), f)
  <2>1. is_descendant_of(Entries(n.tree), latest_block(n), f)
    BY <1>1 DEF RecordsGood, TreeGood, is_on_canonical_chain
  <2> QED
    BY <1>1, <2>1, InsertFinality, ChainAssumption
<1>5. HeightOf[tip] >= HeightOf[f] /\ HeightOf[f] \in Nat
  BY <1>1, <1>3, WalkNotHigher
<1>6. \E a \in CommonAncestors(E, latest_block(n), tip) : HeightOf[a] >= HeightOf[f]
  BY <1>1, <1>3, <1>4, CommonAncestorAbove
<1>7. HeightOf[f] > 0 => n.tracker.finalized_hash = f
  BY <1>1, <1>5 DEF RecordsGood, SameFinality
<1>8. latest_block(k) = latest_block(n)
  BY <1>2 DEF latest_block
<1> HIDE DEF E, tip, f
<1> QED
  BY <1>1, <1>2, <1>3, <1>5, <1>6, <1>7, <1>8 DEF ReorgAllowed, E, tip

(* Fork choice keeps the records together: when the tip moves, so does the *)
(* cursor.                                                                 *)
LEMMA ForkChoiceRecords ==
    ASSUME PositiveStakes, NEW n, NodeGood(n), RecordsGood(n), NEW b \in Blocks
    PROVE  /\ RecordsGood(add_block_with_fork_choice(n, b))
           /\ FinalityGrows(n, add_block_with_fork_choice(n, b))
<1>0. n.tracker.finalized_height \in Nat
  BY DEF NodeGood, FinalityOK
<1>1. FinalityGrows(n, n)
  BY <1>0 DEF FinalityGrows
<1> SUFFICES ASSUME NEW m, ForkStep(n, b, m) PROVE RecordsGood(m) /\ FinalityGrows(n, m)
  BY <1>1, AddBlockRecords, ForkChoiceFacts, ZenonT(30) DEF NodeGood
<1> DEFINE t == n.tree
<1>2. PICK u : u = insert(t, b, StakeOf[b][b])
  BY ZenonT(30)
<1>3. PICK k : k = [n EXCEPT !.tree = u]
  BY ZenonT(30)
<1>4. /\ m.tree = u /\ m.tracker = n.tracker
      /\ PrevHash[b] # latest_block(n) /\ ValidationResult(b, PrevHash[b]) = "Ok"
      /\ \/ TipChanged(t, b, StakeOf[b][b]) /\ m.chain = canonical_chain(u)
         \/ /\ m.chain = n.chain
            /\ TipChanged(t, b, StakeOf[b][b]) => ~ReorgAllowed(k)
  <2>1. k = [n EXCEPT !.tree = insert(t, b, StakeOf[b][b])]
    BY <1>2, <1>3, ZenonT(30)
  <2> QED
    BY <1>2, <2>1, ZenonT(30) DEF ForkStep
<1>5. ReorgAllowed(k)
  BY <1>2, <1>3, ReorgIsAllowed
<1>6. /\ TreeGood(t) /\ WeightsAdd(t) /\ latest_block(n) = t.canonical_tip
  BY ZenonT(30) DEF NodeGood, RecordsGood
<1>7. b \in Valid /\ StakeOf[b][b] \in Nat
  BY <1>4, ValidBlock, ZenonT(30)
<1>8. TreeGood(u) /\ WeightsAdd(u)
  BY <1>2, <1>6, <1>7, InsertGood, InsertWeights, ZenonT(30)
<1>9. \A d, a : is_descendant_of(Entries(t), d, a) => is_descendant_of(Entries(u), d, a)
  <2>1. \A d, a : is_descendant_of(Entries(t), d, a)
                  => is_descendant_of(Entries(insert(t, b, StakeOf[b][b])), d, a)
    BY <1>6, <1>7, InsertFinality, ZenonT(30)
  <2> QED
    BY <1>2, <2>1, ZenonT(30)
<1>10. u.finalized_height = t.finalized_height /\ u.finalized_hash = t.finalized_hash
  <2>1. SameFinal(t, insert(t, b, StakeOf[b][b]))
    BY InsertKeepsFinality, ZenonT(30)
  <2> QED
    BY <1>2, <2>1, ZenonT(30) DEF SameFinal
<1>11. SameFinality(m) /\ FinalityGrows(n, m)
  <2>1. SameFinality(n)
    BY DEF RecordsGood
  <2>2. SameFinality(m)
    BY <1>4, <1>10, <2>1, ZenonT(30) DEF SameFinality
  <2> QED
    BY <1>0, <1>4, <1>9, <1>10, <2>2, HeightOrder, ZenonT(30) DEF FinalityGrows
<1>12. CASE m.chain = canonical_chain(u)
  <2>1. PICK c : c = canonical_chain(u)
    OBVIOUS
  <2>2. /\ c[Len(c)] = u.canonical_tip
        /\ \A i \in 1..Len(c) : is_descendant_of(Entries(u), u.canonical_tip, c[i])
    BY <1>8, <2>1, CanonicalChain, ZenonT(30)
  <2> QED
    BY <1>4, <1>8, <1>11, <1>12, <2>1, <2>2, ZenonT(30) DEF RecordsGood, CursorOnTree, latest_block
<1>13. CASE m.chain = n.chain /\ ~TipChanged(t, b, StakeOf[b][b])
  <2>1. u.canonical_tip = t.canonical_tip
    BY <1>2, <1>4, <1>6, <1>7, <1>13, ForkTip, ZenonT(30)
  <2>2. CursorOnTree(m)
    BY <1>4, <1>9, <1>13, <2>1, ZenonT(30) DEF RecordsGood, CursorOnTree
  <2>3. latest_block(m) = m.tree.canonical_tip
    BY <1>4, <1>6, <1>13, <2>1, ZenonT(30) DEF latest_block
  <2> QED
    BY <1>4, <1>8, <1>11, <2>2, <2>3, ZenonT(30) DEF RecordsGood
<1> QED
  BY <1>4, <1>5, <1>12, <1>13, ZenonT(30)

(* A vote that finalizes moves tree and tracker to the same block, and     *)
(* prunes nothing below the tip.                                           *)
LEMMA VoteRecords ==
    ASSUME NEW n, NodeGood(n), RecordsGood(n), NEW vote
    PROVE  /\ RecordsGood(add_finality_vote(n, vote))
           /\ FinalityGrows(n, add_finality_vote(n, vote))
<1>0. n.tracker.finalized_height \in Nat
  BY DEF NodeGood, FinalityOK
<1>1. FinalityGrows(n, n)
  BY <1>0 DEF FinalityGrows
<1> SUFFICES ASSUME NEW m, VoteStep(n, vote, m) PROVE RecordsGood(m) /\ FinalityGrows(n, m)
  BY <1>1, VoteFacts, ZenonT(30) DEF NodeGood
<1> DEFINE e == EpochOf(vote.block_height)
           b == vote.block_hash
           t == n.tree
<1>2. /\ b \in Blocks /\ HeightOf[b] = vote.block_height /\ is_on_canonical_chain(t, b)
      /\ m.chain = n.chain /\ m.tracker = add_vote(n.tracker, vote, e)
  BY ZenonT(30) DEF VoteStep, NodeGood, TreeGood, TreeTyped
<1>3. TreeGood(t) /\ WeightsAdd(t)
  BY DEF NodeGood, RecordsGood
<1>4. CASE ~Finalizes(n.tracker, vote, e)
  <2>1. /\ m.tracker.finalized_height = n.tracker.finalized_height
        /\ m.tracker.finalized_hash = n.tracker.finalized_hash
    <3>1. /\ add_vote(n.tracker, vote, e).finalized_height = n.tracker.finalized_height
          /\ add_vote(n.tracker, vote, e).finalized_hash = n.tracker.finalized_hash
      BY <1>4, AddVoteKeeps, ZenonT(90)
    <3> QED
      BY <1>2, <3>1, ZenonT(30)
  <2>2. m.tree = t
    BY <1>4, ZenonT(30) DEF VoteStep
  <2>3. n.tracker.finalized_height <= m.tracker.finalized_height
    BY <1>0, <2>1
  <2>4. FinalityGrows(n, m)
    BY <2>2, <2>3, ZenonT(30) DEF FinalityGrows
  <2>5. CursorOnTree(m) /\ latest_block(m) = m.tree.canonical_tip
    BY <1>2, <2>2, ZenonT(30) DEF RecordsGood, CursorOnTree, latest_block
  <2>6. SameFinality(m)
    BY <2>1, <2>2, ZenonT(30) DEF RecordsGood, SameFinality
  <2> QED
    BY <1>3, <2>2, <2>4, <2>5, <2>6, ZenonT(30) DEF RecordsGood
<1>5. CASE Finalizes(n.tracker, vote, e)
  <2>1. /\ HeightOf[b] > n.tracker.finalized_height
        /\ m.tracker.finalized_height = HeightOf[b] /\ m.tracker.finalized_hash = b
    <3>1. /\ vote.block_height > n.tracker.finalized_height
          /\ add_vote(n.tracker, vote, e).finalized_height = HeightOf[b]
          /\ add_vote(n.tracker, vote, e).finalized_hash = b
      BY <1>5, AddVoteFinalizes, ZenonT(30)
    <3> QED
      BY <1>2, <3>1, ZenonT(30)
  <2>2. HeightOf[b] > t.finalized_height /\ HeightOf[b] \in Nat
    BY <1>2, <2>1, BlocksAssumption, ZenonT(30) DEF RecordsGood, SameFinality
  <2>3. PICK u : u = set_finalized(t, b, HeightOf[b])
    BY ZenonT(30)
  <2>4. m.tree = u
    BY <1>5, <2>3, ZenonT(30) DEF VoteStep
  <2>5. /\ b \in Entries(t) /\ Entries(u) = Kept(Entries(t), b)
        /\ u.canonical_tip = t.canonical_tip
        /\ u.finalized_hash = b /\ u.finalized_height = HeightOf[b]
    <3> HIDE DEF b, t
    <3>1. /\ TreeGood(t) /\ b \in Blocks /\ is_on_canonical_chain(t, b)
          /\ HeightOf[b] > t.finalized_height
      BY <1>2, <1>3, <2>2, ZenonT(30)
    <3> QED
      BY <2>3, <3>1, FinalizeFacts
  <2>6. WeightsAdd(u)
    BY <1>2, <1>3, <2>2, <2>3, FinalizeWeights, ZenonT(30)
  <2>7. /\ Entries(t) \in SUBSET Blocks /\ t.canonical_tip \in Kept(Entries(t), b)
        /\ b \in Kept(Entries(t), b)
    BY <1>2, <1>3, <2>5, ZenonT(30) DEF TreeGood, TreeTyped, Kept, is_on_canonical_chain
  <2>8. \A a : \A d \in {t.canonical_tip, b} :
            is_descendant_of(Entries(t), d, a) => is_descendant_of(Entries(u), d, a)
    BY <2>5, <2>7, WalkSurvivesPrune, ZenonT(30)
  <2>9. CursorOnTree(m)
    BY <1>2, <2>4, <2>5, <2>8, ZenonT(30) DEF RecordsGood, CursorOnTree
  <2>10. SameFinality(m)
    BY <1>2, <2>1, <2>4, <2>5, EpochAssumption, ZenonT(30) DEF SameFinality
  <2>11. FinalityGrows(n, m)
    <3>1. is_descendant_of(Entries(t), b, t.finalized_hash)
      BY <1>2, <1>3, <2>2, NextFinalizedDescends, ZenonT(30)
    <3>2. ASSUME NEW a, is_descendant_of(Entries(t), t.finalized_hash, a)
          PROVE  is_descendant_of(Entries(u), b, a)
      BY <2>7, <2>8, <3>1, <3>2, WalkTransitive, ZenonT(30)
    <3>3. n.tracker.finalized_height <= m.tracker.finalized_height
      BY <1>0, <2>1, <2>2
    <3> QED
      BY <2>4, <2>5, <3>2, <3>3, ZenonT(30) DEF FinalityGrows
  <2>12. latest_block(m) = m.tree.canonical_tip
    BY <1>2, <2>4, <2>5, ZenonT(30) DEF RecordsGood, latest_block
  <2> QED
    BY <2>4, <2>6, <2>9, <2>10, <2>12, <2>11 DEF RecordsGood
<1> QED
  BY <1>4, <1>5

-----------------------------------------------------------------------------
(* handle_new_block is add_block, and then the own vote or fork choice. *)
LEMMA HandleBlockGood ==
    ASSUME NEW n, NodeGood(n), NEW b \in Blocks, NEW v
    PROVE  NodeGood(handle_new_block(n, b, v))
<1>1. PICK k : k = add_block(n, b)
  OBVIOUS
<1>2. NodeGood(k)
  BY <1>1, AddBlockGood
<1>3. handle_new_block(n, b, v) \in
          {k, add_finality_vote(k, VoteFor(b, v)), add_block_with_fork_choice(k, b)}
  BY <1>1 DEF handle_new_block
<1> QED
  BY <1>2, <1>3, VoteGood, ForkChoiceGood

(* Neither step of handle_new_block parts the records. *)
LEMMA HandleBlockRecords ==
    ASSUME PositiveStakes, NEW n, NodeGood(n), RecordsGood(n), NEW b \in Blocks, NEW v
    PROVE  /\ RecordsGood(handle_new_block(n, b, v))
           /\ FinalityGrows(n, handle_new_block(n, b, v))
<1>1. PICK k : k = add_block(n, b)
  OBVIOUS
<1>2. NodeGood(k) /\ RecordsGood(k) /\ FinalityGrows(n, k)
  BY <1>1, AddBlockGood, AddBlockRecords
<1>3. PICK m : m = handle_new_block(n, b, v)
  OBVIOUS
<1>4. m \in {k, add_finality_vote(k, VoteFor(b, v)), add_block_with_fork_choice(k, b)}
  BY <1>1, <1>3 DEF handle_new_block
<1>5. m = k \/ (NodeGood(m) /\ RecordsGood(m) /\ FinalityGrows(k, m))
  BY <1>2, <1>4, VoteGood, ForkChoiceGood, VoteRecords, ForkChoiceRecords
<1>6. ASSUME NodeGood(m), FinalityGrows(k, m) PROVE FinalityGrows(n, m)
  <2>1. /\ n.tracker.finalized_height \in Nat /\ k.tracker.finalized_height \in Nat
        /\ m.tracker.finalized_height \in Nat
    BY <1>2, <1>6, ZenonT(30) DEF NodeGood, FinalityOK
  <2> QED
    BY <1>2, <1>6, <2>1 DEF FinalityGrows
<1> QED
  BY <1>2, <1>3, <1>5, <1>6
==============================================================================
