---------------------------- MODULE BlockTreeOps ----------------------------
(***************************************************************************)
(* The operations of core/blocktree.rs as operators on a tree value.       *)
(*                                                                         *)
(* A block is named by its hash.  A hash commits to the header, so the     *)
(* parent and the height a header claims are functions of the name.  A     *)
(* tree is a record                                                        *)
(*   weight            the entries: known hash -> cumulative stake weight  *)
(*   canonical_tip     hash of the best tip                                *)
(*   finalized_hash    hash of the latest finalized block                  *)
(*   finalized_height  its height                                          *)
(* The `children' lists of the code are written and never read; they are   *)
(* left out.                                                               *)
(***************************************************************************)
EXTENDS Naturals

CONSTANTS Blocks,     \* the hashes that occur
          Genesis,    \* the hash of the genesis block
          PrevHash,   \* header.prev_hash of each block
          HeightOf    \* header.height of each block

ASSUME BlocksAssumption ==
    /\ Genesis \in Blocks
    /\ PrevHash \in [Blocks -> Blocks]
    /\ HeightOf \in [Blocks -> Nat]
    /\ HeightOf[Genesis] = 0

-----------------------------------------------------------------------------
(* BlockTree::from_genesis *)
from_genesis ==
    [ weight           |-> [b \in {Genesis} |-> 0],
      canonical_tip    |-> Genesis,
      finalized_hash   |-> Genesis,
      finalized_height |-> 0 ]

Entries(t) == DOMAIN t.weight

(* The loop of the code leaves b for its parent while b has an entry and   *)
(* is not at height 0.  A set is closed when the walk cannot leave it.     *)
WalkClosed(E, S) ==
    \A x \in S : (HeightOf[x] # 0 /\ PrevHash[x] \in E) => PrevHash[x] \in S

(* The line of headers below each block: the least closed set around it    *)
(* were every block an entry.  No walk leaves it.                          *)
HeaderLine ==
    [d \in Blocks |->
        {a \in Blocks : \A S \in SUBSET Blocks :
                          (d \in S /\ WalkClosed(Blocks, S)) => a \in S}]

(* is_descendant_of: the walk from d, while it meets entries, meets a.     *)
(* The hashes a walk meets are the least closed set that holds its start.  *)
is_descendant_of(E, d, a) ==
    /\ d \in E
    /\ \A S \in SUBSET (E \cap HeaderLine[d]) :
           (d \in S /\ WalkClosed(E, S)) => a \in S

(* The hashes the walk from d meets: canonical_chain collects them from    *)
(* the tip, and common_ancestor from its first argument.                   *)
Lineage(E, d) == {a \in E : is_descendant_of(E, d, a)}

is_on_canonical_chain(t, b) == is_descendant_of(Entries(t), t.canonical_tip, b)

(* common_ancestor: the first hash of the walk from y that the walk from x *)
(* meets too, or none.                                                     *)
CommonAncestors(E, x, y) ==
    {a \in Lineage(E, x) \cap Lineage(E, y) :
        \A c \in Lineage(E, x) \cap Lineage(E, y) : is_descendant_of(E, a, c)}

-----------------------------------------------------------------------------
(* The checks of insert, in the order of the code. *)
InsertResult(t, b) ==
    IF b \in Entries(t) THEN "known"
    ELSE IF HeightOf[b] <= t.finalized_height /\ b # t.finalized_hash
         THEN "BelowFinalized"
    ELSE IF PrevHash[b] \notin Entries(t) THEN "OrphanBlock"
    ELSE IF HeightOf[b] # HeightOf[PrevHash[b]] + 1 THEN "InvalidHeightLink"
    ELSE IF /\ t.finalized_height > 0
            /\ PrevHash[b] # t.finalized_hash
            /\ ~is_descendant_of(Entries(t), PrevHash[b], t.finalized_hash)
         THEN "BelowFinalized"
    ELSE "inserted"

(* The weight against which a new entry competes; 0 if the tip is unknown. *)
TipWeight(t) == IF t.canonical_tip \in Entries(t)
                THEN t.weight[t.canonical_tip] ELSE 0

(* The weight function with the entry of b added. *)
AddEntry(t, b, stake) ==
    [x \in Entries(t) \cup {b} |->
        IF x = b THEN t.weight[PrevHash[b]] + stake ELSE t.weight[x]]

(* Mutant: the block's own stake competes, not its cumulative weight. *)
insert_own_stake(t, b, stake) ==
    IF InsertResult(t, b) # "inserted" THEN t
    ELSE [t EXCEPT !.weight = AddEntry(t, b, stake),
                   !.canonical_tip = IF stake > TipWeight(t) THEN b ELSE @]

(* insert: the tree after the call.  Only a strictly heavier block becomes *)
(* the canonical tip.                                                      *)
insert(t, b, stake) ==
    IF InsertResult(t, b) # "inserted" THEN t
    ELSE [ weight           |-> AddEntry(t, b, stake),
           canonical_tip    |-> IF t.weight[PrevHash[b]] + stake > TipWeight(t)
                                THEN b ELSE t.canonical_tip,
           finalized_hash   |-> t.finalized_hash,
           finalized_height |-> t.finalized_height ]

(* The Ok(true) of insert: the tip moved to a block that does not extend   *)
(* the old tip.                                                            *)
TipChanged(t, b, stake) ==
    LET t2 == insert(t, b, stake) IN
    /\ t2.canonical_tip # t.canonical_tip
    /\ ~is_descendant_of(Entries(t2), t2.canonical_tip, t.canonical_tip)

-----------------------------------------------------------------------------
(* Mutant: the prune goes by height only. *)
Kept_by_height(E, f) ==
    {b \in E : HeightOf[b] >= HeightOf[f] \/ is_descendant_of(E, f, b)}

(* prune_below_finalized keeps what is comparable with the finalized block *)
Kept(E, f) ==
    {b \in E : \/ b = f
               \/ is_descendant_of(E, b, f)
               \/ is_descendant_of(E, f, b)}

(* set_finalized, with the prune that ends it. *)
set_finalized(t, f, h) ==
    [ weight           |-> IF h = 0 THEN t.weight
                           ELSE [b \in Kept(Entries(t), f) |-> t.weight[b]],
      canonical_tip    |-> t.canonical_tip,
      finalized_hash   |-> f,
      finalized_height |-> h ]
=============================================================================
