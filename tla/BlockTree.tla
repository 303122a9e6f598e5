------------------------------ MODULE BlockTree ------------------------------
(***************************************************************************)
(* The block tree of one node as a state machine: the calls the chain      *)
(* makes on it are insert, with the stake of the block's proposer, and     *)
(* set_finalized, for a block above the finalized height that lies on the  *)
(* canonical chain (Blockchain::add_finality_vote checks both).            *)
(***************************************************************************)
EXTENDS BlockTreeOps

CONSTANT Stakes       \* the proposer stakes that occur

ASSUME StakesAssumption == Stakes \subseteq Nat

VARIABLE tree

TreeInit == tree = from_genesis

(* A rejected block leaves the tree as it is. *)
Insert(b, stake) == tree' = insert(tree, b, stake)

(* Mutant: a block of any height is finalized. *)
SetFinalized_any_height(b) ==
    /\ b \in Entries(tree)
    /\ is_on_canonical_chain(tree, b)
    /\ tree' = set_finalized(tree, b, HeightOf[b])

SetFinalized(b) ==
    /\ b \in Entries(tree)
    /\ is_on_canonical_chain(tree, b)
    /\ HeightOf[b] > tree.finalized_height
    /\ tree' = set_finalized(tree, b, HeightOf[b])

TreeNext == \/ \E b \in Blocks, s \in Stakes : Insert(b, s)
            \/ \E b \in Blocks : SetFinalized(b)

TreeSpec == TreeInit /\ [][TreeNext]_tree

-----------------------------------------------------------------------------
(* Every tree has an entry for its tip, for genesis and for its finalized  *)
(* block, whose recorded height is the one in its header.                  *)
TreeTypeOK ==
    /\ Entries(tree) \subseteq Blocks
    /\ tree.weight \in [Entries(tree) -> Nat]
    /\ {Genesis, tree.canonical_tip, tree.finalized_hash} \subseteq Entries(tree)
    /\ tree.finalized_height = HeightOf[tree.finalized_hash]

(* Fork choice: whatever the order in which forks arrive, and whatever was *)
(* pruned, no block the node knows is heavier than its canonical tip.      *)
HeaviestTip ==
    \A b \in Entries(tree) : tree.weight[b] <= tree.weight[tree.canonical_tip]

(* The canonical chain always runs through the finalized block: neither a  *)
(* heavier fork nor the prune can take the tip off the finalized branch.   *)
FinalizedIsCanonical == is_on_canonical_chain(tree, tree.finalized_hash)

(* No fork of finalized history is kept or accepted: every entry is an     *)
(* ancestor or a descendant of the finalized block.                        *)
NoConflictingBranch ==
    \A b \in Entries(tree) :
        \/ is_descendant_of(Entries(tree), b, tree.finalized_hash)
        \/ is_descendant_of(Entries(tree), tree.finalized_hash, b)

(* Every entry still reaches genesis through entries: the prune never cuts *)
(* a lineage that replay_state_to_tip has to walk.                         *)
LineagesReachGenesis ==
    \A b \in Entries(tree) : is_descendant_of(Entries(tree), b, Genesis)

(* "Finalized blocks cannot be reverted" (the doc of BlockTree): finality  *)
(* only ever moves to a descendant of what was final before.               *)
FinalityOnlyExtends ==
    [][is_descendant_of(Entries(tree'), tree'.finalized_hash,
                        tree.finalized_hash)]_tree

(* The tree implements the finality it promises: with its tip as the head, *)
(* every insert and every set_finalized is a step of FinalizedChain or     *)
(* changes neither.  What it finds by walking the entries it has kept is   *)
(* what the headers of all blocks say: no prune ever lets it adopt a block *)
(* off the finalized branch, or finalize one beside or below it.           *)
Finality == INSTANCE FinalizedChain WITH Line <- HeaderLine,
                                         final <- tree.finalized_hash,
                                         head <- tree.canonical_tip

ImplementsFinality == Finality!Spec
==============================================================================
