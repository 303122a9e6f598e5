------------------------------ MODULE ChainOps ------------------------------
(***************************************************************************)
(* The consensus half of core/chain: how one node's Blockchain ties the    *)
(* block tree, the finality tracker, the canonical block sequence of the   *)
(* cursor and the frozen epochs together, as operators on a node value     *)
(*   tree             block_tree                                           *)
(*   tracker          finality_tracker                                     *)
(*   chain            the blocks of the cursor, genesis first              *)
(*   epoch_snapshots  the epochs whose validator set is frozen             *)
(*   disk             what a restart finds: the blocks, the block whose    *)
(*                    post-state the stored accounts are, and the stored   *)
(*                    finalized height                                     *)
(*                                                                         *)
(* Accounts are abstracted: execution is deterministic, so whether a block *)
(* is valid on top of its parent, and the stake its proposer holds in any  *)
(* post-state, are functions of the blocks.  That the accounts of nodes at *)
(* one head can drift apart is the subject of EpochLedger.                 *)
(***************************************************************************)
EXTENDS FinalityOps

CONSTANTS Valid,          \* blocks that pass validate_block_against_state
          StakeOf,        \* StakeOf[s][b]: stake of b's proposer after block s
          MaxReorgDepth,  \* MAX_REORG_DEPTH
          AsyncPersistence \* the PersistenceMode of a live node

ASSUME ChainAssumption ==
    /\ Valid \subseteq Blocks
    /\ StakeOf \in [Blocks -> [Blocks -> Nat]]
    /\ MaxReorgDepth \in Nat
    /\ AsyncPersistence \in BOOLEAN
    /\ 0 \in DOMAIN EpochStake

height(n) == Len(n.chain) - 1
latest_block(n) == n.chain[Len(n.chain)]

IsBoundary(h) == h > 0 /\ h % EpochLength = 0

(* Blockchain::from_genesis, with the first persist_full_state *)
new_chain ==
    [ tree            |-> from_genesis,
      tracker         |-> with_finalized(0, NoBlock),
      chain           |-> <<Genesis>>,
      epoch_snapshots |-> {0},
      disk            |-> [ chain |-> <<Genesis>>, accounts_at |-> Genesis,
                            finalized_height |-> 0 ] ]

(* persist_full_state *)
persist_full_state(n) ==
    [ n EXCEPT !.disk = [ chain            |-> n.chain,
                          accounts_at      |-> latest_block(n),
                          finalized_height |-> n.tracker.finalized_height ] ]

(* persist_added_block: one put in sync mode, nothing in async mode. *)
persist_added_block(n) ==
    IF AsyncPersistence THEN n ELSE [n EXCEPT !.disk.chain = n.chain]

-----------------------------------------------------------------------------
(* The first failing check of validate_block_against_state. *)
ValidationResult(b, parent) ==
    IF HeightOf[b] # HeightOf[parent] + 1 THEN "InvalidHeight"
    ELSE IF PrevHash[b] # parent THEN "InvalidPrevHash"
    ELSE IF b \notin Valid THEN "Invalid"
    ELSE "Ok"

(* add_block: the epoch of a boundary height is frozen before the block is *)
(* validated; a tree error is ignored.                                     *)
add_block(n, b) ==
    LET frozen == IF IsBoundary(HeightOf[b])
                  THEN [n EXCEPT !.epoch_snapshots = @ \cup {EpochOf(HeightOf[b])}]
                  ELSE n
        added  == persist_added_block(
                    [frozen EXCEPT !.tree  = insert(@, b, StakeOf[b][b]),
                                   !.chain = Append(@, b)])
    IN  IF ValidationResult(b, latest_block(n)) # "Ok" THEN frozen
        ELSE IF IsBoundary(HeightOf[b]) THEN persist_full_state(added)
        ELSE added

-----------------------------------------------------------------------------
(* The blocks of BlockTree::canonical_chain, genesis first. *)
canonical_chain(t) ==
    LET L == Lineage(Entries(t), t.canonical_tip)
    IN  [i \in 1..(HeightOf[t.canonical_tip] + 1) |->
            CHOOSE b \in L : HeightOf[b] = i - 1]

(* The guards of reorg_to_canonical_tip. *)
ReorgAllowed(n) ==
    LET E       == Entries(n.tree)
        new_tip == n.tree.canonical_tip
        final   == n.tracker.finalized_height
    IN  /\ HeightOf[new_tip] >= final
        /\ final > 0 =>
              /\ \E a \in CommonAncestors(E, latest_block(n), new_tip) :
                     HeightOf[a] >= final
              /\ is_descendant_of(E, new_tip, n.tracker.finalized_hash)

(* Mutant: only the genesis epoch is frozen again. *)
rebuild_canonical_state_epoch_0(n, blocks) ==
    [n EXCEPT !.chain = blocks, !.epoch_snapshots = {0}]

(* replace_all_blocks and rebuild_canonical_state: the snapshots of the    *)
(* new chain replace those of the old one.                                 *)
rebuild_canonical_state(n, blocks) ==
    [ n EXCEPT !.chain = blocks,
               !.epoch_snapshots =
                   {0} \cup {EpochOf(h) : h \in {i \in 1..(Len(blocks) - 1) :
                                                     IsBoundary(i)}} ]

(* reorg_to_canonical_tip *)
reorg_to_canonical_tip(n) ==
    IF ~ReorgAllowed(n) THEN n
    ELSE persist_full_state(rebuild_canonical_state(n, canonical_chain(n.tree)))

(* add_block_with_fork_choice: the block enters the tree before the reorg  *)
(* is tried, and stays there when the reorg is refused.                    *)
add_block_with_fork_choice(n, b) ==
    LET stake    == StakeOf[b][b]
        inserted == [n EXCEPT !.tree = insert(@, b, stake)]
    IN  IF /\ height(n) > MaxReorgDepth
           /\ HeightOf[b] < height(n) - MaxReorgDepth THEN n
        ELSE IF PrevHash[b] = latest_block(n) THEN add_block(n, b)
        ELSE IF PrevHash[b] \notin Entries(n.tree) THEN n
        ELSE IF ValidationResult(b, PrevHash[b]) # "Ok" THEN n
        ELSE IF TipChanged(n.tree, b, stake) THEN reorg_to_canonical_tip(inserted)
        ELSE inserted

-----------------------------------------------------------------------------
(* Mutants: the tree does not learn what is final, or the branch of the    *)
(* block is not checked.                                                   *)
add_finality_vote_tracker_only(n, vote) ==
    LET e == EpochOf(vote.block_height)
        b == vote.block_hash
    IN  IF \/ b \notin Entries(n.tree) \/ HeightOf[b] # vote.block_height
           \/ vote.epoch # e \/ ~is_on_canonical_chain(n.tree, b)
           \/ e \notin n.epoch_snapshots THEN n
        ELSE [n EXCEPT !.tracker = add_vote(@, vote, e)]

add_finality_vote_any_branch(n, vote) ==
    LET e == EpochOf(vote.block_height)
        b == vote.block_hash
        voted == [n EXCEPT !.tracker = add_vote(@, vote, e)]
    IN  IF \/ b \notin Entries(n.tree) \/ HeightOf[b] # vote.block_height
           \/ vote.epoch # e \/ e \notin n.epoch_snapshots THEN n
        ELSE IF ~Finalizes(n.tracker, vote, e) THEN voted
        ELSE [voted EXCEPT !.tree = set_finalized(@, b, vote.block_height)]

(* add_finality_vote, with the persist of the new finalized height; block  *)
(* pruning is off (prune_keep_blocks is None).                             *)
add_finality_vote(n, vote) ==
    LET e == EpochOf(vote.block_height)
        b == vote.block_hash
        voted == [n EXCEPT !.tracker = add_vote(@, vote, e)]
    IN  IF \/ b \notin Entries(n.tree)
           \/ HeightOf[b] # vote.block_height
           \/ vote.epoch # e
           \/ ~is_on_canonical_chain(n.tree, b)
           \/ e \notin n.epoch_snapshots THEN n
        ELSE IF ~Finalizes(n.tracker, vote, e) THEN voted
        ELSE [voted EXCEPT !.tree = set_finalized(@, b, vote.block_height),
                           !.disk.finalized_height = vote.block_height]

(* The vote a validator signs for a block. *)
VoteFor(b, v) ==
    [ block_hash |-> b, block_height |-> HeightOf[b],
      epoch |-> EpochOf(HeightOf[b]), voter |-> v, signed |-> TRUE ]

-----------------------------------------------------------------------------
(* NetworkNode::handle_new_block of a node whose key is v: a block that    *)
(* extends the tip gets the node's own vote, any other goes to fork choice *)
(* and gets none.                                                          *)
handle_new_block(n, b, v) ==
    LET result == ValidationResult(b, latest_block(n))
        added  == add_block(n, b)
    IN  IF result = "Ok" THEN add_finality_vote(added, VoteFor(b, v))
        ELSE IF result \in {"InvalidHeight", "InvalidPrevHash"}
             THEN add_block_with_fork_choice(added, b)
        ELSE added

(* The tree rebuilt from stored blocks, in order, with the stakes stored   *)
(* after block s.                                                          *)
stored_tree(chain, s) ==
    LET tree[i \in 0..(Len(chain) - 1)] ==
            IF i = 0 THEN from_genesis
            ELSE insert(tree[i - 1], chain[i + 1], StakeOf[s][chain[i + 1]])
    IN  tree[Len(chain) - 1]

(* with_storage_mode on a stored chain: the tree keeps the finality        *)
(* boundary of genesis; the tracker takes the stored height and the block  *)
(* found there.                                                            *)
restart(n) ==
    LET d    == n.disk
        hash == IF d.finalized_height < Len(d.chain)
                THEN d.chain[d.finalized_height + 1] ELSE NoBlock
    IN  rebuild_canonical_state(
            [ n EXCEPT !.tree    = stored_tree(d.chain, d.accounts_at),
                       !.tracker = with_finalized(d.finalized_height, hash) ],
            d.chain)
=============================================================================
