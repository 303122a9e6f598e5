---------------------------- MODULE StoredChain ----------------------------
(***************************************************************************)
(* A node's chain over its block store: blocks enter by add_block, by a    *)
(* reorganisation and by a state snapshot; each goes through the cursor,   *)
(* the persistence mode and, in live mode, the background writer, while    *)
(* finality prunes history, readers move the cache and the process may     *)
(* stop and start again.  A light client follows the chain's headers       *)
(* through GET /api/headers.                                               *)
(*                                                                         *)
(* mode "Memory" is the chain without storage (self-persisting cursor),    *)
(* "Sync" the offline and test mode, "Async" the live node's.              *)
(***************************************************************************)
EXTENDS BlockStoreOps, StateProofs

CONSTANTS
    Scenarios,          \* what the behaviour may do: the fields of scenario below
    EpochLength,        \* epoch_length: a full state is stored at its multiples
    HeaderLimit,        \* the limit of GET /api/headers
    StateAt(_)          \* the accounts and contracts after a block

Archival == -1          \* prune_keep_blocks = None

VARIABLES
    scenario,   \* [mode, cache, keep, max_height, reorgs, snapshot, light, restarts]
    chain,      \* ghost: the canonical chain the node was given, genesis first
    tree,       \* the canonical chain of the block tree
    cursor,     \* BlockStoreCursor
    disk,       \* redb, or the in-memory backend
    slot,       \* the full state waiting for the worker (its blocks), <<>> if none
    state,      \* the block whose state accounts and contracts hold
    index,      \* block_hash_to_height
    finalized,  \* finality_tracker.finalized_height
    status,     \* "up" or "refused": what with_storage_mode answered
    branches,   \* ghost: branches made so far
    starts,     \* ghost: restarts so far
    client,     \* the light client's headers
    reply       \* the answer of /api/headers under way, <<>> if none

vars == <<scenario, chain, tree, cursor, disk, slot, state, index, finalized,
          status, branches, starts, client, reply>>
light == <<client, reply>>

Cache == scenario.cache
Height == cursor.height_count - 1

----------------------------------------------------------------------------
(* persist_added_block: the table after it. *)
persist_added_block(table, block) ==
    IF scenario.mode = "Sync" THEN put_block(table, block) ELSE table

(* persist_full_state reads every block through the cursor (from_chain) and writes *)
(* them, or leaves them in the worker's slot, where they replace an older state.   *)
persist_full_state(cur, table, waiting) ==
    LET read == iter_blocks(cur, table, Cache)
    IN  [cursor |-> IF scenario.mode = "Memory" THEN cur ELSE read.cursor,
         disk   |-> IF scenario.mode = "Sync" THEN replace_blocks(table, read.blocks) ELSE table,
         slot   |-> IF scenario.mode = "Async" THEN read.blocks ELSE waiting]

(* Mutant: a self-persisting cursor does not write what it appends. *)
appended_never(table, blocks) == table

(* The table after the cursor's appends: only a self-persisting cursor writes it. *)
appended(table, blocks) ==
    IF scenario.mode = "Memory" THEN FoldLeft(put_block, table, blocks) ELSE table

IndexOf(blocks) == [b \in ToSet(blocks) |-> b.height]

(* BlockTree::insert, block after block: what does not extend the tree is an orphan. *)
TreeOf(blocks) ==
    FoldLeft(LAMBDA t, b : IF extends(b, Last(t)) THEN Append(t, b) ELSE t,
             <<blocks[1]>>, Tail(blocks))

----------------------------------------------------------------------------
(* add_block, for a block that extends the tip; latest_block panics when the tip *)
(* cannot be read, and the node does no more.                                    *)
AddBlock ==
    /\ status = "up" /\ Height < scenario.max_height
    /\ LET tip == block_at(cursor, disk, Height, Cache)
           block == [height |-> Height + 1, branch |-> branches, from |-> Last(chain).branch]
           pushed == append(tip.cursor, block, Cache)
           stored == persist_added_block(appended(disk, <<block>>), block)
       IN  /\ tip.block # NoBlock /\ extends(block, tip.block)
           /\ chain' = Append(chain, block)
           /\ tree' = IF extends(block, Last(tree)) THEN Append(tree, block) ELSE tree
           /\ state' = block
           /\ index' = [b \in DOMAIN index \cup {block} |->
                          IF b = block THEN b.height ELSE index[b]]
           /\ IF (Height + 1) % EpochLength = 0
              THEN \E p \in {persist_full_state(pushed, stored, slot)} :
                     cursor' = p.cursor /\ disk' = p.disk /\ slot' = p.slot
              ELSE cursor' = pushed /\ disk' = stored /\ UNCHANGED slot
    /\ UNCHANGED <<scenario, finalized, status, branches, starts, light>>

(* Mutant: the index keeps the hashes of the abandoned branch. *)
rebuild_index_kept(blocks) ==
    [b \in DOMAIN index \cup ToSet(blocks) |-> b.height]

(* The index part of rebuild_canonical_state: cleared and filled anew. *)
rebuild_index(blocks) == IndexOf(blocks)

(* reorg_to_canonical_tip, to a new branch from the block at height base: the blocks *)
(* are replaced first; rebuild_canonical_state then replays what it can read, and an *)
(* error there ends the call with the accounts of the old chain.                     *)
Reorg(base, top) ==
    /\ status = "up" /\ branches < scenario.reorgs
    /\ base >= finalized /\ base < Len(tree) /\ base < top
    /\ LET fork == SubSeq(tree, 1, base + 1)
                   \o [i \in 1..(top - base) |->
                         [height |-> base + i, branch |-> branches + 1,
                          from |-> IF i = 1 THEN tree[base + 1].branch ELSE branches + 1]]
           table == appended(disk, fork)
       IN  \E read \in {iter_blocks(replace_all_blocks(cursor, fork, Cache), table, Cache)} :
             /\ chain' = fork /\ tree' = fork
             /\ index' = rebuild_index(read.blocks)
             /\ IF Linked(read.blocks)
                THEN /\ state' = Last(read.blocks)
                     /\ \E p \in {persist_full_state(read.cursor, table, slot)} :
                          cursor' = p.cursor /\ disk' = p.disk /\ slot' = p.slot
                ELSE cursor' = read.cursor /\ disk' = table /\ UNCHANGED <<state, slot>>
    /\ branches' = branches + 1
    /\ UNCHANGED <<scenario, finalized, status, starts, light>>

(* apply_snapshot of another, longer chain up to its finalized block: it may differ   *)
(* from ours above what we have finalized.  The block tree is read back through the cursor;   *)
(* the block index is left as it is.                                                  *)
ApplySnapshot(base, top) ==
    /\ status = "up" /\ branches < scenario.reorgs
    /\ top <= scenario.snapshot /\ top > Height /\ base >= finalized /\ base < Len(chain)
    /\ LET blocks == SubSeq(chain, 1, base + 1)
                     \o [i \in 1..(top - base) |->
                           [height |-> base + i, branch |-> branches + 1,
                            from |-> IF i = 1 THEN chain[base + 1].branch ELSE branches + 1]]
           table == appended(disk, blocks)
       IN  \E read \in {iter_blocks(replace_all_blocks(cursor, blocks, Cache), table, Cache)} :
             /\ chain' = blocks /\ tree' = TreeOf(read.blocks) /\ state' = Last(blocks)
             /\ \E p \in {persist_full_state(read.cursor, table, slot)} :
                  cursor' = p.cursor /\ disk' = p.disk /\ slot' = p.slot
    /\ finalized' = top
    /\ branches' = branches + 1
    /\ UNCHANGED <<scenario, index, status, starts, light>>

(* maybe_prune_finalized as add_finality_vote calls it. *)
maybe_prune_finalized(height) ==
    IF scenario.keep = Archival \/ height - scenario.keep <= 0
    THEN [cursor |-> cursor, table |-> disk]
    ELSE prune_below(cursor, disk, height - scenario.keep)

Finalize(height) ==
    /\ status = "up" /\ height > finalized /\ height <= Height
    /\ finalized' = height
    /\ \E p \in {maybe_prune_finalized(height)} : cursor' = p.cursor /\ disk' = p.table
    /\ UNCHANGED <<scenario, chain, tree, slot, state, index, status, branches, starts, light>>

(* block_at_height for a peer or an API client: only the cache moves. *)
ReadBlock(height) ==
    /\ status = "up"
    /\ cursor' = block_at(cursor, disk, height, Cache).cursor
    /\ UNCHANGED <<scenario, chain, tree, disk, slot, state, index, finalized,
                   status, branches, starts, light>>

(* The worker stores the full state of its slot. *)
WriteFullState ==
    /\ slot # <<>>
    /\ disk' = replace_blocks(disk, slot) /\ slot' = <<>>
    /\ UNCHANGED <<scenario, chain, tree, cursor, state, index, finalized,
                   status, branches, starts, light>>

(* with_storage_mode over a table: [ok, blocks], the blocks it replays. *)
with_storage_mode(table) ==
    LET opened == new_cursor(table)
        blocks == iter_blocks(opened.cursor, table, Cache).blocks
    IN  IF ~opened.ok THEN [ok |-> FALSE, blocks |-> <<>>]
        ELSE [ok |-> Linked(blocks), blocks |-> blocks]

(* The process stops, what waited for the worker is gone, the finalized height of a *)
(* live node perhaps with it, and it starts again.                                  *)
Restart ==
    /\ scenario.mode # "Memory" /\ starts < scenario.restarts /\ status = "up"
    /\ starts' = starts + 1
    /\ slot' = <<>>
    /\ finalized' \in IF scenario.mode = "Async" THEN 0..finalized ELSE {finalized}
    /\ \E boot \in {with_storage_mode(disk)} :
         IF boot.ok
         THEN /\ status' = "up" /\ chain' = boot.blocks /\ tree' = boot.blocks
              /\ state' = Last(boot.blocks) /\ index' = IndexOf(boot.blocks)
              /\ cursor' = iter_blocks(new_cursor(disk).cursor, disk, Cache).cursor
         ELSE /\ status' = "refused"
              /\ UNCHANGED <<chain, tree, cursor, state, index>>
    /\ UNCHANGED <<scenario, disk, branches, light>>

----------------------------------------------------------------------------
(* The light client (light/mod.rs). *)

StateRoot(block) == compute_at_protocol(StateAt(block).accounts, StateAt(block).contracts, 5)

SignedHeader(block) ==
    [chain_id |-> "ours", header |-> block, state_root |-> StateRoot(block),
     block_hash |-> block, signed |-> block.height > 0]

(* What a faulty channel can make of a header: another chain's, another content under *)
(* its hash, no signature.                                                             *)
Damages == {"chain_id", "header", "signature"}
damaged(h, damage) ==
    CASE damage = "chain_id"  -> [h EXCEPT !.chain_id = "other"]
      [] damage = "header"    -> [h EXCEPT !.header.branch = -2]
      [] damage = "signature" -> [h EXCEPT !.signed = ~@]

(* Mutant: the previous hash of a header is not compared. *)
verify_header_unlinked(headers, h) ==
    /\ h.chain_id = "ours"
    /\ h.header.height = Len(headers)
    /\ h.block_hash = h.header
    /\ IF h.header.height = 0 THEN h.block_hash = Genesis /\ ~h.signed
       ELSE headers # <<>> /\ h.signed

verify_header(headers, h) ==
    /\ h.chain_id = "ours"
    /\ h.header.height = Len(headers)
    /\ h.block_hash = h.header
    /\ IF h.header.height = 0 THEN h.block_hash = Genesis /\ ~h.signed
       ELSE /\ headers # <<>> /\ h.header.from = Last(headers).block_hash.branch
            /\ h.signed

(* sync_headers stops at the first header it refuses and keeps those before it. *)
RECURSIVE sync_headers(_, _)
sync_headers(headers, batch) ==
    IF batch = <<>> \/ ~verify_header(headers, Head(batch)) THEN headers
    ELSE sync_headers(Append(headers, Head(batch)), Tail(batch))

(* Mutant: the reply starts one header late. *)
HeadersFrom_after(from) ==
    LET upper == IF Height < from + HeaderLimit THEN Height ELSE from + HeaderLimit
    IN  read_range(cursor, disk, from + 1, upper, Cache)

(* GET /api/headers?from=N: up to limit + 1 blocks, those that can be read. *)
HeadersFrom(from) ==
    LET upper == IF Height < from + HeaderLimit THEN Height ELSE from + HeaderLimit
    IN  read_range(cursor, disk, from, upper, Cache)

RequestHeaders ==
    /\ scenario.light /\ status = "up" /\ reply = <<>>
    /\ \E read \in {HeadersFrom(Len(client))} :
          /\ read.blocks # <<>>
          /\ reply' = [i \in DOMAIN read.blocks |-> SignedHeader(read.blocks[i])]
          /\ cursor' = read.cursor
    /\ UNCHANGED <<scenario, chain, tree, disk, slot, state, index, finalized,
                   status, branches, starts, client>>

ReceiveHeaders ==
    /\ reply # <<>>
    /\ client' = sync_headers(client, reply) /\ reply' = <<>>
    /\ UNCHANGED <<scenario, chain, tree, cursor, disk, slot, state, index, finalized,
                   status, branches, starts>>

(* The answer arrives with one header damaged. *)
DamageHeader(i, damage) ==
    /\ i \in DOMAIN reply
    /\ client' = sync_headers(client, [reply EXCEPT ![i] = damaged(@, damage)])
    /\ reply' = <<>>
    /\ UNCHANGED <<scenario, chain, tree, cursor, disk, slot, state, index, finalized,
                   status, branches, starts>>

LoseHeaders ==
    /\ reply # <<>> /\ reply' = <<>>
    /\ UNCHANGED <<scenario, chain, tree, cursor, disk, slot, state, index, finalized,
                   status, branches, starts, client>>

----------------------------------------------------------------------------
Init ==
    /\ scenario \in Scenarios
    /\ chain = <<Genesis>> /\ tree = chain /\ state = Genesis
    /\ disk = put_block(EmptyTable, Genesis)
    /\ cursor = new_cursor(disk).cursor
    /\ slot = <<>> /\ index = IndexOf(<<Genesis>>) /\ finalized = 0
    /\ status = "up" /\ branches = 0 /\ starts = 0
    /\ client = <<>> /\ reply = <<>>

Heights == 0..scenario.max_height

Next ==
    \/ AddBlock
    \/ \E base, top \in Heights : Reorg(base, top)
    \/ \E base, top \in 0..scenario.snapshot : ApplySnapshot(base, top)
    \/ \E height \in Heights : Finalize(height)
    \/ \E height \in Heights : ReadBlock(height)
    \/ WriteFullState
    \/ Restart
    \/ RequestHeaders
    \/ ReceiveHeaders
    \/ \E i \in 1..(HeaderLimit + 1), damage \in Damages : DamageHeader(i, damage)
    \/ LoseHeaders

(* The client asks until it has every header: Asked holds again and again, which is     *)
(* weak fairness of RequestHeaders (asking falsifies its guard).  An answer that is      *)
(* asked for again and again gets through undamaged at some time.                        *)
Asked == scenario.light /\ status = "up" => reply # <<>> \/ Len(client) > Height

Spec == Init /\ [][Next]_vars /\ []<>Asked /\ SF_vars(ReceiveHeaders)

----------------------------------------------------------------------------
(* Every height from the prune watermark to the head reads as the block the chain was *)
(* given there, whatever was evicted, reorganised, stored or reloaded: block_at answers *)
(* None only for "pruned (below base_height) or ... above the head".                  *)
OnlyPrunedIsMissing ==
    status = "up" =>
      /\ Height = Len(chain) - 1
      /\ \A h \in cursor.base_height..Height :
           block_at(cursor, disk, h, Cache).block = chain[h + 1]

(* In archival mode a restart always finds a chain it can replay from genesis, and in  *)
(* synchronous mode it finds the chain the node had: no order of put_block, full-state *)
(* writes and reorganisations leaves blocks of two branches or a gap in the table.     *)
RestartFindsTheChain ==
    scenario.keep = Archival /\ scenario.mode # "Memory" =>
      \E boot \in {with_storage_mode(disk)} :
        boot.ok /\ (scenario.mode = "Sync" => boot.blocks = chain)

(* In archival mode accounts, block tree and block index belong to the chain the cursor *)
(* serves: no lookup by hash answers with a block of another branch.  (A snapshot does  *)
(* not rebuild the index, so the index is compared where no snapshot was applied.)      *)
StateFollowsTheBlocks ==
    status = "up" /\ scenario.keep = Archival =>
      /\ state = Last(chain) /\ tree = chain
      /\ scenario.snapshot = 0 => index = IndexOf(chain)

(* What a light client holds is a linked chain of signed headers from genesis, also     *)
(* when a batch mixes with a reorganisation or is damaged half way.                     *)
LightHeadersAreAChain ==
    /\ \A i \in DOMAIN client :
         /\ client[i].block_hash = client[i].header
         /\ client[i].state_root = StateRoot(client[i].header)
    /\ client # <<>> => Linked([i \in DOMAIN client |-> client[i].header])

(* While the node does not reorganise, its light client catches up with every block,    *)
(* although batches are lost, and refused in the middle.                                *)
LightCatchesUp ==
    (scenario.light /\ scenario.reorgs = 0) =>
      \A h \in 0..3 : (Height >= h) ~> (Len(client) > h)

(* Every account and storage proof of the tip's state verifies against the root in the  *)
(* tip's header, and the same path proves nothing else: no other value, and no other    *)
(* position of the tree.                                                                *)
ProofsBindTheState ==
    LET s == StateAt(state)
        account(a) == generate_account_proof(a, s.accounts, s.contracts)
        slots == {<<c, k>> \in (DOMAIN s.contracts) \X (0..3) : k \in DOMAIN s.contracts[c].storage}
        slot_of(e) == generate_storage_proof(e[1], e[2], s.accounts, s.contracts)
        lied(p) == [p EXCEPT !.state = @ + 1, !.leaf_hash = account_leaf_hash(p.address, p.state + 1)]
        values(e) == [slot_of(e) EXCEPT !.value = @ + 1]
    IN  /\ \A a \in DOMAIN s.accounts :
             /\ verify_account_proof(account(a))
             /\ account(a).state_root = StateRoot(state)
             /\ ~verify_account_proof(lied(account(a)))
             /\ \A i \in (0..(Cardinality(DOMAIN s.accounts) - 1)) \ {account(a).leaf_index} :
                  ~verify_account_proof([account(a) EXCEPT !.leaf_index = i])
        /\ \A e \in slots :
             /\ verify_storage_proof(slot_of(e))
             /\ slot_of(e).state_root = StateRoot(state)
             /\ ~verify_storage_proof(values(e))

(* The tip's state root is no other block's whose state differs, under the v5 Merkle    *)
(* root and under the v6 trie, whatever accounts and contracts share an address.        *)
RootsTellStatesApart ==
    \A i \in DOMAIN chain, version \in {5, 6} :
      LET s == StateAt(chain[i])
          t == StateAt(Last(chain))
      IN  s # t => compute_at_protocol(s.accounts, s.contracts, version)
                     # compute_at_protocol(t.accounts, t.contracts, version)
============================================================================
