--------------------------- MODULE BlockStoreOps ---------------------------
(***************************************************************************)
(* The block tables of the node and the cursor that reads them: redb's     *)
(* block table with its height key (storage/mod.rs), the in-memory backend *)
(* (storage/backend.rs) and BlockStoreCursor (core/block_store.rs), the    *)
(* only view the chain has of its own blocks.                              *)
(*                                                                         *)
(* A block is [height, branch, from]: the branch it was made on and the    *)
(* branch of its parent, which stand for its hash and its prev_hash.  A    *)
(* table is [blocks, height]: a function from heights to blocks and the    *)
(* height key.  A cursor is [genesis, cache, height_count, base_height];   *)
(* the cache is a sequence of blocks, the least recently used one first.   *)
(***************************************************************************)
EXTENDS Integers, Sequences, SequencesExt, Functions, FiniteSets

(* The member of a singleton, evaluated once. *)
Sole(S) == CHOOSE x \in S : TRUE

NoBlock == [height |-> -1, branch |-> -1, from |-> -1]
NoHeight == -1

Genesis == [height |-> 0, branch |-> 0, from |-> 0]

(* What validation asks of a block and its predecessor. *)
extends(block, previous) ==
    /\ block.height = previous.height + 1
    /\ block.from = previous.branch

Linked(blocks) ==
    /\ blocks # <<>> /\ blocks[1] = Genesis
    /\ \A i \in 2..Len(blocks) : extends(blocks[i], blocks[i - 1])

----------------------------------------------------------------------------
(* The tables.  redb keeps the height key beside the blocks; the in-memory *)
(* backend answers with its highest key.                                    *)

EmptyTable == [blocks |-> << >>, height |-> NoHeight]

put_block(table, block) ==
    [blocks |-> [h \in DOMAIN table.blocks \cup {block.height} |->
                   IF h = block.height THEN block ELSE table.blocks[h]],
     height |-> block.height]

get_block(table, height) ==
    IF height \in DOMAIN table.blocks THEN table.blocks[height] ELSE NoBlock

(* The range is [0, retain_from): the block of height 0 goes with it. *)
prune_blocks_below(table, retain_from) ==
    [table EXCEPT !.blocks = Restrict(@, {h \in DOMAIN @ : h >= retain_from})]

(* Mutant: the stored height stays when blocks are replaced. *)
replace_blocks_height_kept(table, blocks) ==
    [blocks |-> [h \in {blocks[i].height : i \in DOMAIN blocks} |->
                   CHOOSE b \in ToSet(blocks) : b.height = h],
     height |-> IF table.height = NoHeight THEN Last(blocks).height ELSE table.height]

(* The table is emptied and filled in one transaction, the height key with it. *)
replace_blocks(table, blocks) ==
    [blocks |-> [h \in {blocks[i].height : i \in DOMAIN blocks} |->
                   CHOOSE b \in ToSet(blocks) : b.height = h],
     height |-> IF blocks = <<>> THEN NoHeight ELSE Last(blocks).height]

----------------------------------------------------------------------------
(* The cursor. *)

Cached(cursor, height) == \E i \in DOMAIN cursor.cache : cursor.cache[i].height = height

cache_pop(cache, heights) == SelectSeq(cache, LAMBDA b : b.height \notin heights)

(* LruCache::put: a full cache drops its least recently used block, saved or not. *)
cache_put(cache, block, cache_size) ==
    LET put == Append(cache_pop(cache, {block.height}), block)
    IN  IF Len(put) > cache_size THEN Tail(put) ELSE put

(* BlockStoreCursor::new over a table: [ok, cursor]. *)
new_cursor(table) ==
    LET height_count == IF table.height = NoHeight THEN 1 ELSE table.height + 1
        present == {h \in 1..(height_count - 1) : get_block(table, h) # NoBlock}
    IN  [ok |-> get_block(table, 0) # NoBlock,
         cursor |-> [genesis |-> get_block(table, 0), cache |-> <<>>,
                     height_count |-> height_count,
                     base_height |-> IF present = {} THEN 0
                                     ELSE CHOOSE h \in present : \A g \in present : h <= g]]

(* A read through the cursor: [block, cursor], NoBlock for Ok(None). *)
block_at(cursor, table, height, cache_size) ==
    LET stored == get_block(table, height)
        kept(block) == [cursor EXCEPT !.cache = cache_put(@, block, cache_size)]
    IN  IF height = 0 THEN [block |-> cursor.genesis, cursor |-> cursor]
        ELSE IF height >= cursor.height_count \/ height < cursor.base_height
          THEN [block |-> NoBlock, cursor |-> cursor]
        ELSE IF Cached(cursor, height)
          THEN LET hit == CHOOSE b \in ToSet(cursor.cache) : b.height = height
               IN  [block |-> hit, cursor |-> kept(hit)]
        ELSE [block |-> stored,
              cursor |-> IF stored = NoBlock THEN cursor ELSE kept(stored)]

(* A non-contiguous append is refused and logged, and changes nothing. *)
append(cursor, block, cache_size) ==
    IF block.height # cursor.height_count THEN cursor
    ELSE IF block.height = 0
      THEN [cursor EXCEPT !.genesis = block, !.height_count = 1]
      ELSE [cursor EXCEPT !.cache = cache_put(@, block, cache_size), !.height_count = @ + 1]

(* The table is pruned first, then the cache: [cursor, table]. *)
prune_below(cursor, table, keep_from) ==
    IF keep_from = 0 \/ keep_from <= cursor.base_height
    THEN [cursor |-> cursor, table |-> table]
    ELSE [cursor |-> [cursor EXCEPT !.base_height = keep_from,
                                    !.cache = cache_pop(@, 0..(keep_from - 1))],
          table |-> prune_blocks_below(table, keep_from)]

(* Drops the cached blocks at and above the height and lowers the count. *)
invalidate_from(cursor, from) ==
    LET cached == {b.height : b \in ToSet(cursor.cache)}
    IN  [cursor EXCEPT !.cache = cache_pop(@, {h \in cached : h >= from}),
                       !.height_count = IF from < @ THEN from ELSE @]

(* Feeds a sequence of blocks to an emptied cursor. *)
replace_all_blocks(cursor, blocks, cache_size) ==
    FoldLeft(LAMBDA acc, b : Sole({append(c, b, cache_size) : c \in {acc}}),
             invalidate_from(cursor, 0), blocks)

(* block_at_height for the heights from..to in order, the unreadable ones skipped; *)
(* the reads fill the cache as they go: [blocks, cursor].                          *)
read_range(cursor, table, from, to, cache_size) ==
    FoldLeft(LAMBDA acc, h :
               Sole({[blocks |-> IF r.read.block = NoBlock THEN r.blocks
                                 ELSE Append(r.blocks, r.read.block),
                      cursor |-> r.read.cursor] :
                     r \in {[blocks |-> a.blocks,
                             read |-> block_at(a.cursor, table, h, cache_size)] : a \in {acc}}}),
             [blocks |-> <<>>, cursor |-> cursor],
             [i \in 1..(to - from + 1) |-> from + i - 1])

iter_blocks(cursor, table, cache_size) ==
    read_range(cursor, table, 0, cursor.height_count - 1, cache_size)
============================================================================
