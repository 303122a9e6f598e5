--------------------------- MODULE MCStoredChain ---------------------------
(* Instances of StoredChain: one scenario for each way blocks are kept. *)
EXTENDS StoredChain

(* The states after the blocks: accounts come, a contract shares address 1 with an       *)
(* account, blocks 2 and 3 differ in that account only, and branches in one storage slot. *)
MCStateAt(block) ==
    LET h == block.height
    IN  [accounts |-> [a \in 0..(CASE h <= 1 -> h [] h = 2 \/ h = 3 -> 2 [] h > 3 -> 4) |->
                         IF a = 1 THEN 10 + h ELSE 20 + a],
         contracts |-> [c \in {1} \cap (1..h) |->
                          [code |-> 7, owner |-> 0,
                           storage |-> [k \in 0..2 |-> IF k = 2 THEN block.branch ELSE k]]]]

Base == [mode |-> "Sync", cache |-> 4, keep |-> Archival, max_height |-> 4, reorgs |-> 0,
         snapshot |-> 0, light |-> FALSE, restarts |-> 0]

(* Where blocks are kept only by the cache for a time (live mode, the blocks of a fork or *)
(* of a snapshot), the cache holds the chain; elsewhere it holds one or two blocks.       *)
MCScenarios ==
    {[Base EXCEPT !.mode = "Memory", !.cache = 1, !.reorgs = 1],
     [Base EXCEPT !.cache = 1, !.restarts = 1],
     [Base EXCEPT !.cache = 3, !.max_height = 3, !.reorgs = 2, !.restarts = 1],
     [Base EXCEPT !.mode = "Async", !.reorgs = 1, !.restarts = 1],
     [Base EXCEPT !.keep = 1, !.reorgs = 1, !.restarts = 1],
     [Base EXCEPT !.cache = 3, !.max_height = 3, !.reorgs = 1, !.snapshot = 3, !.restarts = 1],
     [Base EXCEPT !.light = TRUE, !.max_height = 3, !.cache = 1],
     [Base EXCEPT !.light = TRUE, !.max_height = 3, !.cache = 3, !.reorgs = 1]}
============================================================================
