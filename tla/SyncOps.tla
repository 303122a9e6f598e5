------------------------------ MODULE SyncOps -------------------------------
(***************************************************************************)
(* How a node catches up with its peers (network/mod.rs, the snapshot half *)
(* of core/chain/snapshot.rs and core/checkpoints.rs), as operators on a   *)
(* node value                                                              *)
(*   chain, known, finalized   its canonical blocks, the blocks of its     *)
(*                             tree, the block it holds to be final        *)
(*   sync_requested, sync_deadline, sync_retries, sync_target_height,      *)
(*   sync_stable_ticks         the sync state of run_with_chain (a target  *)
(*                             of 0 is None)                               *)
(*   tips                      verified_peer_tips                          *)
(*   manifest, chunks, buffer  the snapshot being fetched, and the chunks  *)
(*                             that came before their manifest             *)
(*   topic, linked, pending    the gossip topic, whether a peer is         *)
(*                             connected, the broadcasts that failed       *)
(*                                                                         *)
(* A block is the sequence of the marks of its ancestors and its own, so   *)
(* two blocks are equal exactly when their histories are; genesis is the   *)
(* empty sequence and the length is the height.  The blocks of one chain   *)
(* are valid on top of each other and their proposers hold equal stakes.   *)
(* A handler returns the node and the messages it sends.                   *)
(***************************************************************************)
EXTENDS Integers, Sequences, FiniteSets

LOCAL INSTANCE SequencesExt
LOCAL INSTANCE FiniteSetsExt
LOCAL INSTANCE Functions

CONSTANTS SYNC_BATCH_SIZE, MAX_SYNC_RETRIES,
          SYNC_STABLE_TICKS_BEFORE_PRODUCTION,
          MAX_BUFFERED_PRE_MANIFEST_CHUNKS,
          MAX_PENDING_BROADCASTS,
          ChunkBlocks,       \* blocks in 256 KiB of a snapshot
          Checkpoints,       \* checkpoints_for: height -> trusted block
          Upgrades           \* the heights of the protocol upgrades

ASSUME SyncAssumption ==
    /\ {SYNC_BATCH_SIZE, MAX_SYNC_RETRIES, SYNC_STABLE_TICKS_BEFORE_PRODUCTION,
        MAX_BUFFERED_PRE_MANIFEST_CHUNKS, MAX_PENDING_BROADCASTS,
        ChunkBlocks} \subseteq Nat \ {0}
    /\ Upgrades \subseteq Nat

Genesis == <<>>
NoManifest == [latest |-> Genesis, tip_height |-> 0]
NoChunks == [i \in {} |-> <<>>]

(* The blocks up to b. *)
Lineage(b) == [h \in 1..Len(b) |-> SubSeq(b, 1, h)]

height(n) == Len(n.chain)
latest_hash(n) == IF n.chain = <<>> THEN Genesis ELSE Last(n.chain)

(* The version at a height: one per upgrade at or below it. *)
protocol_version_at_height(h) == Cardinality({u \in Upgrades : u <= h})

new_node(chain, final, linked) ==
    [ chain |-> Lineage(chain), known |-> Range(Lineage(chain)) \cup {Genesis},
      finalized |-> final,
      sync_requested |-> FALSE, sync_deadline |-> FALSE, sync_retries |-> 0,
      sync_target_height |-> 0, sync_stable_ticks |-> 0,
      tips |-> [p \in {} |-> Genesis],
      manifest |-> NoManifest, chunks |-> NoChunks, buffer |-> NoChunks,
      topic |-> protocol_version_at_height(Len(chain)),
      linked |-> linked, pending |-> <<>> ]

-----------------------------------------------------------------------------
(* Broadcasting.  A message leaves on the topic the node is subscribed to  *)
(* when it is sent.                                                        *)
on_topic(n, m) == [topic |-> n.topic, body |-> m]

enqueue_pending_broadcast(q, m) ==
    Append(IF Len(q) >= MAX_PENDING_BROADCASTS THEN Tail(q) ELSE q, m)

broadcast_or_queue(n, m) ==
    IF n.linked THEN [n |-> n, out |-> {on_topic(n, m)}]
    ELSE [n |-> [n EXCEPT !.pending = enqueue_pending_broadcast(@, m)], out |-> {}]

flush_pending_broadcasts(n) ==
    IF n.linked
    THEN [n |-> [n EXCEPT !.pending = <<>>], out |-> {on_topic(n, m) : m \in Range(n.pending)}]
    ELSE [n |-> n, out |-> {}]

switch_topic(n) == [n EXCEPT !.topic = protocol_version_at_height(height(n))]

silent(n) == [n |-> n, out |-> {}]

-----------------------------------------------------------------------------
(* Blocks.                                                                 *)
verify_block_against_known(b) ==
    \A h \in DOMAIN Checkpoints \cap {Len(b)} : b = Checkpoints[h]

CanAdd(n, b) ==
    b # Genesis /\ Front(b) = latest_hash(n) /\ verify_block_against_known(b)

add_block(n, b) ==
    IF CanAdd(n, b) THEN [n EXCEPT !.chain = Append(@, b), !.known = @ \cup {b}] ELSE n

(* add_block_with_fork_choice, for proposers of equal stake: the longer    *)
(* branch wins, and only above the finalized block.                        *)
add_block_with_fork_choice(n, b) ==
    IF \/ Front(b) \notin n.known \/ Len(b) <= Len(n.finalized)
       \/ ~IsPrefix(n.finalized, Front(b)) THEN n
    ELSE IF Len(b) > height(n)
         THEN [n EXCEPT !.known = @ \cup {b}, !.chain = Lineage(b)]
         ELSE [n EXCEPT !.known = @ \cup {b}]

(* handle_new_block: fork choice when the block does not extend the tip.   *)
(* Only a block that does is reported as accepted.                         *)
handle_new_block(n, b) ==
    IF CanAdd(n, b) THEN add_block(n, b)
    ELSE IF Front(b) = latest_hash(n) THEN n
    ELSE add_block_with_fork_choice(n, b)

SyncIsOver(n) == [n EXCEPT !.sync_requested = FALSE, !.sync_deadline = FALSE, !.sync_retries = 0]

SyncIsOn(n) == [n EXCEPT !.sync_requested = TRUE, !.sync_deadline = TRUE]

(* Mutant: a batch the node already has stops the clock, and nothing else. *)
handle_block_response_clock_only(n, from_height, blocks) ==
    LET next(m, b) == IF Len(b) = height(m) + 1 THEN add_block(m, b) ELSE m
        after      == FoldLeft(next, n, blocks)
    IN  IF from_height > height(n) + 1 THEN n
        ELSE IF after # n THEN SyncIsOver(after)
        ELSE IF Len(Last(blocks)) <= height(n) THEN [n EXCEPT !.sync_deadline = FALSE]
        ELSE n

(* The blocks of a response come in order of height, so that after a       *)
(* rejected one every later one leaves a gap.                              *)
handle_block_response(n, from_height, blocks) ==
    LET next(m, b) == IF Len(b) = height(m) + 1 THEN add_block(m, b) ELSE m
        after      == FoldLeft(next, n, blocks)
    IN  IF from_height > height(n) + 1 THEN n
        ELSE IF after # n THEN SyncIsOver(after)
        ELSE IF Len(Last(blocks)) <= height(n) THEN SyncIsOver(n)
        ELSE n

-----------------------------------------------------------------------------
(* Snapshots.                                                              *)

(* The payload of a snapshot, cut into chunks.                             *)
chunks_of(b) ==
    [i \in 0..((Len(b) - 1) \div ChunkBlocks) |->
        SubSeq(Lineage(b), i * ChunkBlocks + 1, Min({(i + 1) * ChunkBlocks, Len(b)}))]

(* create_snapshot, of a peer with this tip and this finalized block: the  *)
(* finalized block, or the tip as long as nothing is final, is final in    *)
(* the manifest.                                                           *)
create_snapshot(tip, final) ==
    [latest |-> IF final # Genesis THEN final ELSE tip, tip_height |-> Len(tip)]

verify_snapshot_against_known(m) == verify_block_against_known(m.latest)

(* Mutant: the chunks are not compared with the hashes of the manifest. *)
decode_snapshot_state_any_chunk(m, ordered) ==
    LET blocks == FlattenSeq([i \in 1..Cardinality(DOMAIN ordered) |-> ordered[i - 1]])
    IN  [ok |-> blocks # <<>> /\ Last(blocks) = m.latest, blocks |-> blocks]

decode_snapshot_state(m, ordered) ==
    LET blocks == FlattenSeq([i \in 1..Cardinality(DOMAIN ordered) |-> ordered[i - 1]])
    IN  [ok |-> ordered = chunks_of(m.latest) /\ Last(blocks) = m.latest, blocks |-> blocks]

ProtectedHeight(n, m) == Min({Len(n.finalized), Len(m.latest)})

(* Mutant: only the last block of the snapshot is compared with the chain. *)
KeepsProtected_last_only(n, m, blocks) ==
    \A b \in {m.latest} :
        Len(b) <= Min({ProtectedHeight(n, m), height(n)}) => n.chain[Len(b)] = b

(* No block at or below the protected height differs from the local one.   *)
KeepsProtected(n, m, blocks) ==
    \A b \in Range(blocks) :
        Len(b) <= Min({ProtectedHeight(n, m), height(n)}) => n.chain[Len(b)] = b

apply_snapshot(n, m, ordered) ==
    LET state == decode_snapshot_state(m, ordered)
        ok == /\ verify_snapshot_against_known(m)
              /\ ~(/\ Len(n.finalized) = Len(m.latest) /\ n.finalized # m.latest)
              /\ state.ok
              /\ KeepsProtected(n, m, state.blocks)
    IN  [ ok |-> ok,
          n  |-> IF ok THEN [n EXCEPT !.chain = state.blocks,
                                      !.known = Range(state.blocks) \cup {Genesis},
                                      !.finalized = m.latest]
                 ELSE n ]

next_missing_chunk_index(n) ==
    Min((0..Cardinality(DOMAIN chunks_of(n.manifest.latest))) \ DOMAIN n.chunks)

(* The end of both snapshot handlers: once as many chunks are there as the *)
(* manifest announces they are taken out in order, and applied if none is  *)
(* missing.                                                                *)
TakeChunks(n) ==
    LET m       == n.manifest
        count   == Cardinality(DOMAIN chunks_of(m.latest))
        missing == next_missing_chunk_index(n)
        taken   == [n EXCEPT !.chunks = Restrict(@, {i \in DOMAIN @ : i > missing})]
        applied == apply_snapshot(taken, m, Restrict(n.chunks, 0..(count - 1)))
        done    == [applied.n EXCEPT !.manifest = NoManifest, !.chunks = NoChunks]
    IN  IF Cardinality(DOMAIN n.chunks) # count THEN silent(n)
        ELSE IF missing < count THEN silent(taken)
        ELSE IF ~applied.ok THEN silent(done)
        ELSE IF m.tip_height > Len(m.latest)
             THEN broadcast_or_queue(SyncIsOn(done),
                     [ type |-> "RequestBlocks", from_height |-> Len(m.latest) + 1,
                       expected_prev_hash |-> latest_hash(done) ])
             ELSE silent(SyncIsOver(done))

(* SnapshotManifest *)
handle_manifest(n, m) ==
    LET accepted == /\ Len(m.latest) > height(n)
                    /\ m.tip_height # 0 => Len(m.latest) <= m.tip_height
                    /\ ~(/\ n.finalized # Genesis
                         /\ Len(n.finalized) = Len(m.latest) /\ n.finalized # m.latest)
        kept     == IF n.manifest.latest = m.latest THEN n.chunks ELSE NoChunks
        matching == {k \in DOMAIN n.buffer : k[1] = Len(m.latest)}
        drained  == [i \in {k[2] : k \in matching} |-> n.buffer[<<Len(m.latest), i>>]]
        started  == [ n EXCEPT !.manifest = m,
                        !.chunks = [i \in DOMAIN drained \cup DOMAIN kept |->
                                       IF i \in DOMAIN drained THEN drained[i] ELSE kept[i]],
                        !.buffer = Restrict(@, {k \in DOMAIN @ : k[1] > Len(m.latest)}) ]
    IN  IF accepted THEN TakeChunks(started) ELSE silent(n)

(* SnapshotChunk: kept for its manifest, as long as there is room.         *)
handle_chunk(n, h, index, data) ==
    IF n.manifest # NoManifest /\ Len(n.manifest.latest) = h
    THEN TakeChunks([n EXCEPT !.chunks = [i \in DOMAIN @ \cup {index} |->
                                             IF i = index THEN data ELSE @[i]]])
    ELSE IF Cardinality(DOMAIN n.buffer) < MAX_BUFFERED_PRE_MANIFEST_CHUNKS
    THEN silent([n EXCEPT !.buffer = [k \in DOMAIN @ \cup {<<h, index>>} |->
                                         IF k = <<h, index>> THEN data ELSE @[k]]])
    ELSE silent(n)

-----------------------------------------------------------------------------
(* Asking for blocks or for a snapshot.                                    *)
RequestBlocks(n) ==
    [ type |-> "RequestBlocks", from_height |-> height(n) + 1,
      expected_prev_hash |-> latest_hash(n) ]

RequestSnapshot(n, start_chunk) ==
    [ type |-> "RequestSnapshot", start_chunk |-> start_chunk,
      known_finalized_hash |-> n.finalized ]

CatchUpRequest(n, target) ==
    IF target - height(n) > SYNC_BATCH_SIZE THEN RequestSnapshot(n, 0) ELSE RequestBlocks(n)

(* The head of the loop, once the deadline has passed: another request, of *)
(* the rest of the snapshot when one is being fetched; the last retry      *)
(* escalates to a snapshot.                                                *)
sync_timeout(n) ==
    LET retries == n.sync_retries + 1
        start   == IF n.manifest = NoManifest THEN 0 ELSE next_missing_chunk_index(n)
    IN  IF retries >= MAX_SYNC_RETRIES
        THEN broadcast_or_queue([SyncIsOn(n) EXCEPT !.sync_retries = 0],
                                RequestSnapshot(n, start))
        ELSE broadcast_or_queue([n EXCEPT !.sync_retries = retries],
                                IF n.manifest # NoManifest THEN RequestSnapshot(n, start)
                                ELSE RequestBlocks(n))

(* HeightAnnounce from p.  Only a signed one counts. *)
handle_announce(n, p, tip, verified, version) ==
    LET heard == [n EXCEPT !.tips = [q \in DOMAIN @ \cup {p} |-> IF q = p THEN tip ELSE @[q]]]
    IN  IF version # protocol_version_at_height(height(n)) \/ ~verified THEN silent(n)
        ELSE IF Len(tip) > height(n) /\ ~n.sync_requested
        THEN broadcast_or_queue(SyncIsOn(heard), CatchUpRequest(n, Len(tip)))
        ELSE IF Len(tip) = height(n) /\ tip # latest_hash(n) /\ ~n.sync_requested
        THEN broadcast_or_queue(SyncIsOn(heard), RequestSnapshot(n, 0))
        ELSE silent(heard)

(* sync_needed_from_verified_tips: the heights of the tips that call for a *)
(* sync, the higher ones first; none is 0.                                 *)
sync_needed_from_verified_tips(n) ==
    LET heights == {Len(t) : t \in Range(n.tips)}
        higher  == {h \in heights : h > height(n)}
    IN  IF higher # {} THEN Max(higher)
        ELSE IF \E t \in Range(n.tips) : Len(t) = height(n) /\ t # latest_hash(n)
        THEN height(n) ELSE 0

(* The sync gate of the block timer: what is left of the node, the         *)
(* messages, and whether production goes on.  The code's test for a tip    *)
(* above a target that is reached never holds: such a tip has just raised  *)
(* the target.                                                             *)
sync_gate(n) ==
    LET need   == sync_needed_from_verified_tips(n)
        raised == IF need > n.sync_target_height
                  THEN [n EXCEPT !.sync_target_height = need, !.sync_stable_ticks = 0] ELSE n
        target == raised.sync_target_height
        ticked == [raised EXCEPT !.sync_stable_ticks = @ + 1]
        clear  == IF target = 0 THEN raised
                  ELSE [raised EXCEPT !.sync_target_height = 0, !.sync_stable_ticks = 0]
        hold(r) == [n |-> r.n, out |-> r.out, go |-> FALSE]
    IN  IF target # 0 /\ height(n) < target
        THEN hold(broadcast_or_queue(SyncIsOn(raised), CatchUpRequest(n, target)))
        ELSE IF target # 0 /\ ticked.sync_stable_ticks < SYNC_STABLE_TICKS_BEFORE_PRODUCTION
        THEN hold(silent(ticked))
        ELSE IF need # 0
        THEN hold(broadcast_or_queue(
                    [SyncIsOn(clear) EXCEPT !.sync_target_height = need],
                    IF need = height(n) THEN RequestSnapshot(n, 0) ELSE CatchUpRequest(n, need)))
        ELSE [n |-> clear, out |-> {}, go |-> TRUE]

-----------------------------------------------------------------------------
(* The answers of a peer with this tip and this finalized block, as the    *)
(* bodies of the messages it sends.                                        *)
SnapshotMessages(m, start_chunk) ==
    {[type |-> "SnapshotManifest", manifest |-> m]} \cup
    {[ type |-> "SnapshotChunk", height |-> Len(m.latest), index |-> i,
       data |-> chunks_of(m.latest)[i] ] :
        i \in {j \in DOMAIN chunks_of(m.latest) : j >= start_chunk}}

(* handle_block_request: a requester on another branch is offered a        *)
(* snapshot.                                                               *)
handle_block_request(tip, final, r) ==
    LET last == Min({r.from_height + SYNC_BATCH_SIZE - 1, Len(tip)})
    IN  IF r.from_height > Len(tip) THEN {}
        ELSE IF SubSeq(tip, 1, r.from_height - 1) # r.expected_prev_hash
        THEN SnapshotMessages(create_snapshot(tip, final), 0)
        ELSE {[ type |-> "BlockResponse", from_height |-> r.from_height,
                blocks |-> SubSeq(Lineage(tip), r.from_height, last) ]}

(* RequestSnapshot: refused at genesis, and when the requester's finalized *)
(* block is not on this chain.                                             *)
handle_snapshot_request(tip, final, r) ==
    IF tip = Genesis \/ ~IsPrefix(r.known_finalized_hash, tip) THEN {}
    ELSE SnapshotMessages(create_snapshot(tip, final), r.start_chunk)
=============================================================================
