------------------------------ MODULE LedgerOps ------------------------------
(***************************************************************************)
(* The ledger half of core/chain: accounts, epoch settlement, execution    *)
(* of blocks, block production and replay, as operators on a node value    *)
(*   chain            the canonical chain; <<>> is genesis                 *)
(*   accounts         address -> account                                   *)
(*   missed           validator_missed_epochs (0 for an absent address)    *)
(*   epoch_snapshots  epoch -> stakes of its frozen validators             *)
(*   slashed          slashed_validators                                   *)
(*   pending          pending_transactions, in mempool order               *)
(*   tree             the block tree: block -> cumulative stake weight     *)
(*   tip              its canonical tip                                    *)
(*   draws            the numbers that hashing leads to on this chain      *)
(*                                                                         *)
(* A hash chain commits to its history, so a block is the sequence of the  *)
(* headers from block 1 to itself; its state root is the value it commits  *)
(* to, the accounts.  Its timestamp is kept as waited, the whole           *)
(* BACKUP_LEADER_TIMEOUT_SECS since its parent.  Transactions are          *)
(* transfers, stakes and unstakes without fees, each of one unit of gas.   *)
(***************************************************************************)
EXTENDS Integers, Sequences, TLC

LOCAL INSTANCE FiniteSets
LOCAL INSTANCE SequencesExt

CONSTANTS Addresses,          \* the accounts; each has a public key
          SortedAddresses,    \* the accounts in the order of their bytes
          GenesisBalance,     \* address -> allocation
          GenesisStake,       \* address -> allocation, staked
          MinimumStake, EpochLength, UnstakeDelay, BlockReward, BlockGasLimit,
          CurUnit,            \* microtokens in one CUR
          RewardRate,         \* EPOCH_REWARD_RATE_PER_CUR
          PenaltyRate,        \* INACTIVITY_PENALTY_RATE_PER_CUR
          GraceEpochs,        \* INACTIVITY_GRACE_EPOCHS
          SlashPercent, JailDuration,
          MaxReorgDepth       \* MAX_REORG_DEPTH

ASSUME LedgerAssumption ==
    /\ GenesisBalance \in [Addresses -> Nat] /\ GenesisStake \in [Addresses -> Nat]
    /\ EpochLength \in Nat \ {0} /\ CurUnit \in Nat \ {0}
    /\ {MinimumStake, UnstakeDelay, BlockReward, BlockGasLimit, RewardRate,
        PenaltyRate, GraceEpochs, SlashPercent, JailDuration,
        MaxReorgDepth} \subseteq Nat
    /\ IsInjective(SortedAddresses) /\ ToSet(SortedAddresses) = Addresses

saturating_sub(a, b) == IF a > b THEN a - b ELSE 0
EpochOf(h) == h \div EpochLength
IsBoundary(h) == h > 0 /\ h % EpochLength = 0
next_epoch_start_height_for(h) == (EpochOf(h) + 1) * EpochLength

accounts_from_genesis ==
    [ a \in Addresses |->
        [ balance |-> GenesisBalance[a], staked |-> GenesisStake[a], nonce |-> 0,
          pending_unstakes |-> <<>>, jailed_until |-> 0,
          active_from |-> IF GenesisStake[a] >= MinimumStake THEN 1 ELSE 0 ] ]

-----------------------------------------------------------------------------
(* Mutant: a slashed validator is back when its jail time is over. *)
active_validators_jail_only(accounts, slashed, h) ==
    { a \in Addresses : /\ accounts[a].staked >= MinimumStake
                        /\ accounts[a].active_from <= h
                        /\ accounts[a].jailed_until <= h }

(* ProofOfStake::active_validators, and a snapshot of their stakes *)
active_validators(accounts, slashed, h) ==
    { a \in Addresses \ slashed : /\ accounts[a].staked >= MinimumStake
                                  /\ accounts[a].active_from <= h
                                  /\ accounts[a].jailed_until <= h }

SnapshotAt(accounts, slashed, h) ==
    [ a \in active_validators(accounts, slashed, h) |-> accounts[a].staked ]

(* The snapshot add_block and rebuild_canonical_state take at a boundary,  *)
(* unless the epoch has one.                                               *)
freeze_epoch(n, h) ==
    LET e == EpochOf(h) IN
    IF IsBoundary(h) /\ e \notin DOMAIN n.epoch_snapshots
    THEN [n EXCEPT !.epoch_snapshots =
              @ @@ (e :> SnapshotAt(n.accounts, n.slashed, e * EpochLength))]
    ELSE n

(* snapshot_for_height *)
snapshot_for_height(n, h) ==
    LET e == EpochOf(h) IN
    IF e \in DOMAIN n.epoch_snapshots /\ DOMAIN n.epoch_snapshots[e] # {}
    THEN n.epoch_snapshots[e]
    ELSE SnapshotAt(n.accounts, n.slashed, h)

-----------------------------------------------------------------------------
(* consensus/mod.rs: the leaders of a slot *)

Nobody == "nobody"

(* The hash of height, parent hash and rank as a number.  It is fixed by   *)
(* the genesis of the chain for every height and rank.                     *)
draw(n, h, rank) == n.draws[1 + ((h + rank) % Len(n.draws))]

(* The stake-weighted leader among the validators not excluded: the one in *)
(* whose share of the remaining stake the draw falls.                      *)
slot_leader_excluding(n, snapshot, h, rank, excluded) ==
    LET candidates  == SelectSeq(SortedAddresses, LAMBDA a : a \in DOMAIN snapshot \ excluded)
        up_to(i)    == FoldLeft(LAMBDA s, a : s + snapshot[a], 0, SubSeq(candidates, 1, i))
        total_stake == up_to(Len(candidates))
        selector    == draw(n, h, rank) % total_stake
    IN  IF total_stake = 0 THEN Nobody
        ELSE candidates[CHOOSE i \in DOMAIN candidates :
                            up_to(i - 1) <= selector /\ selector < up_to(i)]

(* Mutant: the leaders of the ranks before are not excluded. *)
slot_leader_at_rank_repeated(n, snapshot, h, rank) ==
    slot_leader_excluding(n, snapshot, h, rank, {})

(* The backup at a rank: every rank before it is taken out first, and the  *)
(* last one taken stays when nobody is left.                               *)
slot_leader_at_rank(n, snapshot, h, rank) ==
    LET take(r, k) == LET chosen(a) == IF a = Nobody THEN r
                                       ELSE [excluded |-> r.excluded \cup {a}, last |-> a]
                      IN  chosen(slot_leader_excluding(n, snapshot, h, k, r.excluded))
    IN  FoldLeft(take, [excluded |-> {}, last |-> Nobody], [i \in 1..(rank + 1) |-> i - 1]).last

(* One more rank for each timeout since the parent, as far as there are    *)
(* validators; the first block after genesis is for the primary.           *)
allowed_backup_rank(waited, snapshot_validators) ==
    IF snapshot_validators <= 1 THEN 0
    ELSE IF waited < snapshot_validators - 1 THEN waited ELSE snapshot_validators - 1

allowed_backup_rank_for_height(h, waited, snapshot_size) ==
    IF h <= 1 THEN 0 ELSE allowed_backup_rank(waited, snapshot_size)

(* ensure_validator_is_authorized_for_accounts_at_rank, with the rank its  *)
(* callers allow.  Without validators anybody may propose.                 *)
Authorized(n, a, h, waited) ==
    LET snapshot == snapshot_for_height(n, h)
        allowed  == allowed_backup_rank_for_height(h, waited, Cardinality(DOMAIN snapshot))
    IN  \/ DOMAIN snapshot = {}
        \/ \E rank \in 0..allowed : slot_leader_at_rank(n, snapshot, h, rank) = a

-----------------------------------------------------------------------------
(* proposer_addresses_for_settling_epoch, tallied *)
BlocksProduced(chain, a, e) ==
    Cardinality({h \in (e * EpochLength)..((e + 1) * EpochLength - 1) :
                     h \in DOMAIN chain /\ chain[h].producer = a})

Settles(n, h) == /\ IsBoundary(h)
                 /\ EpochOf(h - 1) > 0
                 /\ EpochOf(h - 1) \in DOMAIN n.epoch_snapshots

(* compute_epoch_settlement *)
reward(stake, blocks) == (stake \div CurUnit) * RewardRate * blocks
penalty(stake, missed) ==
    IF missed > GraceEpochs THEN (stake \div CurUnit) * PenaltyRate * (missed - GraceEpochs)
    ELSE 0

(* apply_epoch_settlement_for_block, the producers taken from a chain *)
settle_epoch(n, chain, h) ==
    LET e    == EpochOf(h - 1)
        snap == n.epoch_snapshots[e]
        made(a) == BlocksProduced(chain, a, e)
        settled(a) ==
            IF made(a) > 0
            THEN [n.accounts[a] EXCEPT !.balance = @ + reward(snap[a], made(a))]
            ELSE [n.accounts[a] EXCEPT !.staked =
                      saturating_sub(@, penalty(snap[a], n.missed[a] + 1))]
    IN  IF ~Settles(n, h) THEN n
        ELSE [n EXCEPT
                !.accounts = [a \in Addresses |-> IF a \in DOMAIN snap THEN settled(a)
                                                  ELSE n.accounts[a]],
                !.missed   = [a \in Addresses |-> IF a \notin DOMAIN snap THEN n.missed[a]
                                                  ELSE IF made(a) > 0 THEN 0
                                                  ELSE n.missed[a] + 1]]

-----------------------------------------------------------------------------
(* apply_unstake_unlocks *)
apply_unstake_unlocks(accounts, h) ==
    LET due(p) == p.unlock_height <= h
        later(p) == ~due(p)
    IN  [ a \in Addresses |->
            LET ps == accounts[a].pending_unstakes IN
            [accounts[a] EXCEPT
                !.balance = FoldLeft(LAMBDA s, p : s + p.amount, @, SelectSeq(ps, due)),
                !.pending_unstakes = SelectSeq(ps, later)] ]

(* apply_user_transaction: whether it succeeds, and the accounts it leaves *)
(* behind, also when it fails half way.                                    *)
apply_user_transaction(accounts, tx, h) ==
    LET s       == accounts[tx.from]
        debited == [s EXCEPT !.balance = @ - tx.amount, !.nonce = @ + 1]
        staked  == [debited EXCEPT
                       !.staked = @ + tx.amount,
                       !.active_from = IF s.staked < MinimumStake
                                          /\ s.staked + tx.amount >= MinimumStake
                                       THEN next_epoch_start_height_for(h) ELSE @]
        unstaked == [debited EXCEPT
                       !.staked = @ - tx.amount,
                       !.pending_unstakes =
                           Append(@, [amount |-> tx.amount, unlock_height |-> h + UnstakeDelay])]
        with(a) == [accounts EXCEPT ![tx.from] = a]
    IN  IF s.balance < tx.amount \/ s.nonce # tx.nonce
        THEN [ok |-> FALSE, accounts |-> accounts]
        ELSE CASE tx.kind = "Stake" -> [ok |-> TRUE, accounts |-> with(staked)]
               [] tx.kind = "Unstake" ->
                    IF s.staked < tx.amount THEN [ok |-> FALSE, accounts |-> with(debited)]
                    ELSE [ok |-> TRUE, accounts |-> with(unstaked)]
               [] tx.kind = "Transfer" ->
                    [ok |-> TRUE,
                     accounts |-> [with(debited) EXCEPT ![tx.to].balance = @ + tx.amount]]

apply_coinbase_transaction(accounts, a) ==
    [accounts EXCEPT ![a].balance = @ + BlockReward]

-----------------------------------------------------------------------------
(* validate_block_against_state on a prepared state n: the first failing   *)
(* check, and the accounts after the block.                                *)
validate_block(n, parent, b) ==
    LET h      == Len(b)
        header == b[h]
        step(r, tx) == IF ~r.ok THEN r ELSE apply_user_transaction(r.accounts, tx, h)
        result(run, post) ==
            IF ~run.ok \/ Len(header.txs) > BlockGasLimit THEN "InvalidTransaction"
            ELSE IF header.state_root # post THEN "InvalidStateRoot"
            ELSE "Ok"
        checked(run, post) == [result |-> result(run, post), accounts |-> post]
        executed(run) == checked(run, apply_coinbase_transaction(run.accounts, header.producer))
        refused(e) == [result |-> e, accounts |-> n.accounts]
    IN  IF h # Len(parent) + 1 THEN refused("InvalidHeight")
        ELSE IF Front(b) # parent THEN refused("InvalidPrevHash")
        ELSE IF ~Authorized(n, header.producer, h, header.waited) THEN refused("WrongProposer")
        ELSE executed(FoldLeft(step, [ok |-> TRUE, accounts |-> apply_unstake_unlocks(n.accounts, h)],
                               header.txs))

(* BlockTree::insert while genesis is the finalized block: a known block   *)
(* changes nothing, and only a strictly heavier one becomes the tip.       *)
tree_insert(n, b, stake) ==
    LET weight == n.tree[Front(b)] + stake
    IN  IF b \in DOMAIN n.tree THEN n
        ELSE [n EXCEPT !.tree = @ @@ (b :> weight),
                       !.tip = IF weight > n.tree[@] THEN b ELSE @]

(* What add_block does to its state before it validates the block. *)
prepare(n, h) == settle_epoch(freeze_epoch(n, h), n.chain, h)

(* add_block, with the removal of the block's transactions from the pool. *)
add_block(n, b) ==
    LET open(tx) == ~Contains(b[Len(b)].txs, tx)
        adopt(p, v) ==
            IF v.result # "Ok" THEN p
            ELSE [tree_insert(p, b, v.accounts[b[Len(b)].producer].staked) EXCEPT
                    !.chain = b, !.accounts = v.accounts, !.pending = SelectSeq(@, open)]
        onto(p) == adopt(p, validate_block(p, n.chain, b))
    IN  onto(prepare(n, Len(b)))

AddResult(n, b) == validate_block(prepare(n, Len(b)), n.chain, b).result
Accepts(n, b) == AddResult(n, b) = "Ok"

(* Mutant: the projection is not settled. *)
project_unsettled(n, h) == [n EXCEPT !.accounts = apply_unstake_unlocks(@, h)]

(* The projection on which create_block executes transactions. *)
project(n, h) == settle_epoch([n EXCEPT !.accounts = apply_unstake_unlocks(@, h)], n.chain, h)

(* create_block of the validator a, waited timeouts after the head: the    *)
(* pool is executed in order on a projection, and what a transaction left  *)
(* there stays when it is not included.                                    *)
create_block(n, a, waited) ==
    LET h    == Len(n.chain) + 1
        step(r, tx) ==
            LET x == apply_user_transaction(r.accounts, tx, h)
            IN  [ accounts |-> x.accounts,
                  txs |-> IF x.ok /\ Len(r.txs) < BlockGasLimit THEN Append(r.txs, tx)
                          ELSE r.txs ]
        run  == FoldLeft(step, [accounts |-> project(n, h).accounts, txs |-> <<>>],
                         n.pending)
    IN  Append(n.chain, [ producer |-> a, waited |-> waited, txs |-> run.txs,
                          state_root |-> apply_coinbase_transaction(run.accounts, a) ])

-----------------------------------------------------------------------------
(* Blockchain::from_genesis *)
new_ledger(draws) ==
    [ draws |-> draws, chain |-> <<>>, accounts |-> accounts_from_genesis,
      missed |-> [a \in Addresses |-> 0],
      epoch_snapshots |-> (0 :> SnapshotAt(accounts_from_genesis, {}, 0)),
      slashed |-> {}, pending |-> <<>>, tree |-> (<<>> :> 0), tip |-> <<>> ]

(* Mutant: replay forgets the missed epochs. *)
replay_prepare_no_misses(n, chain, h) ==
    [settle_epoch(freeze_epoch(n, h), chain, h) EXCEPT !.missed = [a \in Addresses |-> 0]]

(* What replay does to its state before it validates block h of the chain. *)
replay_prepare(n, chain, h) == settle_epoch(freeze_epoch(n, h), chain, h)

(* The state before block 1, from which every replay starts. *)
AtGenesis(n) == [n EXCEPT !.accounts = accounts_from_genesis,
                          !.missed = [a \in Addresses |-> 0]]

(* rebuild_canonical_state of a node from its canonical chain.  A block    *)
(* that does not validate aborts it; ok says whether none did.             *)
rebuild_canonical_state(n) ==
    LET start == [AtGenesis(n) EXCEPT
                    !.chain = <<>>,
                    !.epoch_snapshots = (0 :> SnapshotAt(accounts_from_genesis, n.slashed, 0))]
        block(h) == SubSeq(n.chain, 1, h)
        step(r, h) ==
            LET adopt(p, v) ==
                    IF v.result # "Ok" THEN [ok |-> FALSE, n |-> freeze_epoch(r.n, h)]
                    ELSE [ok |-> TRUE, n |-> [p EXCEPT !.accounts = v.accounts, !.chain = block(h)]]
                onto(p) == adopt(p, validate_block(p, block(h - 1), block(h)))
            IN  IF ~r.ok THEN r ELSE onto(replay_prepare(r.n, n.chain, h))
    IN  FoldLeftDomain(step, [ok |-> TRUE, n |-> start], n.chain)

-----------------------------------------------------------------------------
(* Fork choice *)

(* Mutant: a fork block is executed on the state of the head. *)
replay_state_to_tip_head(n, b) == [ok |-> TRUE, n |-> n]

(* replay_state_to_tip: the state after the block b of the tree.  Who      *)
(* produced in a settled epoch, and its frozen validators, are those of    *)
(* the canonical chain.                                                    *)
replay_state_to_tip(n, b) ==
    LET step(r, h) ==
            LET adopt(p, v) == [ok |-> v.result = "Ok", n |-> [p EXCEPT !.accounts = v.accounts]]
                onto(p) == adopt(p, validate_block(p, SubSeq(b, 1, h - 1), SubSeq(b, 1, h)))
            IN  IF ~r.ok THEN r ELSE onto(settle_epoch(r.n, n.chain, h))
    IN  FoldLeftDomain(step, [ok |-> TRUE, n |-> AtGenesis(n)], b)

(* reorg_to_canonical_tip: the blocks are replaced before the state is     *)
(* rebuilt, and stay replaced when that fails.                             *)
reorg_to_canonical_tip(n) ==
    LET rebuilt(r) ==
            IF r.ok THEN r
            ELSE [ok |-> FALSE, n |-> [n EXCEPT !.chain = n.tip,
                                                !.epoch_snapshots = r.n.epoch_snapshots]]
    IN  rebuilt(rebuild_canonical_state([n EXCEPT !.chain = n.tip]))

TooOld(n, b) == /\ Len(n.chain) > MaxReorgDepth
                /\ Len(b) < Len(n.chain) - MaxReorgDepth

(* add_block_with_fork_choice *)
add_block_with_fork_choice(n, b) ==
    LET refused == [ok |-> FALSE, n |-> n]
        inserted(m) == IF IsPrefix(n.tip, m.tip) THEN [ok |-> TRUE, n |-> m]
                       ELSE reorg_to_canonical_tip(m)
        executed(v) == IF v.result # "Ok" THEN refused
                       ELSE inserted(tree_insert(n, b, v.accounts[b[Len(b)].producer].staked))
        onto(parent) == IF ~parent.ok THEN refused
                        ELSE executed(validate_block(parent.n, Front(b), b))
    IN  IF TooOld(n, b) THEN refused
        ELSE IF Front(b) = n.chain THEN [ok |-> Accepts(n, b), n |-> add_block(n, b)]
        ELSE IF Front(b) \notin DOMAIN n.tree THEN refused
        ELSE onto(replay_state_to_tip(n, Front(b)))

(* process_equivocation, with slash_with_evidence *)
process_equivocation(n, a) ==
    IF a \in n.slashed THEN n
    ELSE [n EXCEPT !.accounts[a].staked = @ - (@ * SlashPercent) \div 100,
                   !.accounts[a].jailed_until = Len(n.chain) + JailDuration,
                   !.slashed = @ \cup {a}]

(* handle_new_block: add_block first, and fork choice with what it left    *)
(* behind.  A block that fork choice refuses is evidence against its       *)
(* producer when the node's block at that height is theirs too.            *)
handle_new_block(n, b) ==
    LET h == Len(b)
        a == b[h].producer
        equivocation(ours) == h \in DOMAIN ours /\ ours[h].producer = a /\ SubSeq(ours, 1, h) # b
        fork(r) == IF ~r.ok /\ equivocation(r.n.chain) THEN process_equivocation(r.n, a) ELSE r.n
    IN  IF AddResult(n, b) \in {"InvalidHeight", "InvalidPrevHash"}
        THEN fork(add_block_with_fork_choice(add_block(n, b), b))
        ELSE add_block(n, b)

(* The restart: the tree is built from the stored blocks with the stored   *)
(* stakes, then the state is replayed.                                     *)
with_storage(n) ==
    LET put(m, h) == tree_insert(m, SubSeq(n.chain, 1, h), n.accounts[n.chain[h].producer].staked)
    IN  rebuild_canonical_state(
            FoldLeftDomain(put, [n EXCEPT !.tree = (<<>> :> 0), !.tip = <<>>], n.chain))
=============================================================================
