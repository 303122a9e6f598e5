----------------------------- MODULE EpochLedger -----------------------------
(***************************************************************************)
(* Nodes that produce and apply blocks over epoch boundaries: transactions *)
(* enter the pools, leaders create and apply blocks, the other nodes apply *)
(* them or a fork with them, nodes slash equivocators on evidence and are  *)
(* restarted.  Finality is the subject of ChainNode: no votes are cast     *)
(* here.                                                                   *)
(***************************************************************************)
EXTENDS LedgerOps

LOCAL INSTANCE FiniteSets
LOCAL INSTANCE SequencesExt

CONSTANTS Nodes,      \* the validators that run a node
          Scenarios,  \* sets of behaviours to explore: records of
                      \*   draws      the hashes of the chain, as slot leaders draw them
                      \*   nodes      the validators that are up
                      \*   peers      how many peers each of them is connected to
                      \*   late       whether they also produce later than they could
                      \*   txs        transactions that users submit
                      \*   offenders  validators against which evidence circulates
                      \*   delivery   "linear"  a leader has every block, and blocks arrive
                      \*                        in order
                      \*              "forks"   leaders miss each other's blocks, a block
                      \*                        arrives once and after its parent, and the
                      \*                        nodes agree on a head before an epoch ends
                      \*              "any"     gossip delivers any block at any time
          MaxHeight,  \* bound on the chain
          MaxWait     \* bound on the timeouts between two blocks

ASSUME NodesAssumption ==
    /\ Nodes \subseteq Addresses
    /\ MaxWait \in Nat /\ MaxWait >= Cardinality(Addresses) - 1
    /\ \A s \in Scenarios : s.nodes \subseteq Nodes /\ s.offenders \subseteq Addresses

VARIABLES scenario,   \* what happens in this behaviour; never changes
          ledger,     \* node -> its ledger
          produced    \* the blocks broadcast so far

vars == <<scenario, ledger, produced>>

Init == /\ scenario \in Scenarios
        /\ ledger = [n \in Nodes |-> new_ledger(scenario.draws)]
        /\ produced = {}

(* add_transaction: the pool and the transaction must execute on the       *)
(* head's accounts, and a transaction enters a pool once.                  *)
Admissible(n, tx) ==
    LET h   == Len(n.chain) + 1
        run == FoldLeft(LAMBDA r, t : IF ~r.ok THEN r
                                      ELSE apply_user_transaction(r.accounts, t, h),
                        [ok |-> TRUE, accounts |-> n.accounts], Append(n.pending, tx))
    IN  run.ok /\ ~Contains(n.pending, tx)

SubmitTransaction(n, tx) ==
    /\ n \in scenario.nodes
    /\ Admissible(ledger[n], tx)
    /\ ledger' = [ledger EXCEPT ![n].pending = Append(@, tx)]
    /\ UNCHANGED <<scenario, produced>>

(* The slot-leader gate of the production tick: the ranks at which n leads *)
(* the next slot, of those allowed by the size of the frozen snapshot of   *)
(* its epoch, 0 while it is not frozen.  A backup without peers waits.     *)
MyRanks(n, waited) ==
    LET l == ledger[n]
        h == Len(l.chain) + 1
        frozen == IF EpochOf(h) \in DOMAIN l.epoch_snapshots
                  THEN Cardinality(DOMAIN l.epoch_snapshots[EpochOf(h)]) ELSE 0
        leads(rank) == slot_leader_at_rank(l, snapshot_for_height(l, h), h, rank) = n
    IN  { rank \in 0..allowed_backup_rank_for_height(h, waited, frozen) :
            /\ leads(rank) /\ \A k \in 0..(rank - 1) : ~leads(k)
            /\ rank > 0 => scenario.peers > 0 }

(* What the delivery of the scenario asks of a leader, and of an arrival. *)
MayProduce(n) ==
    CASE scenario.delivery = "linear" -> \A b \in produced : Len(b) <= Len(ledger[n].chain)
      [] scenario.delivery = "forks"  -> IsBoundary(Len(ledger[n].chain) + 1)
                                            => \A m \in scenario.nodes : ledger[m].chain = ledger[n].chain
      [] scenario.delivery = "any"    -> TRUE

MayArrive(n, b) ==
    CASE scenario.delivery = "linear" -> Len(b) = Len(ledger[n].chain) + 1
      [] scenario.delivery = "forks"  -> Front(b) \in DOMAIN ledger[n].tree
                                            /\ b \notin DOMAIN ledger[n].tree
      [] scenario.delivery = "any"    -> TRUE

(* The production tick: the block is broadcast only if add_block takes it. *)
Produce(n, waited) ==
    /\ n \in scenario.nodes
    /\ Len(ledger[n].chain) < MaxHeight
    /\ MayProduce(n)
    /\ \E rank \in MyRanks(n, waited) : scenario.late \/ waited = rank
    /\ Authorized(ledger[n], n, Len(ledger[n].chain) + 1, waited)
    /\ LET b == create_block(ledger[n], n, waited) IN
       /\ ledger' = [ledger EXCEPT ![n] = add_block(@, b)]
       /\ produced' = IF Accepts(ledger[n], b) THEN produced \cup {b} ELSE produced
    /\ UNCHANGED scenario

ReceiveBlock(n, b) ==
    /\ n \in scenario.nodes
    /\ MayArrive(n, b)
    /\ ledger' = [ledger EXCEPT ![n] = handle_new_block(@, b)]
    /\ UNCHANGED <<scenario, produced>>

ProcessEquivocation(n, a) ==
    /\ n \in scenario.nodes
    /\ a \notin ledger[n].slashed
    /\ ledger' = [ledger EXCEPT ![n] = process_equivocation(@, a)]
    /\ UNCHANGED <<scenario, produced>>

(* A restart rebuilds the state from the stored chain; a node whose chain  *)
(* does not replay does not come up.                                       *)
Restart(n) ==
    /\ n \in scenario.nodes
    /\ \E r \in {with_storage(ledger[n])} : r.ok /\ ledger' = [ledger EXCEPT ![n] = r.n]
    /\ UNCHANGED <<scenario, produced>>

Next == \E n \in Nodes :
            \/ \E tx \in scenario.txs : SubmitTransaction(n, tx)
            \/ \E waited \in 0..MaxWait : Produce(n, waited)
            \/ \E b \in produced : ReceiveBlock(n, b)
            \/ \E a \in scenario.offenders : ProcessEquivocation(n, a)
            \/ Restart(n)

Spec == Init /\ [][Next]_vars

-----------------------------------------------------------------------------
(* The replay paths are kept "in lockstep with the live add_block path"    *)
(* (core/chain/replay.rs): a restart finds the accounts, the missed epochs *)
(* and the frozen validator sets the running node had.  Slashing is        *)
(* outside it: process_equivocation writes the accounts between two blocks *)
(* and no block records it.                                                *)
ReplayMatchesLive ==
    \A n \in Nodes :
        ledger[n].slashed = {} =>
            \E r \in {rebuild_canonical_state(ledger[n])} : r.ok /\ r.n = ledger[n]

(* Whoever the production tick lets through, at whatever time, creates a   *)
(* block that passes its own add_block: "Callers ... get an owned Block    *)
(* they can broadcast or feed to add_block for adoption"                   *)
(* (core/chain/produce.rs).  The tick, create_block and add_block each     *)
(* derive the allowed rank and the state from other sources.               *)
ProducedIsAccepted ==
    \A n \in scenario.nodes, waited \in 0..MaxWait : MyRanks(n, waited) # {} =>
        /\ Authorized(ledger[n], n, Len(ledger[n].chain) + 1, waited)
        /\ Accepts(ledger[n], create_block(ledger[n], n, waited))

(* "a 3-validator ring iterates through all three before wrapping"         *)
(* (slot_leader_at_rank): whichever validators are down, a validator that  *)
(* is up, has peers and is in the frozen snapshot of the next block's      *)
(* epoch may produce that block after so many timeouts as the snapshot has *)
(* other validators.  Block 1 and the first block of an epoch are outside  *)
(* it: the tick finds no frozen snapshot and lets the primary alone in.    *)
SlotIsFilled ==
    \A n \in scenario.nodes :
        LET e == EpochOf(Len(ledger[n].chain) + 1)
            snapshots == ledger[n].epoch_snapshots
        IN  scenario.peers > 0 /\ e \in DOMAIN snapshots /\ n \in DOMAIN snapshots[e]
               => MyRanks(n, Cardinality(DOMAIN snapshots[e]) - 1) # {}

(* A broadcast block is accepted by every node whose head is its parent:   *)
(* "a rejected block leaves no trace" (add_block), so that, while no node  *)
(* slashes anyone, all nodes at a head agree.                              *)
NextBlockIsAccepted ==
    scenario.offenders = {} => \A n \in Nodes, b \in produced :
        Front(b) = ledger[n].chain => Accepts(ledger[n], b)

(* A broadcast block that arrives after its parent gets into the node's    *)
(* tree, whichever branch the node is on, and the node is then on the      *)
(* heaviest branch, with nobody slashed.  On its head the node accepts it  *)
(* with the state add_block keeps; on a fork it executes it on a replay    *)
(* that is kept "in lockstep with the live add_block path so the           *)
(* recomputed state root agrees" (core/chain/replay.rs), and the reorg     *)
(* replays the new chain once more.  Branches that part before an epoch    *)
(* ends and meet after it are outside it: the replay takes producers and   *)
(* frozen validators from the node's own chain, and                        *)
(* add_block_with_fork_choice does not settle before the fork block.       *)
BroadcastIsAccepted ==
    scenario.delivery # "any" /\ scenario.offenders = {} =>
        \A n \in scenario.nodes, b \in produced :
            MayArrive(n, b) /\ ~TooOld(ledger[n], b) =>
                \E m \in {handle_new_block(ledger[n], b)} :
                    b \in DOMAIN m.tree /\ m.chain = m.tip /\ m.slashed = {}

(* "Permanently slashed validators cannot participate"                     *)
(* (ProofOfStake::active_validators): whatever their remaining stake, and  *)
(* also once their jail time is over, no epoch frozen after a node slashed *)
(* a validator lists it, on the live path and on replay alike.             *)
SlashedNeverFrozen ==
    [][ \A n \in Nodes : \A e \in DOMAIN ledger'[n].epoch_snapshots :
            \/ e \in DOMAIN ledger[n].epoch_snapshots
               /\ ledger'[n].epoch_snapshots[e] = ledger[n].epoch_snapshots[e]
            \/ DOMAIN ledger'[n].epoch_snapshots[e] \cap ledger[n].slashed = {} ]_vars
=============================================================================
