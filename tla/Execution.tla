------------------------------ MODULE Execution ------------------------------
(***************************************************************************)
(* Blocks of transactions of every kind executed one after the other.  A   *)
(* block works on a copy of the committed state, as the projected_*        *)
(* locals of validate_block_against_state and create_block: validation     *)
(* drops the copy at the first transaction that fails and commits it at    *)
(* the end; production skips a transaction that fails, goes on with what   *)
(* it left in the copy, and drops the copy at the end.                     *)
(***************************************************************************)
EXTENDS ExecutionOps, FiniteSets

CONSTANTS GenesisBalance,   \* address -> allocation
          GenesisStake,     \* address -> allocation, staked
          BlockReward, Proposer,
          Menus             \* name -> the transactions that users may send, with
                            \* the bounds max_height and max_txs

ASSUME ExecutionAssumption ==
    /\ {GAS_BASE_TX, EpochLength} \subseteq Nat \ {0}
    /\ {GAS_DEPLOY, GAS_CALL, GAS_PER_BYTE, MinimumStake, UnstakeDelay, InitialBaseFee,
        BaseFeeChangeDenominator, BlockReward, BlockGasLimit} \subseteq Nat
    /\ IsFiniteSet(DOMAIN GenesisBalance) /\ DOMAIN GenesisStake = DOMAIN GenesisBalance
    /\ \A a \in DOMAIN GenesisBalance : {GenesisBalance[a], GenesisStake[a]} \subseteq Nat
    /\ Proposer \in Addresses
    /\ APPROVAL_PERCENT \in Nat \ {0}

(* The amounts, prices, limits and sizes in a transaction, and in the      *)
(* parameters its data decodes to, are unsigned integers.  A slot of the   *)
(* EVM has 32 bytes, and no key of the example contracts has that length.  *)
IsTransaction(tx) ==
    /\ {"kind", "chain_id", "from", "signer", "to", "amount", "fee", "max_fee", "max_priority",
        "nonce", "gas_limit", "data", "size", "raw"} \subseteq DOMAIN tx
    /\ tx.kind \in Kinds
    /\ {tx.amount, tx.fee, tx.max_fee, tx.max_priority, tx.gas_limit, tx.size} \subseteq Nat
    /\ tx.kind = "DeployToken" /\ tx.data # NoData => tx.data.total_supply \in Nat
    /\ tx.kind \in {"TokenTransfer", "TokenTransferFrom"} /\ tx.data # NoData =>
          tx.data.amount \in Nat
    /\ tx.kind \in EvmKinds => tx.data.gas \in Nat /\ tx.data.slot[1] \notin KeyPrefixes

(* The programs a menu deploys. *)
Deployed(m) == {Menus[m].txs[i].to : i \in {j \in DOMAIN Menus[m].txs :
                                              Menus[m].txs[j].kind = "DeployContract"}}

(* Any call may reach any contract that is deployed. *)
ASSUME MenusAssumption ==
    \A m \in DOMAIN Menus : \A i \in DOMAIN Menus[m].txs :
        LET tx == Menus[m].txs[i] IN
        /\ IsTransaction(tx)
        /\ tx.kind = "CallContract" => \A code \in Deployed(m) : IsCallOf(code, tx.data)

VARIABLES menu,        \* the menu of this behaviour
          phase,       \* "idle", or the block that runs: "validate" or "create"
          header,      \* of the last committed block: height, base fee, gas used
          committed,   \* the chain's state
          work,        \* the copy a block works on
          block,       \* of the block that runs: gas used, priority fees
          supply       \* genesis, plus rewards, minus base fees and what leaked

vars == <<menu, phase, header, committed, work, block, supply>>

genesis_state ==
    [ accounts |-> [a \in DOMAIN GenesisBalance |->
                       [default_account EXCEPT !.balance = GenesisBalance[a],
                                               !.staked = GenesisStake[a],
                                               !.active_from =
                                                   IF GenesisStake[a] >= MinimumStake
                                                   THEN 1 ELSE 0]],
      contracts |-> EmptyMap, tokens |-> new_registry, governance |-> no_proposals ]

(* Every unit in an account: its balance, its stake, its pending unstakes. *)
worth(a) == a.balance + a.staked + SumFunction(a.pending_unstakes)
Wealth(accounts) == SumFunction([a \in DOMAIN accounts |-> worth(accounts[a])])

height == header.height
base_fee == next_base_fee_per_gas(header)

new_block == [gas_used |-> 0, priority_fees |-> 0, burned |-> 0, leaked |-> 0]

Init == /\ menu \in DOMAIN Menus
        /\ phase = "idle"
        /\ header = [height |-> 0, base_fee |-> InitialBaseFee, gas_used |-> 0]
        /\ committed = genesis_state /\ work = genesis_state
        /\ block = new_block
        /\ supply = Wealth(genesis_state.accounts)

BeginBlock(p) ==
    /\ phase = "idle" /\ height < Menus[menu].max_height
    /\ phase' = p
    /\ work' = [committed EXCEPT !.accounts = apply_unstake_unlocks(@, height + 1)]
    /\ block' = new_block
    /\ UNCHANGED <<menu, header, committed, supply>>

(* What a transaction costs beside its fee that nobody is credited with:   *)
(* an unstake pays its amount from the balance as well as from the stake,  *)
(* the amount of a deployment and of a token or governance transaction has *)
(* no recipient, and revm charges on its own account.                      *)
leak(tx, before, after, fee) ==
    CASE tx.kind \in {"Unstake", "DeployContract"} \cup ParameterKinds -> tx.amount
      [] tx.kind \in EvmKinds -> Wealth(before) - Wealth(after) - fee
      [] OTHER -> 0

(* The block with one more transaction. *)
ran(r, tx) ==
    [ gas_used |-> block.gas_used + r.gas_used,
      priority_fees |-> block.priority_fees +
                           priority_fee_for_transaction(tx, r.gas_used, base_fee),
      burned |-> block.burned + r.gas_used * base_fee,
      leaked |-> block.leaked + leak(tx, work.accounts, r.s.accounts,
                                     r.gas_used * effective_gas_price(tx, base_fee)) ]

(* One transaction of the block under validation. *)
Validate(tx) ==
    /\ phase = "validate"
    /\ \E r \in {apply_user_transaction(work, tx, height + 1, base_fee)} :
          IF r.ok /\ block.gas_used + r.gas_used <= BlockGasLimit
          THEN work' = r.s /\ block' = ran(r, tx) /\ phase' = phase
          ELSE work' = committed /\ block' = new_block /\ phase' = "idle"
    /\ UNCHANGED <<menu, header, committed, supply>>

(* One transaction of the pool under production. *)
Include(tx) ==
    /\ phase = "create"
    /\ \E r \in {apply_user_transaction(work, tx, height + 1, base_fee)} :
          /\ work' = r.s
          /\ block' = IF r.ok /\ block.gas_used + r.gas_used <= BlockGasLimit
                      THEN ran(r, tx) ELSE block
    /\ UNCHANGED <<menu, phase, header, committed, supply>>

(* Mutant: the reward leaves the priority fees out. *)
coinbase_amount_reward_only(fees) == BlockReward

coinbase_amount(fees) == BlockReward + fees

(* The rest of validate_block_against_state, and the commit of add_block. *)
EndBlock ==
    LET amount == coinbase_amount(block.priority_fees)
        stake_total == active_validator_total_stake(work.accounts, height + 1)
        done == [work EXCEPT
                    !.accounts = credit(@, Proposer, amount),
                    !.governance = process_block(@, height + 1, stake_total, EpochLength)]
    IN  /\ phase = "validate"
        /\ committed' = done /\ work' = done
        /\ header' = [height |-> height + 1, base_fee |-> base_fee, gas_used |-> block.gas_used]
        /\ supply' = supply + BlockReward - block.burned - block.leaked
        /\ phase' = "idle" /\ block' = new_block
        /\ UNCHANGED menu

(* The produced block goes to validation; its copy of the state is gone. *)
DropCopy ==
    /\ phase = "create"
    /\ phase' = "idle" /\ work' = committed /\ block' = new_block
    /\ UNCHANGED <<menu, header, committed, supply>>

(* A user signs with the nonce it sees in its account. *)
Signed(tx) == [tx EXCEPT !.nonce = account(work.accounts, tx.from).nonce]

Executed(accounts) == SumFunction([a \in DOMAIN accounts |-> accounts[a].nonce])

Next == \/ \E p \in {"validate", "create"} : BeginBlock(p)
        \/ \E i \in DOMAIN Menus[menu].txs :
              LET tx == Signed(Menus[menu].txs[i]) IN
              /\ Executed(work.accounts) < Menus[menu].max_txs
              /\ Validate(tx) \/ Include(tx)
        \/ EndBlock
        \/ DropCopy

Spec == Init /\ [][Next]_vars

-----------------------------------------------------------------------------
(* A transaction creates and destroys nothing: outside a block the         *)
(* balances, the stakes and the pending unstakes add up to the genesis     *)
(* allocations and the rewards, less the base fees that were burned and    *)
(* the amounts that leak; inside a block also less the                     *)
(* priority fees the coinbase has yet to pay out.                          *)
ValueIsConserved ==
    phase # "create" =>
        Wealth(work.accounts) =
            supply - block.burned - block.priority_fees - block.leaked

(* The holders of a token have its total supply together, whatever is      *)
(* transferred, approved and transferred on behalf of others, to oneself   *)
(* included: the additions in transfer and transfer_from cannot overflow.  *)
TokenSupplyIsHeld ==
    \A t \in DOMAIN work.tokens.tokens :
        Held(work.tokens, t) = work.tokens.tokens[t].total_supply

stored(c, key) == IF key \in DOMAIN c.storage THEN c.storage[key] ELSE 0
present(c, key) == key \in DOMAIN c.storage /\ c.storage[key] # Empty

(* The storage of the example contracts is consistent after every call,    *)
(* one that runs out of gas between two writes included: balances add up   *)
(* to the supply, a vote is counted once and an action is executed exactly *)
(* when its count has reached the threshold, no more is released than      *)
(* vested, metadata belongs to a live token.                               *)
ContractStorageIsConsistent ==
    \A a \in DOMAIN work.contracts :
        LET c == work.contracts[a]
            keys(p) == {k \in DOMAIN c.storage : k[1] = p}
        IN  /\ c.code = <<"wasm", "erc20">> =>
                 SumFunctionOnSet(c.storage, keys("b")) = stored(c, <<"supply">>)
            /\ c.code = <<"wasm", "multisig">> =>
                 /\ \A k \in keys("c") :
                       c.storage[k] = Cardinality({v \in keys("v") : v[2] = k[2]})
                 /\ \A k \in keys("c") :
                       present(c, <<"e", k[2]>>) <=> c.storage[k] >= stored(c, <<"t">>)
            /\ c.code = <<"wasm", "vesting">> =>
                 stored(c, <<"released">>) <= stored(c, <<"total">>)
            /\ c.code = <<"wasm", "nft">> =>
                 \A k \in keys("m") : c.storage[k] # Empty => present(c, <<"o", k[2]>>)

(* A proposal counts each voter once, with the stake it had when the       *)
(* proposal was made, and passes with the approval of two thirds of the    *)
(* votes.                                                                  *)
VotesAreBacked ==
    \A id \in DOMAIN work.governance :
        LET p == work.governance[id] IN
        /\ p.voters \subseteq DOMAIN p.stake_snapshot
        /\ p.votes_for + p.votes_against = Weight(p)
        /\ p.status \in {"Passed", "Executed"} =>
              p.votes_for * 100 >= Weight(p) * APPROVAL_PERCENT /\ p.votes_for > 0
=============================================================================
