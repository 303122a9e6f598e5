------------------------------ MODULE NodeApi -------------------------------
(***************************************************************************)
(* A node that is asked to take transactions: over HTTP, over the RPC      *)
(* port, through eth_sendRawTransaction, from its peers, and by its own    *)
(* faucet (api/mod.rs, rpc/mod.rs, api/eth_rpc.rs, network/mod.rs), while  *)
(* blocks are produced and received and the clock goes on.                 *)
(*                                                                         *)
(* A request holds the lock of the chain for one step.  A faucet request   *)
(* takes several: it reserves its cooldowns, sends the transfer, and       *)
(* either takes the reservation back or writes the two cooldown files.     *)
(* The process may die between any two steps.                              *)
(***************************************************************************)
EXTENDS MempoolOps

LOCAL INSTANCE Sequences
LOCAL INSTANCE SequencesExt
LOCAL INSTANCE FiniteSets

CONSTANTS GenesisBalance, BlockReward, Proposer,
          FaucetAddress, FAUCET_AMOUNT, FaucetFee,
          FAUCET_COOLDOWN_SECS, FaucetIpCooldownSecs,
          Scenarios           \* name -> what may happen in a behaviour: sent, the
                              \* transactions that arrive; mined, the transactions
                              \* in the blocks of others; asked, the addresses and
                              \* IPs of the faucet requests; the bounds max_height,
                              \* max_clock and max_restarts

VARIABLES scenario,
          clock,
          chain,         \* state, height, next base fee and pool
          saved,         \* the pool on disk
          cooldowns,     \* addresses and IPs -> time of the last faucet request
          files,         \* the two cooldown maps on disk
          requests,      \* the faucet requests being served
          grants,        \* the faucet transfers that were admitted, in order; lost:
                         \* the process died before the cooldowns were written
          restarts

vars == <<scenario, clock, chain, saved, cooldowns, files,
          requests, grants, restarts>>
faucet == <<cooldowns, files, requests, grants>>

Script == Scenarios[scenario]

genesis ==
    [ state |-> [ accounts |-> [a \in DOMAIN GenesisBalance |->
                                   [default_account EXCEPT !.balance = GenesisBalance[a]]],
                  contracts |-> EmptyMap, tokens |-> new_registry, governance |-> no_proposals ],
      height |-> 0, pool |-> <<>>,
      base_fee |-> next_base_fee_per_gas([height |-> 0, base_fee |-> InitialBaseFee,
                                          gas_used |-> 0]) ]

Init == /\ scenario \in DOMAIN Scenarios
        /\ clock = 0 /\ chain = genesis /\ saved = <<>>
        /\ cooldowns = [addr |-> EmptyMap, ip |-> EmptyMap] /\ files = cooldowns
        /\ requests = [r \in DOMAIN Script.asked |-> [phase |-> "idle"]]
        /\ grants = <<>> /\ restarts = 0

-----------------------------------------------------------------------------
(* The submit handlers of api and rpc, eth_sendRawTransaction and          *)
(* handle_new_transaction.                                                 *)
Submit(tx) ==
    \E r \in {add_transaction(chain, tx, clock)} :
    /\ chain' = r.chain
    /\ saved' = IF r.result = "Ok" THEN r.chain.pool ELSE saved
    /\ UNCHANGED <<scenario, clock, faucet, restarts>>

-----------------------------------------------------------------------------
(* The transactions of the pool that create_block puts in a block: one     *)
(* that fails is skipped, with what it left in the copy of the state.      *)
create_block(c) ==
    LET start == [c.state EXCEPT !.accounts = apply_unstake_unlocks(@, c.height + 1)]
        after(w, tx, r) ==
            LET fits == r.ok /\ w.gas_used + r.gas_used <= BlockGasLimit IN
            [ s |-> r.s, gas_used |-> w.gas_used + IF fits THEN r.gas_used ELSE 0,
              txs |-> IF fits THEN Append(w.txs, tx) ELSE w.txs ]
        next(w, tx) == after(w, tx, apply_user_transaction(w.s, tx, c.height + 1, c.base_fee))
    IN  FoldLeft(LAMBDA w, tx : only({next(v, tx) : v \in {w}}),
                 [s |-> start, gas_used |-> 0, txs |-> <<>>], c.pool).txs

remove_block_transactions_from_mempool(pool, txs) ==
    SelectSeq(pool, LAMBDA tx : ~Contains(txs, tx))

(* add_block: every transaction has to execute, within the gas limit. *)
add_block(c, txs) ==
    LET height == c.height + 1
        start == [ ok |-> TRUE, gas_used |-> 0, fees |-> 0,
                   s |-> [c.state EXCEPT !.accounts = apply_unstake_unlocks(@, height)] ]
        after(w, tx, r) ==
            [ ok |-> w.ok /\ r.ok, s |-> r.s, gas_used |-> w.gas_used + r.gas_used,
              fees |-> w.fees + priority_fee_for_transaction(tx, r.gas_used, c.base_fee) ]
        next(w, tx) == after(w, tx, apply_user_transaction(w.s, tx, height, c.base_fee))
        header(w) == [height |-> height, base_fee |-> c.base_fee, gas_used |-> w.gas_used]
        added(w) ==
            [ ok |-> w.ok /\ w.gas_used <= BlockGasLimit,
              chain |->
                [ state |-> [w.s EXCEPT
                     !.governance = process_block(@, height, active_validator_total_stake(
                                                      w.s.accounts, height), EpochLength),
                     !.accounts = credit(@, Proposer, BlockReward + w.fees)],
                  height |-> height,
                  base_fee |-> next_base_fee_per_gas(header(w)),
                  pool |-> remove_block_transactions_from_mempool(c.pool, txs) ] ]
    IN  added(FoldLeft(LAMBDA u, tx : only({next(v, tx) : v \in {u}}), start, txs))

(* A block of this node, or of another with transactions this node may     *)
(* not have.                                                               *)
Block(txs) ==
    \E r \in {add_block(chain, txs)} :
    /\ chain.height < Script.max_height /\ r.ok
    /\ chain' = r.chain /\ saved' = r.chain.pool
    /\ UNCHANGED <<scenario, clock, faucet, restarts>>

-----------------------------------------------------------------------------
(* POST /api/faucet/request, up to the reservation of both cooldowns. *)
FaucetReserve(r) ==
    LET q == Script.asked[r]
        over(map, key, secs) == \A k \in DOMAIN map \cap {key} : clock - map[k] >= secs
        previous(map, key) == IF key \in DOMAIN map THEN map[key] ELSE NoData
    IN  /\ requests[r].phase = "idle"
        /\ over(cooldowns.addr, q.addr, FAUCET_COOLDOWN_SECS)
        /\ over(cooldowns.ip, q.ip, FaucetIpCooldownSecs)
        /\ cooldowns' = [addr |-> insert(cooldowns.addr, q.addr, clock),
                         ip |-> insert(cooldowns.ip, q.ip, clock)]
        /\ requests' = [requests EXCEPT ![r] =
                           [ phase |-> "reserved", time |-> clock,
                             addr |-> previous(cooldowns.addr, q.addr),
                             ip |-> previous(cooldowns.ip, q.ip) ]]
        /\ UNCHANGED <<scenario, clock, chain, saved, files, grants, restarts>>

faucet_transfer(r) ==
    [new(FaucetAddress, Script.asked[r].addr, FAUCET_AMOUNT, FaucetFee,
         account(chain.state.accounts, FaucetAddress).nonce) EXCEPT !.timestamp = clock]

(* The transfer, under the lock of the chain, with the nonce of the        *)
(* account: a second one before the next block is a replacement.           *)
FaucetTransfer(r) ==
    LET tx == faucet_transfer(r)
        rich == account(chain.state.accounts, FaucetAddress).balance >= FAUCET_AMOUNT + FaucetFee
    IN  /\ requests[r].phase = "reserved"
        /\ \E add \in {IF rich THEN add_transaction(chain, tx, clock)
                        ELSE [result |-> "Depleted", chain |-> chain]} :
              LET ok == add.result = "Ok" IN
              /\ chain' = add.chain
              /\ saved' = IF ok THEN add.chain.pool ELSE saved
              /\ requests' = [requests EXCEPT ![r].phase = IF ok THEN "granted" ELSE "failed"]
              /\ grants' = IF ok THEN Append(grants, [by |-> r, time |-> requests[r].time,
                                                      lost |-> FALSE])
                           ELSE grants
        /\ UNCHANGED <<scenario, clock, cooldowns, files, restarts>>

(* rollback_cooldowns: the values from before the reservation. *)
LOCAL restored(map, key, before) ==
    IF before = NoData THEN Restrict(map, DOMAIN map \ {key}) ELSE insert(map, key, before)

FaucetRollback(r) ==
    LET q == Script.asked[r] IN
    /\ requests[r].phase = "failed"
    /\ cooldowns' = [ addr |-> restored(cooldowns.addr, q.addr, requests[r].addr),
                      ip |-> restored(cooldowns.ip, q.ip, requests[r].ip) ]
    /\ requests' = [requests EXCEPT ![r] = [phase |-> "idle"]]
    /\ UNCHANGED <<scenario, clock, chain, saved, files, grants, restarts>>

(* Mutant: only the cooldowns of the addresses are written. *)
FaucetPersist_addr_only(r) ==
    /\ requests[r].phase = "granted"
    /\ files' = [files EXCEPT !.addr = cooldowns.addr]
    /\ requests' = [requests EXCEPT ![r] = [phase |-> "idle"]]
    /\ UNCHANGED <<scenario, clock, chain, saved, cooldowns, grants, restarts>>

(* persist_faucet_cooldowns, then persist_faucet_ip_cooldowns: each writes *)
(* the whole map.                                                          *)
FaucetPersist(r) ==
    /\ requests[r].phase \in {"granted", "written"}
    /\ IF requests[r].phase = "granted"
       THEN /\ files' = [files EXCEPT !.addr = cooldowns.addr]
            /\ requests' = [requests EXCEPT ![r].phase = "written"]
       ELSE /\ files' = [files EXCEPT !.ip = cooldowns.ip]
            /\ requests' = [requests EXCEPT ![r] = [phase |-> "idle"]]
    /\ UNCHANGED <<scenario, clock, chain, saved, cooldowns, grants, restarts>>

-----------------------------------------------------------------------------
(* A request is served before its cooldown is over: an hour, against the   *)
(* moment that serving takes.                                              *)
Tick ==
    /\ clock < Script.max_clock
    /\ \A r \in DOMAIN requests :
          requests[r].phase # "idle" => clock + 1 < requests[r].time + FaucetIpCooldownSecs
    /\ clock' = clock + 1
    /\ UNCHANGED <<scenario, chain, saved, faucet, restarts>>

(* What get_all_pending_transactions_compat makes of a stored pool: the    *)
(* table is in the order of the hashes, and sorted by time and nonce.      *)
get_all_pending_transactions(pool) ==
    LET before(a, b) == \/ a.timestamp < b.timestamp
                        \/ a.timestamp = b.timestamp /\ a.nonce < b.nonce
    IN  { txs \in [DOMAIN pool -> ToSet(pool)] :
            /\ ToSet(txs) = ToSet(pool)
            /\ \A i, j \in DOMAIN txs : i < j => ~before(txs[j], txs[i]) }

(* The process dies and starts again: the pool and the cooldowns are what  *)
(* the disk has.  The pool is sorted as such only when the next            *)
(* transaction arrives.                                                    *)
Restart ==
    /\ restarts < Script.max_restarts /\ restarts' = restarts + 1
    /\ \E txs \in get_all_pending_transactions(saved) : chain' = [chain EXCEPT !.pool = txs]
    /\ cooldowns' = files
    /\ requests' = [r \in DOMAIN requests |-> [phase |-> "idle"]]
    /\ grants' = [g \in DOMAIN grants |->
                     LET q == requests[grants[g].by] IN
                     IF q.phase \in {"granted", "written"} /\ q.time = grants[g].time
                     THEN [grants[g] EXCEPT !.lost = TRUE] ELSE grants[g]]
    /\ UNCHANGED <<scenario, clock, saved, files>>

(* A transaction that the first gate refuses, as anyone may send it. *)
refused == coinbase_with_timestamp(Proposer, 1)

Next == \/ \E i \in DOMAIN Script.sent : Submit(Script.sent[i])
        \/ Submit(refused)
        \/ Block(create_block(chain))
        \/ \E i \in DOMAIN Script.mined : Block(<<Script.mined[i]>>)
        \/ \E r \in DOMAIN requests :
              FaucetReserve(r) \/ FaucetTransfer(r) \/ FaucetRollback(r) \/ FaucetPersist(r)
        \/ Tick
        \/ Restart

(* The pool as the pruning of an arriving transaction leaves it. *)
Pruned == prune_pending_transactions(chain, clock).pool = chain.pool

Served == \A r \in DOMAIN requests : requests[r].phase = "idle"

(* Time passes, the requests that are being served end, and transactions   *)
(* keep arriving, from whomever: each begins with pruning.                 *)
Spec == Init /\ [][Next]_vars /\ WF_vars(Tick) /\ []<>Served /\ []<>Pruned

-----------------------------------------------------------------------------
(* Once an arriving transaction has had the pool sorted, which it is not   *)
(* after a restart, the transactions of a sender are in the order of their *)
(* nonces, and no nonce twice, whatever the fees and classes: a block that *)
(* takes them from the front meets each nonce after the one before it.     *)
SenderOrderIsKept ==
    \A c \in {prune_pending_transactions(chain, clock)} : \A i, j \in DOMAIN c.pool :
        i < j /\ c.pool[i].from = c.pool[j].from => c.pool[i].nonce < c.pool[j].nonce

(* A user transaction that add_transaction accepts is in the pool when it  *)
(* returns, and the pool is within its limits: making room for it never    *)
(* takes it out again, and never stops short.  If estimate_transaction, a  *)
(* "[p]ure projection of the next block's state with `tx` admitted         *)
(* alongside the existing mempool" (estimate.rs), said that it executes,   *)
(* the next block holds it when there is room for the whole pool.          *)
AcceptedIsPending ==
    \A i \in DOMAIN Script.sent : \A r \in {add_transaction(chain, Script.sent[i], clock)} :
        LET tx == Script.sent[i] IN
        r.result = "Ok" =>
            /\ within_limits(r.chain.pool)
            /\ Contains(r.chain.pool, tx) \/ mempool_class(tx) = "System"
            /\ Pruned /\ pending_gas_usage(r.chain.pool) <= BlockGasLimit
                   /\ estimate_transaction(chain, tx).ok
               => Contains(create_block(r.chain), tx)

(* No transaction stays in the pool for good: one that can no longer       *)
(* execute, because its nonce was used by a block or an earlier one was    *)
(* pruned, makes every dry run fail, but the age limit removes it and      *)
(* admission works again.                                                  *)
NothingPendsForever ==
    \A s \in DOMAIN Scenarios : \A i \in DOMAIN Scenarios[s].sent :
        LET tx == Scenarios[s].sent[i] IN
        Contains(chain.pool, tx) ~> ~Contains(chain.pool, tx)

(* The faucet pays an address, and an IP, once in a cooldown, however the  *)
(* requests interleave, fail and roll back; a restart forgets a payment    *)
(* only when the process dies before the cooldown files are written.       *)
FaucetPaysOncePerCooldown ==
    \A i, j \in DOMAIN grants :
        LET p == Script.asked[grants[i].by]
            q == Script.asked[grants[j].by]
            apart == grants[j].time - grants[i].time
        IN  i < j /\ ~grants[i].lost =>
                /\ p.addr = q.addr => apart >= FAUCET_COOLDOWN_SECS
                /\ p.ip = q.ip => apart >= FaucetIpCooldownSecs
=============================================================================
