----------------------------- MODULE MempoolOps -----------------------------
(***************************************************************************)
(* core/chain/mempool.rs and estimate.rs: admission of a transaction to    *)
(* the pool, the order of the pool, pruning, eviction and estimation, as   *)
(* functions of the chain c: its state, its height, the base fee of the    *)
(* next block and its pool, a sequence of transactions.                    *)
(***************************************************************************)
EXTENDS ExecutionOps

LOCAL INSTANCE Sequences
LOCAL INSTANCE SequencesExt
LOCAL INSTANCE FiniteSetsExt
LOCAL INSTANCE FiniteSets

CONSTANTS RESERVED_SYSTEM_SLOTS, MAX_PENDING_TRANSACTIONS_USER,
          MAX_PENDING_TRANSACTIONS_PER_ACCOUNT, MAX_PENDING_GAS_BUDGET_MULTIPLIER,
          MAX_PENDING_GAS_PER_ACCOUNT_MULTIPLIER, MAX_PENDING_NONCE_GAP,
          MAX_PENDING_TX_AGE_SECS, MAX_FUTURE_TX_TIME_SECS, MAX_CONTRACT_CODE_BYTES,
          PriorityGasUnit,    \* 250_000: the gas that one congestion floor pays for
          SurchargeGasUnit    \* 100_000: the gas that one surcharge pays for

(* The element of a singleton: only({F(x) : x \in {e}}) is F(e), where e    *)
(* is evaluated once however often F uses it.                              *)
only(S) == CHOOSE x \in S : TRUE

LOCAL gas(tx) == estimated_gas_for_admission(tx)
LOCAL units(tx, unit) == Most((gas(tx) + unit - 1) \div unit, 1)
LOCAL total_gas(txs) == FoldLeft(LAMBDA t, tx : t + gas(tx), 0, txs)

pending_gas_usage(pool) == total_gas(pool)
pending_gas_budget == BlockGasLimit * MAX_PENDING_GAS_BUDGET_MULTIPLIER
count_pending_by_class(pool, class) ==
    Cardinality({i \in DOMAIN pool : mempool_class(pool[i]) = class})

(* The steps at 50, 70, 85 and 95 percent of the gas budget. *)
LOCAL Step(usage, at50, at70, at85, at95) ==
    LET pct == (usage * 100) \div Most(pending_gas_budget, 1) IN
    CASE pct >= 95 -> at95
      [] pct >= 85 /\ pct < 95 -> at85
      [] pct >= 70 /\ pct < 85 -> at70
      [] pct >= 50 /\ pct < 70 -> at50
      [] OTHER -> 0

minimum_priority_fee_per_gas_for_usage(tx, usage) ==
    Step(usage, 2, 4, 8, 12) * units(tx, PriorityGasUnit)

minimum_admission_fee(tx, base_fee, usage) ==
    gas(tx) * (base_fee + minimum_priority_fee_per_gas_for_usage(tx, usage))
    + Step(usage, 1, 2, 4, 8) * units(tx, SurchargeGasUnit)

-----------------------------------------------------------------------------
(* compare_fee_priority(a, b) is Less *)
better_fee(a, b, base_fee) ==
    LET fa == priority_fee_per_gas(a, base_fee) * Most(gas(b), 1)
        fb == priority_fee_per_gas(b, base_fee) * Most(gas(a), 1)
    IN  fa > fb \/ (fa = fb /\ max_fee_per_gas(a) > max_fee_per_gas(b))

(* Mutant: the class decides for transactions of one sender too. *)
precedes_class_first(a, b, base_fee) ==
    IF mempool_class(a) # mempool_class(b) THEN mempool_class(a) = "System"
    ELSE IF a.from = b.from THEN a.nonce < b.nonce
    ELSE better_fee(a, b, base_fee)

(* The comparison of sort_pending_transactions is Less *)
precedes(a, b, base_fee) ==
    IF a.from = b.from
    THEN \/ a.nonce < b.nonce
         \/ a.nonce = b.nonce /\ max_fee_per_gas(a) > max_fee_per_gas(b)
    ELSE IF mempool_class(a) # mempool_class(b) THEN mempool_class(a) = "System"
    ELSE \/ better_fee(a, b, base_fee)
         \/ ~better_fee(b, a, base_fee) /\ a.timestamp < b.timestamp

(* sort_by of a short slice is an insertion from the right.  The order is  *)
(* not transitive (nonces within a sender, fees across senders), so that   *)
(* the result depends on where the insertion stops.                        *)
LOCAL insert_sorted(sorted, tx, base_fee) ==
    LET stops == {i \in DOMAIN sorted : ~precedes(tx, sorted[i], base_fee)}
    IN  InsertAt(sorted, Max(stops \cup {0}) + 1, tx)

sort_pending_transactions(pool, base_fee) ==
    FoldLeft(LAMBDA sorted, tx : only({insert_sorted(s, tx, base_fee) : s \in {sorted}}),
             <<>>, pool)

(* Mutant: a transaction does not grow too old. *)
prune_pending_transactions_fees_only(c, now) ==
    LET keep(tx) == max_fee_per_gas(tx) >= c.base_fee
    IN  [c EXCEPT !.pool = sort_pending_transactions(SelectSeq(@, keep), c.base_fee)]

prune_pending_transactions(c, now) ==
    LET usage == pending_gas_usage(c.pool)
        keep(tx) ==
            /\ tx.timestamp >= now - MAX_PENDING_TX_AGE_SECS
            /\ max_fee_per_gas(tx) >= c.base_fee
            /\ priority_fee_per_gas(tx, c.base_fee)
                 >= minimum_priority_fee_per_gas_for_usage(tx, usage)
    IN  [c EXCEPT !.pool = sort_pending_transactions(SelectSeq(@, keep), c.base_fee)]

-----------------------------------------------------------------------------
(* min_by over the pool: y takes the place of x when it is strictly worse. *)
LOCAL worse(y, x, base_fee) ==
    IF x.from = y.from
    THEN \/ y.nonce > x.nonce
         \/ y.nonce = x.nonce /\ max_fee_per_gas(x) > max_fee_per_gas(y)
    ELSE better_fee(x, y, base_fee)

(* 0 for None *)
worst_pending_transaction_index_in_class(pool, class, base_fee) ==
    LET worst(m, i) == IF mempool_class(pool[i]) # class THEN m
                       ELSE IF m = 0 THEN i
                       ELSE IF worse(pool[i], pool[m], base_fee) THEN i ELSE m
    IN  FoldLeft(LAMBDA m, i : only({worst(n, i) : n \in {m}}), 0, [i \in DOMAIN pool |-> i])

evict_transaction_and_dependents(pool, index) ==
    LET evicted == pool[index]
        stays(tx) == ~(tx.from = evicted.from /\ tx.nonce > evicted.nonce)
    IN  SelectSeq(RemoveAt(pool, index), stays)

over_gas(pool) == pending_gas_usage(pool) > pending_gas_budget
within_limits(pool) ==
    /\ count_pending_by_class(pool, "User") <= MAX_PENDING_TRANSACTIONS_USER
    /\ count_pending_by_class(pool, "System") <= RESERVED_SYSTEM_SLOTS
    /\ ~over_gas(pool)

(* The candidates for eviction are of the User class, then of the System   *)
(* class; when it is the turn of the new transaction the call fails and    *)
(* leaves the pool as it is.                                               *)
RECURSIVE enforce_mempool_limits(_, _, _)
enforce_mempool_limits(pool, protected, base_fee) ==
    LET user == worst_pending_transaction_index_in_class(pool, "User", base_fee)
        index == IF user # 0 THEN user
                 ELSE worst_pending_transaction_index_in_class(pool, "System", base_fee)
    IN  IF within_limits(pool) \/ index = 0 THEN [result |-> "Ok", pool |-> pool]
        ELSE IF pool[index] = protected
        THEN [result |-> IF over_gas(pool) THEN "FeeTooLow" ELSE "MempoolFull", pool |-> pool]
        ELSE enforce_mempool_limits(evict_transaction_and_dependents(pool, index),
                                    protected, base_fee)

-----------------------------------------------------------------------------
(* The transactions one after the other, up to the first that fails. *)
dry_run(c, txs) ==
    LET apply(r, tx) == IF r.ok THEN apply_user_transaction(r.s, tx, c.height + 1,
                                                            c.base_fee)
                        ELSE r
    IN  FoldLeft(LAMBDA r, tx : only({apply(q, tx) : q \in {r}}),
                 [ok |-> TRUE, gas_used |-> 0, s |-> c.state], txs)

replacement_index(pool, tx) ==
    SelectInSeq(pool, LAMBDA p : p.from = tx.from /\ p.nonce = tx.nonce)

LOCAL bumped(x, pct) == Most(x + (x * pct) \div 100, x + 1)

replacement_pays(tx, existing, base_fee) ==
    /\ total_fee_cap(tx) >= bumped(total_fee_cap(existing), 10)
    /\ max_fee_per_gas(tx) >= bumped(max_fee_per_gas(existing), 10)
    /\ priority_fee_per_gas(tx, base_fee) >= bumped(priority_fee_per_gas(existing, base_fee), 25)

(* The gates that look at the transaction alone, then at its fees, its     *)
(* nonce, and the room for it; the name of the first that fails, or "Ok".  *)
admission_gate(c, tx, now) ==
    LET usage == pending_gas_usage(c.pool)
        nonce == account(c.state.accounts, tx.from).nonce
        index == replacement_index(c.pool, tx)
        mine(p) == p.from = tx.from
        class == mempool_class(tx)
        slots == IF class = "System" THEN RESERVED_SYSTEM_SLOTS ELSE MAX_PENDING_TRANSACTIONS_USER
    IN  IF \/ is_coinbase(tx) \/ tx.chain_id # ChainId
           \/ tx.timestamp > now + MAX_FUTURE_TX_TIME_SECS
           \/ gas(tx) > BlockGasLimit
           \/ tx.kind = "DeployContract" /\ tx.size > MAX_CONTRACT_CODE_BYTES
        THEN "InvalidTransactionFormat"
        ELSE IF \/ max_fee_per_gas(tx) < c.base_fee
                \/ priority_fee_per_gas(tx, c.base_fee)
                     < minimum_priority_fee_per_gas_for_usage(tx, usage)
                \/ total_fee_cap(tx) < minimum_admission_fee(tx, c.base_fee, usage)
        THEN "FeeTooLow"
        ELSE IF tx.nonce < nonce \/ tx.nonce > nonce + MAX_PENDING_NONCE_GAP
        THEN "InvalidTransactionFormat"
        ELSE IF /\ index = 0
                /\ \/ count_pending_by_class(c.pool, class) >= slots
                   \/ Len(SelectSeq(c.pool, mine)) >= MAX_PENDING_TRANSACTIONS_PER_ACCOUNT
                   \/ total_gas(SelectSeq(c.pool, mine)) + gas(tx)
                        > BlockGasLimit * MAX_PENDING_GAS_PER_ACCOUNT_MULTIPLIER
        THEN "MempoolFull"
        ELSE IF Contains(c.pool, tx) THEN "DuplicateTransaction"
        ELSE IF index # 0 /\ ~replacement_pays(tx, c.pool[index], c.base_fee)
        THEN "ReplacementFeeTooLow"
        ELSE "Ok"

(* Mutant: the limits are not enforced after the transaction is in. *)
admit_unbounded(c, tx, now) ==
    LET index == replacement_index(c.pool, tx)
        others == IF index = 0 THEN c.pool ELSE RemoveAt(c.pool, index)
        decided(gate) ==
            IF gate # "Ok" THEN [result |-> gate, chain |-> c]
            ELSE IF ~dry_run(c, Append(others, tx)).ok THEN [result |-> "DryRun", chain |-> c]
            ELSE [ result |-> "Ok",
                   chain |-> [c EXCEPT !.pool = sort_pending_transactions(
                                 IF index = 0 THEN Append(@, tx) ELSE [@ EXCEPT ![index] = tx],
                                 c.base_fee)] ]
    IN  decided(admission_gate(c, tx, now))

(* add_transaction on the pruned pool: a transaction that                  *)
(* enforce_mempool_limits refuses stays in the pool.                       *)
admit(c, tx, now) ==
    LET index == replacement_index(c.pool, tx)
        others == IF index = 0 THEN c.pool ELSE RemoveAt(c.pool, index)
        grown == IF index = 0 THEN Append(c.pool, tx) ELSE [c.pool EXCEPT ![index] = tx]
        kept(limited) ==
            [ result |-> limited.result,
              chain |-> [c EXCEPT !.pool =
                            IF limited.result # "Ok" THEN limited.pool
                            ELSE sort_pending_transactions(limited.pool, c.base_fee)] ]
        decided(gate) ==
            IF gate # "Ok" THEN [result |-> gate, chain |-> c]
            ELSE IF ~dry_run(c, Append(others, tx)).ok THEN [result |-> "DryRun", chain |-> c]
            ELSE kept(enforce_mempool_limits(grown, tx, c.base_fee))
    IN  decided(admission_gate(c, tx, now))

(* Pruning comes first, and stays when the transaction is refused. *)
add_transaction(chain, tx, now) ==
    only({admit(c, tx, now) : c \in {prune_pending_transactions(chain, now)}})

(* estimate_transaction: the fee that the transaction would pay after the  *)
(* others of the pool.                                                     *)
estimate_transaction(c, tx) ==
    LET index == replacement_index(c.pool, tx)
        others == IF index = 0 THEN c.pool ELSE RemoveAt(c.pool, index)
        projected(r) ==
            LET ok == ~is_coinbase(tx) /\ tx.chain_id = ChainId /\ r.ok IN
            [ ok |-> ok,
              total_fee_charged |-> IF ok THEN r.gas_used * effective_gas_price(tx, c.base_fee)
                                    ELSE 0,
              would_replace_pending |-> index # 0 ]
    IN  projected(dry_run(c, Append(others, tx)))
=============================================================================
