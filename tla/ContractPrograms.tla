-------------------------- MODULE ContractPrograms --------------------------
(***************************************************************************)
(* The host functions of vm/mod.rs, the wrappers of sdk/rust, and the      *)
(* contracts under sdk/rust/examples.                                      *)
(*                                                                         *)
(* A program runs on a context: its copy of the storage, the gas left, and *)
(* whether it trapped.  A host call charges gas first and traps when there *)
(* is not enough.  Storage maps keys to values; an absent key reads as     *)
(* Empty, or as the number 0.  A key is a tuple of its parts.  Input is    *)
(* the decoded call, with a selector sel; bytes too short for their        *)
(* selector are the call with sel 0.                                       *)
(***************************************************************************)
EXTENDS HashMaps, Sequences, TLC

CONSTANTS GAS_STORAGE_READ, GAS_STORAGE_WRITE, GAS_LOG,
          Empty,          \* the value of an absent key
          ZeroAddress

ASSUME ContractAssumption ==
    /\ {GAS_STORAGE_READ, GAS_STORAGE_WRITE, GAS_LOG} \subseteq Nat
    /\ Empty \notin Nat

(* charge_host_gas, with consume_gas *)
charge_host_gas(ctx, amount) ==
    IF ctx.trapped \/ ctx.gas < amount THEN [ctx EXCEPT !.trapped = TRUE]
    ELSE [ctx EXCEPT !.gas = @ - amount]

(* storage::get, storage::get_u64 and set, over storage_read and           *)
(* storage_write_bytes: a read is the charge, then the value.              *)
read(ctx) == charge_host_gas(ctx, GAS_STORAGE_READ)
get(ctx, key) == IF key \in DOMAIN ctx.storage THEN ctx.storage[key] ELSE Empty
get_u64(ctx, key) == IF key \in DOMAIN ctx.storage THEN ctx.storage[key] ELSE 0
is_set(ctx, key) == get(ctx, key) # Empty

set(ctx, key, value) ==
    LET c == charge_host_gas(ctx, GAS_STORAGE_WRITE) IN
    IF c.trapped THEN c ELSE [c EXCEPT !.storage = insert(@, key, value)]

(* log::emit, over emit_log_bytes *)
emit(ctx, topic) ==
    LET c == charge_host_gas(ctx, GAS_LOG) IN
    IF c.trapped THEN c ELSE [c EXCEPT !.logs = Append(@, topic)]

increment(ctx, key, delta) ==
    LET c == read(ctx) IN set(c, key, get_u64(c, key) + delta)

-----------------------------------------------------------------------------
(* examples/counter *)
counter(ctx, in) == emit(increment(ctx, <<"count">>, 1), "tick")

-----------------------------------------------------------------------------
(* examples/erc20-token; the sender is always sender_proxy's zero address *)
erc20_init(ctx, in) ==
    LET c == read(ctx) IN
    IF is_set(c, <<"init">>) THEN c
    ELSE emit(set(set(set(c, <<"init">>, 1), <<"supply">>, in.amount),
                  <<"b", in.to>>, in.amount), "init")

move_balance(ctx, from, to, amount) ==
    LET c == read(ctx)
        debited == read(set(c, <<"b", from>>, get_u64(c, <<"b", from>>) - amount))
    IN  IF get_u64(c, <<"b", from>>) < amount THEN c
        ELSE emit(set(debited, <<"b", to>>, get_u64(debited, <<"b", to>>) + amount), "transfer")

erc20_approve(ctx, in) ==
    emit(set(ctx, <<"a", ZeroAddress, in.to>>, in.amount), "approve")

erc20_transfer_from(ctx, in) ==
    LET key == <<"a", in.from, ZeroAddress>>
        c == read(ctx)
    IN  IF get_u64(c, key) < in.amount THEN c
        ELSE move_balance(set(c, key, get_u64(c, key) - in.amount), in.from, in.to, in.amount)

erc20(ctx, in) ==
    CASE in.sel = 1 -> erc20_init(ctx, in)
      [] in.sel = 2 -> move_balance(ctx, ZeroAddress, in.to, in.amount)
      [] in.sel = 3 -> erc20_approve(ctx, in)
      [] in.sel = 4 -> erc20_transfer_from(ctx, in)
      [] OTHER -> ctx

-----------------------------------------------------------------------------
(* examples/multisig *)
multisig_init(ctx, in) ==
    LET c == read(ctx)
        n == Len(in.owners)
        start == set(set(c, <<"t">>, in.threshold), <<"n">>, n)
        owner[i \in 0..n] ==
            IF i = 0 THEN start
            ELSE set(set(owner[i - 1], <<"o", ToString(i)>>, in.owners[i]),
                     <<"o!", in.owners[i]>>, 1)
    IN  IF is_set(c, <<"init">>) \/ n = 0 \/ in.threshold = 0 \/ in.threshold > n THEN c
        ELSE emit(set(owner[n], <<"init">>, 1), "init")

record_vote(ctx, aid, owner) ==
    LET c == read(ctx)
        voted == read(set(c, <<"v", aid, owner>>, 1))
        count == get_u64(voted, <<"c", aid>>) + 1
        counted == read(emit(set(voted, <<"c", aid>>, count), "approve"))
    IN  IF is_set(c, <<"v", aid, owner>>) THEN c
        ELSE IF count < get_u64(counted, <<"t">>) THEN counted
        ELSE LET e == read(counted) IN
             IF is_set(e, <<"e", aid>>) THEN e
             ELSE emit(set(e, <<"e", aid>>, 1), "executed")

multisig_propose(ctx, in) ==
    LET c == read(ctx)
        p == read(c)
    IN  IF ~is_set(c, <<"o!", in.owner>>) THEN c
        ELSE IF is_set(p, <<"p", in.aid>>) THEN p
        ELSE emit(record_vote(set(p, <<"p", in.aid>>, in.payload), in.aid, in.owner), "propose")

multisig_approve(ctx, in) ==
    LET c == read(ctx) IN
    IF is_set(c, <<"o!", in.owner>>) THEN record_vote(c, in.aid, in.owner) ELSE c

multisig(ctx, in) ==
    CASE in.sel = 1 -> multisig_init(ctx, in)
      [] in.sel = 2 -> multisig_propose(ctx, in)
      [] in.sel = 3 -> multisig_approve(ctx, in)
      [] OTHER -> ctx

-----------------------------------------------------------------------------
(* examples/vesting; view_state only writes a log *)
vesting_init(ctx, in) ==
    LET c == read(ctx) IN
    IF is_set(c, <<"init">>) \/ in.duration = 0 THEN c
    ELSE emit(set(set(set(set(set(set(c, <<"init">>, 1), <<"ben">>, in.beneficiary),
                                  <<"total">>, in.total), <<"start">>, in.start),
                          <<"dur">>, in.duration), <<"released">>, 0), "init")

unlocked(total, start, dur, now) ==
    IF now <= start THEN 0
    ELSE IF now >= start + dur THEN total
    ELSE (total * (now - start)) \div dur

vesting_release(ctx, in) ==
    LET c == read(read(read(read(read(ctx)))))
        amount == unlocked(get_u64(c, <<"total">>), get_u64(c, <<"start">>),
                           get_u64(c, <<"dur">>), in.now)
    IN  IF ~is_set(read(ctx), <<"init">>) THEN read(ctx)
        ELSE IF amount <= get_u64(c, <<"released">>) THEN c
        ELSE emit(read(set(c, <<"released">>, amount)), "release")

vesting(ctx, in) ==
    CASE in.sel = 1 -> vesting_init(ctx, in)
      [] in.sel = 2 -> vesting_release(ctx, in)
      [] in.sel = 3 -> emit(read(read(ctx)), "state")
      [] OTHER -> ctx

-----------------------------------------------------------------------------
(* examples/nft *)
nft_mint(ctx, in) ==
    LET c == read(ctx) IN
    IF is_set(c, <<"o", in.token>>) THEN c
    ELSE emit(set(set(c, <<"o", in.token>>, in.to), <<"m", in.token>>, in.metadata), "mint")

nft_transfer(ctx, in) ==
    LET c == read(ctx) IN
    IF get(c, <<"o", in.token>>) # in.from THEN c
    ELSE emit(set(c, <<"o", in.token>>, in.to), "transfer")

nft_burn(ctx, in) ==
    LET c == read(ctx) IN
    IF get(c, <<"o", in.token>>) # in.from THEN c
    ELSE emit(set(set(c, <<"o", in.token>>, Empty), <<"m", in.token>>, Empty), "burn")

nft(ctx, in) ==
    CASE in.sel = 1 -> nft_mint(ctx, in)
      [] in.sel = 2 -> nft_transfer(ctx, in)
      [] in.sel = 3 -> nft_burn(ctx, in)
      [] OTHER -> ctx

(* entrypoint!(run) of each crate; other code, EVM bytecode for one, does  *)
(* not compile to a module.                                                *)
run(code, ctx, in) ==
    CASE code = <<"wasm", "counter">> -> counter(ctx, in)
      [] code = <<"wasm", "erc20">> -> erc20(ctx, in)
      [] code = <<"wasm", "multisig">> -> multisig(ctx, in)
      [] code = <<"wasm", "vesting">> -> vesting(ctx, in)
      [] code = <<"wasm", "nft">> -> nft(ctx, in)
      [] OTHER -> [ctx EXCEPT !.trapped = TRUE]

-----------------------------------------------------------------------------
(* What the storage keys of the example contracts begin with. *)
KeyPrefixes == {"count", "init", "supply", "b", "a", "t", "n", "o", "o!", "p", "v", "c", "e",
                "ben", "total", "start", "dur", "released", "m"}

(* What a call decodes to in each example contract: amounts, times and the *)
(* number of owners are unsigned integers, and a recipient is not empty.   *)
IsCallOf(code, in) ==
    /\ code = <<"wasm", "erc20">> /\ in.sel \in 1..4 => in.amount \in Nat
    /\ code = <<"wasm", "multisig">> /\ in.sel = 1 =>
          {Len(in.owners), in.threshold} \subseteq Nat
    /\ code = <<"wasm", "vesting">> /\ in.sel = 1 =>
          {in.total, in.start, in.duration} \subseteq Nat
    /\ code = <<"wasm", "vesting">> /\ in.sel = 2 => in.now \in Nat
    /\ code = <<"wasm", "nft">> /\ in.sel \in {1, 2} => in.to # Empty
=============================================================================
