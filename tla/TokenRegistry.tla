---------------------------- MODULE TokenRegistry ----------------------------
(***************************************************************************)
(* token/mod.rs: the CUR-20 registry, a record of tokens by address,       *)
(* balances by <<token, owner>> and allowances by <<token, owner, spender>>.*)
(* An operation returns whether it succeeds and the registry after it.     *)
(***************************************************************************)
EXTENDS HashMaps, Functions

new_registry == [tokens |-> EmptyMap, balances |-> EmptyMap, allowances |-> EmptyMap]

TokenOk(r) == [ok |-> TRUE, registry |-> r]
TokenErr(r) == [ok |-> FALSE, registry |-> r]

token_address(deployer, nonce) == <<"token", deployer, nonce>>

(* deploy_token; the name, symbol and decimals of params are valid or not *)
deploy_token(r, deployer, nonce, params) ==
    LET t == token_address(deployer, nonce) IN
    IF ~params.valid \/ params.total_supply = 0 \/ t \in DOMAIN r.tokens THEN TokenErr(r)
    ELSE TokenOk([r EXCEPT !.tokens = insert(@, t, [total_supply |-> params.total_supply,
                                               creator |-> deployer]),
                      !.balances = insert(@, <<t, deployer>>, params.total_supply)])

(* Mutant: the recipient's balance is read before the sender is debited. *)
MoveBalance_stale(r, t, from, to, amount) ==
    LET to_balance == get_or_zero(r.balances, <<t, to>>)
        debited == insert(r.balances, <<t, from>>, get_or_zero(r.balances, <<t, from>>) - amount)
    IN  [r EXCEPT !.balances = insert(debited, <<t, to>>, to_balance + amount)]

(* The debit and the credit, in this order: the balance of the recipient   *)
(* is read after the sender's was written.                                 *)
MoveBalance(r, t, from, to, amount) ==
    LET debited == insert(r.balances, <<t, from>>, get_or_zero(r.balances, <<t, from>>) - amount)
    IN  [r EXCEPT !.balances =
            insert(debited, <<t, to>>, get_or_zero(debited, <<t, to>>) + amount)]

transfer(r, t, from, to, amount) ==
    IF \/ t \notin DOMAIN r.tokens
       \/ from = to
       \/ amount = 0
       \/ get_or_zero(r.balances, <<t, from>>) < amount
    THEN TokenErr(r)
    ELSE TokenOk(MoveBalance(r, t, from, to, amount))

approve(r, t, owner, spender, amount) ==
    IF t \notin DOMAIN r.tokens THEN TokenErr(r)
    ELSE TokenOk([r EXCEPT !.allowances = insert(@, <<t, owner, spender>>, amount)])

transfer_from(r, t, spender, from, to, amount) ==
    LET key == <<t, from, spender>>
        allowance == get_or_zero(r.allowances, key)
    IN  IF \/ t \notin DOMAIN r.tokens
           \/ amount = 0
           \/ allowance < amount
           \/ get_or_zero(r.balances, <<t, from>>) < amount
        THEN TokenErr(r)
        ELSE TokenOk([MoveBalance(r, t, from, to, amount) EXCEPT
                    !.allowances = insert(@, key, allowance - amount)])

(* Everything the holders of a token have together. *)
Held(r, t) == SumFunctionOnSet(r.balances, {k \in DOMAIN r.balances : k[1] = t})
=============================================================================
