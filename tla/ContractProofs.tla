--------------------------- MODULE ContractProofs ---------------------------
(***************************************************************************)
(* Lemmas about the programs of the example contracts, for every storage,  *)
(* every input they understand and every amount of gas: a program stays    *)
(* within its gas (RunMetered), and what it leaves in its storage is       *)
(* consistent (RunKeeps, over GoodStorage).  Execution runs them on behalf *)
(* of its transactions; ExecutionProofs uses the lemmas there.             *)
(*                                                                         *)
(* Maps and sums over part of a map come first: the balances of an erc20   *)
(* are the entries under one prefix, and a write replaces one of them.     *)
(* The loop over the owners of a multisig is followed by its counter.      *)
(***************************************************************************)
EXTENDS ContractPrograms, FunctionSums

(* The time the provers are given for a leaf. *)
USE SMTT(30), ZenonT(30)

(* A map of naturals, as HashMap<_, u64>. *)
NatMap(m) == IsFiniteSet(DOMAIN m) /\ \A x \in DOMAIN m : m[x] \in Nat

(* A natural inserted into a map of naturals. *)
LEMMA InsertNat ==
    ASSUME NEW m, NatMap(m), NEW k, NEW v \in Nat
    PROVE  NatMap(insert(m, k, v)) /\ get_or_zero(m, k) \in Nat
<1>1. DOMAIN insert(m, k, v) = DOMAIN m \cup {k}
  BY DEF insert
<1>2. IsFiniteSet(DOMAIN m \cup {k})
  BY FS_AddElement DEF NatMap
<1> QED
  BY <1>1, <1>2 DEF NatMap, get_or_zero, insert

(* One value of a sum is replaced. *)
LEMMA SumReplace ==
    ASSUME NEW f, NEW g, NEW S, IsFiniteSet(S), NEW k \in S,
           \A x \in S : f[x] \in Nat /\ g[x] \in Nat,
           \A x \in S : x # k => g[x] = f[x]
    PROVE  SumFunctionOnSet(g, S) + f[k] = SumFunctionOnSet(f, S) + g[k]
<1> DEFINE R == S \ {k}
<1>1. IsFiniteSet(R) /\ k \notin R /\ R \cup {k} = S
  BY FS_Subset
<1>2. /\ SumFunctionOnSet(g, S) = SumFunctionOnSet(g, R) + g[k]
      /\ SumFunctionOnSet(f, S) = SumFunctionOnSet(f, R) + f[k]
  BY <1>1, SumAdd
<1>3. SumFunctionOnSet(g, R) = SumFunctionOnSet(f, R) /\ SumFunctionOnSet(f, R) \in Nat
  BY <1>1, SumSame, SumIsNat
<1> QED
  BY <1>2, <1>3

(* A sum over part of a map, after an insertion into the map: P is the     *)
(* part that is summed, with the new key.                                  *)
LEMMA InsertSum ==
    ASSUME NEW m, NatMap(m), NEW k, NEW v \in Nat, NEW P \in SUBSET DOMAIN m
    PROVE  /\ SumFunctionOnSet(m, P) \in Nat
           /\ k \notin P => SumFunctionOnSet(insert(m, k, v), P) = SumFunctionOnSet(m, P)
           /\ (k \in DOMAIN m => k \in P) =>
                 SumFunctionOnSet(insert(m, k, v), P \cup {k}) + get_or_zero(m, k)
                     = SumFunctionOnSet(m, P) + v
<1>1. IsFiniteSet(P) /\ \A x \in P : m[x] \in Nat
  BY FS_Subset DEF NatMap
<1>2. SumFunctionOnSet(m, P) \in Nat
  BY <1>1, SumIsNat
<1>3. ASSUME k \notin P
      PROVE  SumFunctionOnSet(insert(m, k, v), P) = SumFunctionOnSet(m, P)
  <2>1. \A x \in P : m[x] \in Nat /\ insert(m, k, v)[x] = m[x]
    BY <1>1, <1>3 DEF insert
  <2> QED
    BY <2>1, <1>1, SumSame
<1>4. ASSUME k \in DOMAIN m => k \in P
      PROVE  SumFunctionOnSet(insert(m, k, v), P \cup {k}) + get_or_zero(m, k)
                 = SumFunctionOnSet(m, P) + v
  <2>1. CASE k \in DOMAIN m
    <3>1. P \cup {k} = P /\ k \in P /\ get_or_zero(m, k) = m[k] /\ insert(m, k, v)[k] = v
      BY <1>4, <2>1 DEF get_or_zero, insert
    <3>2. \A x \in P : /\ m[x] \in Nat /\ insert(m, k, v)[x] \in Nat
                       /\ x # k => insert(m, k, v)[x] = m[x]
      BY <1>1 DEF insert
    <3>3. SumFunctionOnSet(insert(m, k, v), P) + m[k]
             = SumFunctionOnSet(m, P) + insert(m, k, v)[k]
      BY <1>1, <3>1, <3>2, SumReplace
    <3> QED
      BY <3>1, <3>3
  <2>2. CASE k \notin DOMAIN m
    <3>1. k \notin P /\ get_or_zero(m, k) = 0 /\ insert(m, k, v)[k] = v
      BY <2>2 DEF get_or_zero, insert
    <3>2. \A x \in P \cup {k} : insert(m, k, v)[x] \in Nat
      BY <1>1, <3>1 DEF insert
    <3>3. SumFunctionOnSet(insert(m, k, v), P \cup {k})
             = SumFunctionOnSet(insert(m, k, v), P) + v
      BY <1>1, <3>1, <3>2, SumAdd
    <3> QED
      BY <1>2, <1>3, <3>1, <3>3
  <2> QED
    BY <2>1, <2>2
<1> QED
  BY <1>2, <1>3, <1>4

-----------------------------------------------------------------------------
(* The entries whose key begins with t: of a token, or of one kind. *)
Keys(m, t) == {k \in DOMAIN m : k[1] = t}
SumOf(m, t) == SumFunctionOnSet(m, Keys(m, t))

(* A balance that is written counts for its token and for no other. *)
LEMMA InsertHeld ==
    ASSUME NEW m, NatMap(m), NEW k, NEW v \in Nat, NEW t
    PROVE  /\ SumOf(m, t) \in Nat
           /\ k[1] = t => SumOf(insert(m, k, v), t) + get_or_zero(m, k) = SumOf(m, t) + v
           /\ k[1] # t => SumOf(insert(m, k, v), t) = SumOf(m, t)
<1>1. Keys(m, t) \in SUBSET DOMAIN m
  BY DEF Keys
<1>2. ASSUME k[1] = t
      PROVE  Keys(insert(m, k, v), t) = Keys(m, t) \cup {k} /\ (k \in DOMAIN m => k \in Keys(m, t))
  BY <1>2 DEF Keys, insert
<1>3. ASSUME k[1] # t
      PROVE  Keys(insert(m, k, v), t) = Keys(m, t) /\ k \notin Keys(m, t)
  BY <1>3 DEF Keys, insert
<1>4. SumOf(m, t) \in Nat
  BY <1>1, InsertSum, ZenonT(30) DEF SumOf
<1>5. ASSUME k[1] = t
      PROVE  SumOf(insert(m, k, v), t) + get_or_zero(m, k) = SumOf(m, t) + v
  BY <1>1, <1>2, <1>5, InsertSum DEF SumOf
<1>6. ASSUME k[1] # t
      PROVE  SumOf(insert(m, k, v), t) = SumOf(m, t)
  <2>1. SumFunctionOnSet(insert(m, k, v), Keys(m, t)) = SumFunctionOnSet(m, Keys(m, t))
    BY <1>1, <1>3, <1>6, InsertSum, ZenonT(30)
  <2> QED
    BY <1>3, <1>6, <2>1 DEF SumOf
<1> QED
  BY <1>4, <1>5, <1>6

(* The keys of one kind are summed: a key that is written counts for its   *)
(* kind and for no other, whatever else the map holds.                     *)
LEMMA InsertPart ==
    ASSUME NEW m, IsFiniteSet(DOMAIN m), NEW t, \A x \in Keys(m, t) : m[x] \in Nat, NEW k, NEW v
    PROVE  /\ SumOf(m, t) \in Nat
           /\ k[1] = t /\ v \in Nat =>
                 /\ SumOf(insert(m, k, v), t) + get_or_zero(m, k) = SumOf(m, t) + v
                 /\ get_or_zero(m, k) \in Nat /\ get_or_zero(m, k) <= SumOf(m, t)
           /\ k[1] # t => SumOf(insert(m, k, v), t) = SumOf(m, t)
<1> DEFINE part(f) == [x \in Keys(f, t) |-> f[x]]
           n == insert(m, k, v)
<1>1. NatMap(part(m)) /\ Keys(part(m), t) = Keys(m, t)
  <2>1. IsFiniteSet(Keys(m, t))
    BY FS_Subset DEF Keys
  <2> QED
    BY <2>1 DEF NatMap, Keys
<1>2. SumOf(part(m), t) = SumOf(m, t) /\ SumOf(m, t) \in Nat
  <2>1. IsFiniteSet(Keys(m, t)) /\ \A x \in Keys(m, t) : m[x] \in Nat /\ part(m)[x] = m[x]
    BY <1>1 DEF NatMap
  <2>2. SumFunctionOnSet(part(m), Keys(m, t)) = SumFunctionOnSet(m, Keys(m, t))
    BY <2>1, SumSame
  <2>3. SumFunctionOnSet(m, Keys(m, t)) \in Nat
    BY <2>1, SumIsNat
  <2> HIDE DEF part
  <2> QED
    BY <1>1, <2>2, <2>3 DEF SumOf
<1>3. ASSUME k[1] = t, v \in Nat
      PROVE  /\ SumOf(n, t) + get_or_zero(m, k) = SumOf(m, t) + v
             /\ get_or_zero(m, k) \in Nat /\ get_or_zero(m, k) <= SumOf(m, t)
  <2>1. get_or_zero(part(m), k) = get_or_zero(m, k) /\ get_or_zero(m, k) \in Nat
    BY <1>3 DEF get_or_zero, Keys
  <2>2. Keys(insert(part(m), k, v), t) = Keys(n, t)
    BY <1>3 DEF Keys, insert
  <2>3. IsFiniteSet(Keys(n, t)) /\ \A x \in Keys(n, t) : n[x] \in Nat /\ insert(part(m), k, v)[x] = n[x]
    <3>1. IsFiniteSet(DOMAIN n)
      BY FS_AddElement DEF insert
    <3>2. IsFiniteSet(Keys(n, t))
      BY <3>1, FS_Subset DEF Keys
    <3> QED
      BY <1>3, <3>2 DEF insert, Keys
  <2>4. SumFunctionOnSet(insert(part(m), k, v), Keys(n, t)) = SumFunctionOnSet(n, Keys(n, t))
    BY <2>3, SumSame
  <2>5. SumOf(n, t) \in Nat
    BY <2>3, SumIsNat, ZenonT(30) DEF SumOf
  <2> HIDE DEF part, n
  <2>6. SumOf(insert(part(m), k, v), t) + get_or_zero(part(m), k) = SumOf(part(m), t) + v
    BY <1>1, <1>3, InsertHeld
  <2>7. SumOf(insert(part(m), k, v), t) = SumOf(n, t)
    BY <2>2, <2>4 DEF SumOf
  <2>8. SumOf(n, t) + get_or_zero(m, k) = SumOf(m, t) + v
    BY <1>2, <2>1, <2>6, <2>7
  <2>9. get_or_zero(m, k) <= SumOf(m, t)
    <3>1. CASE k \in DOMAIN m
      <4>1. SumFunctionOnSet(m, Keys(m, t)) = SumFunctionOnSet(m, Keys(m, t) \ {k}) + m[k]
        <5>1. IsFiniteSet(Keys(m, t) \ {k}) /\ k \notin Keys(m, t) \ {k}
          BY <1>1, FS_Subset DEF NatMap, part
        <5>2. (Keys(m, t) \ {k}) \cup {k} = Keys(m, t)
          BY <1>3, <3>1 DEF Keys
        <5>3. \A x \in (Keys(m, t) \ {k}) \cup {k} : m[x] \in Nat
          BY <5>2
        <5> QED
          BY <5>1, <5>2, <5>3, SumAdd
      <4>2. SumFunctionOnSet(m, Keys(m, t) \ {k}) \in Nat
        <5>1. IsFiniteSet(Keys(m, t) \ {k})
          BY <1>1, FS_Subset DEF NatMap, part
        <5> QED
          BY <5>1, SumIsNat
      <4> QED
        BY <2>1, <3>1, <4>1, <4>2 DEF SumOf, get_or_zero
    <3>2. CASE k \notin DOMAIN m
      BY <1>2, <3>2 DEF get_or_zero
    <3> QED
      BY <3>1, <3>2
  <2> QED
    BY <2>1, <2>8, <2>9 DEF n
<1>4. ASSUME k[1] # t PROVE SumOf(n, t) = SumOf(m, t)
  <2>1. Keys(n, t) = Keys(m, t) /\ \A x \in Keys(m, t) : m[x] \in Nat /\ n[x] = m[x]
    BY <1>4 DEF Keys, insert
  <2>2. IsFiniteSet(Keys(m, t))
    BY <1>1 DEF NatMap
  <2>3. SumFunctionOnSet(n, Keys(m, t)) = SumFunctionOnSet(m, Keys(m, t))
    BY <2>1, <2>2, SumSame
  <2> QED
    BY <2>1, <2>3 DEF SumOf
<1> QED
  BY <1>2, <1>3, <1>4

(* Products of naturals. *)
LEMMA Products ==
    /\ \A a, b \in Nat : a * b \in Nat
    /\ \A a, b, c \in Nat : a <= b => a * c <= b * c /\ c * a <= c * b
    /\ \A a, b, c \in Nat : a * (b + c) = a * b + a * c
<1>1. \A a, b \in Nat : a * b \in Nat
  OBVIOUS
<1>2. \A a, b, c \in Nat : a * (b + c) = a * b + a * c
  OBVIOUS
<1>3. ASSUME NEW a \in Nat, NEW b \in Nat, NEW c \in Nat, a <= b
      PROVE  a * c <= b * c /\ c * a <= c * b
  <2>1. PICK d \in Nat : b = a + d
    <3>1. b - a \in Nat /\ b = a + (b - a)
      BY <1>3
    <3> QED
      BY <3>1
  <2>2. c * b = c * a + c * d /\ c * d \in Nat
    BY <1>1, <1>2, <2>1
  <2>3. c * a \in Nat /\ a * c = c * a /\ b * c = c * b
    BY <1>1
  <2> QED
    BY <2>2, <2>3
<1> QED
  BY <1>1, <1>2, <1>3

-----------------------------------------------------------------------------
(* A contract that runs: of the gas G it began with, some is left. *)
Metered(c, G) == /\ DOMAIN c = {"storage", "logs", "gas", "trapped"}
                 /\ c.trapped \in BOOLEAN /\ c.gas \in 0..G

(* A host call charges gas and never goes below zero. *)
LEMMA ChargeMetered ==
    ASSUME NEW G \in Nat, NEW c, Metered(c, G), NEW x \in Nat
    PROVE  Metered(charge_host_gas(c, x), G)
<1>1. CASE c.trapped \/ c.gas < x
  <2>1. charge_host_gas(c, x) = [c EXCEPT !.trapped = TRUE]
    BY <1>1 DEF charge_host_gas
  <2> QED
    BY <2>1 DEF Metered
<1>2. CASE ~(c.trapped \/ c.gas < x)
  <2>1. charge_host_gas(c, x) = [c EXCEPT !.gas = c.gas - x]
    BY <1>2 DEF charge_host_gas
  <2>2. c.gas - x \in 0..G
    BY <1>2 DEF Metered
  <2> QED
    BY <2>1, <2>2 DEF Metered
<1> QED
  BY <1>1, <1>2

(* The host functions of the VM that read, write and log are metered: each *)
(* charges its gas before it acts.                                         *)
LEMMA HostMetered ==
    ASSUME NEW G \in Nat, NEW c, Metered(c, G)
    PROVE  /\ Metered(read(c), G)
           /\ \A k, v : Metered(set(c, k, v), G)
           /\ \A t : Metered(emit(c, t), G)
<1>1. GAS_STORAGE_READ \in Nat /\ GAS_STORAGE_WRITE \in Nat /\ GAS_LOG \in Nat
  BY ContractAssumption
<1>2. Metered(read(c), G)
  BY <1>1, ChargeMetered DEF read
<1>3. ASSUME NEW k, NEW v PROVE Metered(set(c, k, v), G)
  <2>1. Metered(charge_host_gas(c, GAS_STORAGE_WRITE), G)
    BY <1>1, ChargeMetered
  <2> QED
    BY <2>1 DEF set, Metered
<1>4. ASSUME NEW t PROVE Metered(emit(c, t), G)
  <2>1. Metered(charge_host_gas(c, GAS_LOG), G)
    BY <1>1, ChargeMetered
  <2> QED
    BY <2>1 DEF emit, Metered
<1> QED
  BY <1>2, <1>3, <1>4

(* The loop over the owners in multisig's init, as the function that its   *)
(* definition chooses.                                                     *)
AddOwner(c, os, i) == set(set(c, <<"o", ToString(i)>>, os[i]), <<"o!", os[i]>>, 1)
IsLoop(f, c, os, n) == f = [i \in 0..n |-> IF i = 0 THEN c ELSE AddOwner(f[i - 1], os, i)]

(* The loop over the owners has a value after every number of rounds. *)
LEMMA LoopExists ==
    ASSUME NEW c, NEW os, NEW n \in Nat
    PROVE  \E f : IsLoop(f, c, os, n)
<1> DEFINE Bad == {k \in Nat : ~ \E f : IsLoop(f, c, os, k)}
<1> SUFFICES ASSUME Bad # {} PROVE FALSE
  OBVIOUS
<1>1. PICK k \in Bad : \A j \in Bad : k <= j
  <2>1. Bad \in SUBSET Nat
    OBVIOUS
  <2> HIDE DEF Bad
  <2> QED
    BY <2>1, SmallestNat
<1>2. k \in Nat /\ ~ \E f : IsLoop(f, c, os, k)
  OBVIOUS
<1>3. CASE k = 0
  <2> DEFINE f == [i \in 0..0 |-> c]
  <2>1. IsLoop(f, c, os, 0)
    BY DEF IsLoop
  <2> QED
    BY <1>2, <1>3, <2>1
<1>4. CASE k # 0
  <2>1. k - 1 \in Nat /\ k - 1 \notin Bad
    BY <1>1, <1>2, <1>4
  <2>2. PICK g : IsLoop(g, c, os, k - 1)
    BY <2>1
  <2> DEFINE f == [i \in 0..k |-> IF i = k THEN AddOwner(g[k - 1], os, k) ELSE g[i]]
  <2>3. ASSUME NEW i \in 0..k
        PROVE  f[i] = IF i = 0 THEN c ELSE AddOwner(f[i - 1], os, i)
    <3>1. CASE i = k
      <4>1. f[k - 1] = g[k - 1] /\ f[k] = AddOwner(g[k - 1], os, k)
        BY <1>2, <1>4, <2>1
      <4> QED
        BY <3>1, <4>1, <1>4
    <3>2. CASE i # k
      <4>1. i \in 0..(k - 1) /\ f[i] = g[i]
        BY <3>2, <1>2
      <4>2. g[i] = IF i = 0 THEN c ELSE AddOwner(g[i - 1], os, i)
        BY <2>2, <4>1 DEF IsLoop
      <4>3. i # 0 => i - 1 \in 0..k /\ i - 1 # k /\ f[i - 1] = g[i - 1]
        BY <4>1, <1>2
      <4> HIDE DEF f
      <4> QED
        BY <4>1, <4>2, <4>3
    <3> QED
      BY <3>1, <3>2
  <2>4. f = [i \in 0..k |-> IF i = 0 THEN c ELSE AddOwner(f[i - 1], os, i)]
    <3>1. f = [i \in 0..k |-> f[i]]
      OBVIOUS
    <3> HIDE DEF f
    <3> QED
      BY <2>3, <3>1, ZenonT(30)
  <2>5. IsLoop(f, c, os, k)
    <3> HIDE DEF f
    <3> QED
      BY <2>4 DEF IsLoop
  <2> QED
    BY <1>2, <2>5
<1> QED
  BY <1>3, <1>4

(* The loop over the owners stays within the gas, round by round. *)
LEMMA LoopMetered ==
    ASSUME NEW G \in Nat, NEW c, Metered(c, G), NEW os, NEW n \in Nat, NEW f, IsLoop(f, c, os, n)
    PROVE  Metered(f[n], G)
<1> DEFINE Bad == {k \in 0..n : ~Metered(f[k], G)}
<1> SUFFICES ASSUME Bad # {} PROVE FALSE
  OBVIOUS
<1>1. PICK k \in Bad : \A j \in Bad : k <= j
  <2>1. Bad \in SUBSET Nat
    OBVIOUS
  <2> HIDE DEF Bad
  <2> QED
    BY <2>1, SmallestNat
<1>2. f[k] = IF k = 0 THEN c ELSE AddOwner(f[k - 1], os, k)
  BY DEF IsLoop
<1>3. CASE k = 0
  BY <1>2, <1>3
<1>4. CASE k # 0
  <2>1. k - 1 \in 0..n /\ k - 1 \notin Bad
    BY <1>1, <1>4
  <2>2. Metered(f[k - 1], G)
    BY <2>1
  <2>3. Metered(AddOwner(f[k - 1], os, k), G)
    BY <2>2, HostMetered DEF AddOwner
  <2> QED
    BY <1>2, <1>4, <2>3
<1> QED
  BY <1>3, <1>4

(* The counter contract stays within the gas. *)
LEMMA CounterMetered ==
    ASSUME NEW G \in Nat, NEW c, Metered(c, G), NEW in
    PROVE  Metered(counter(c, in), G)
BY HostMetered, ZenonT(30) DEF counter, increment

(* The erc20 contract stays within the gas, on every path through its      *)
(* selectors.                                                              *)
LEMMA Erc20Metered ==
    ASSUME NEW G \in Nat, NEW c, Metered(c, G), NEW in
    PROVE  Metered(erc20(c, in), G)
<1>1. Metered(erc20_init(c, in), G)
  BY HostMetered, ZenonT(30) DEF erc20_init
<1>2. ASSUME NEW d, Metered(d, G), NEW from, NEW to, NEW x
      PROVE  Metered(move_balance(d, from, to, x), G)
  BY <1>2, HostMetered DEF move_balance
<1>3. Metered(erc20_approve(c, in), G)
  BY HostMetered DEF erc20_approve
<1>4. Metered(erc20_transfer_from(c, in), G)
  BY <1>2, HostMetered, ZenonT(30) DEF erc20_transfer_from
<1> QED
  BY <1>1, <1>2, <1>3, <1>4 DEF erc20

(* The vesting contract stays within the gas. *)
LEMMA VestingMetered ==
    ASSUME NEW G \in Nat, NEW c, Metered(c, G), NEW in
    PROVE  Metered(vesting(c, in), G)
<1>1. Metered(vesting_init(c, in), G)
  BY HostMetered, ZenonT(30) DEF vesting_init
<1>2. Metered(vesting_release(c, in), G)
  BY HostMetered DEF vesting_release
<1>3. Metered(emit(read(read(c)), "state"), G)
  BY HostMetered
<1> QED
  BY <1>1, <1>2, <1>3 DEF vesting

(* The nft contract stays within the gas. *)
LEMMA NftMetered ==
    ASSUME NEW G \in Nat, NEW c, Metered(c, G), NEW in
    PROVE  Metered(nft(c, in), G)
<1>1. Metered(nft_mint(c, in), G)
  BY HostMetered DEF nft_mint
<1>2. Metered(nft_transfer(c, in), G)
  BY HostMetered DEF nft_transfer
<1>3. Metered(nft_burn(c, in), G)
  BY HostMetered, ZenonT(30) DEF nft_burn
<1> QED
  BY <1>1, <1>2, <1>3 DEF nft

(* The multisig contract stays within the gas, its loop over the owners    *)
(* included.                                                               *)
LEMMA MultisigMetered ==
    ASSUME NEW G \in Nat, NEW c, Metered(c, G), NEW in,
           in.sel = 1 => Len(in.owners) \in Nat
    PROVE  Metered(multisig(c, in), G)
<1>1. ASSUME NEW d, Metered(d, G), NEW aid, NEW owner
      PROVE  Metered(record_vote(d, aid, owner), G)
  BY <1>1, HostMetered, ZenonT(30) DEF record_vote
<1>2. Metered(multisig_propose(c, in), G)
  BY <1>1, HostMetered, ZenonT(30) DEF multisig_propose
<1>3. Metered(multisig_approve(c, in), G)
  BY <1>1, HostMetered DEF multisig_approve
<1>4. ASSUME in.sel = 1 PROVE Metered(multisig_init(c, in), G)
  <2> DEFINE n == Len(in.owners)
             start == set(set(read(c), <<"t">>, in.threshold), <<"n">>, n)
             f == CHOOSE g : IsLoop(g, start, in.owners, n)
  <2>1. n \in Nat
    BY <1>4
  <2>2. Metered(read(c), G) /\ Metered(start, G)
    BY HostMetered, ZenonT(30)
  <2> HIDE DEF n, start
  <2>3. IsLoop(f, start, in.owners, n)
    BY <2>1, LoopExists
  <2> HIDE DEF f
  <2>4. Metered(f[n], G)
    BY <2>1, <2>2, <2>3, LoopMetered
  <2>5. Metered(emit(set(f[n], <<"init">>, 1), "init"), G)
    BY <2>4, HostMetered
  <2>6. multisig_init(c, in) = IF \/ is_set(read(c), <<"init">>) \/ n = 0
                                  \/ in.threshold = 0 \/ in.threshold > n
                               THEN read(c)
                               ELSE emit(set(f[n], <<"init">>, 1), "init")
    BY DEF multisig_init, n, start, f, IsLoop, AddOwner
  <2> QED
    BY <2>2, <2>5, <2>6
<1> QED
  BY <1>2, <1>3, <1>4 DEF multisig

(* Any program, with an input that it understands. *)
LEMMA RunMetered ==
    ASSUME NEW G \in Nat, NEW c, Metered(c, G), NEW code, NEW in,
           code = <<"wasm", "multisig">> /\ in.sel = 1 => Len(in.owners) \in Nat
    PROVE  Metered(run(code, c, in), G)
<1>1. Metered([c EXCEPT !.trapped = TRUE], G)
  BY DEF Metered
<1> QED
  BY <1>1, CounterMetered, Erc20Metered, VestingMetered, NftMetered, MultisigMetered DEF run

-----------------------------------------------------------------------------
(* A key that reads as set. *)
IsSet(st, k) == k \in DOMAIN st /\ st[k] # Empty
Votes(st, aid) == {v \in Keys(st, "v") : v[2] = aid}

(* What the storage of each example contract keeps.  An erc20 without its  *)
(* initialisation has issued nothing; a multisig without it has no owner   *)
(* and has counted nothing.                                                *)
Erc20Good(st) ==
    /\ \A k \in Keys(st, "b") : st[k] \in Nat
    /\ SumOf(st, "b") = get_or_zero(st, <<"supply">>)
    /\ ~IsSet(st, <<"init">>) => get_or_zero(st, <<"supply">>) = 0

MultisigGood(st) ==
    /\ get_or_zero(st, <<"t">>) \in Nat
    /\ \A k \in Keys(st, "c") :
          /\ k = <<"c", k[2]>>
          /\ st[k] = Cardinality(Votes(st, k[2]))
          /\ IsSet(st, <<"e", k[2]>>) <=> st[k] >= get_or_zero(st, <<"t">>)
    /\ \A k \in Keys(st, "v") : st[k] = 1 /\ <<"c", k[2]>> \in DOMAIN st
    /\ \A k \in Keys(st, "e") : <<"c", k[2]>> \in DOMAIN st
    /\ ~IsSet(st, <<"init">>) => Keys(st, "c") = {} /\ Keys(st, "o!") = {}

VestingGood(st) ==
    /\ {get_or_zero(st, <<"released">>), get_or_zero(st, <<"total">>),
        get_or_zero(st, <<"start">>), get_or_zero(st, <<"dur">>)} \subseteq Nat
    /\ get_or_zero(st, <<"released">>) <= get_or_zero(st, <<"total">>)

NftGood(st) ==
    \A k \in Keys(st, "m") :
        k = <<"m", k[2]>> /\ (st[k] # Empty => IsSet(st, <<"o", k[2]>>))

GoodStorage(code, st) ==
    /\ IsFiniteSet(DOMAIN st)
    /\ code = <<"wasm", "erc20">> => Erc20Good(st)
    /\ code = <<"wasm", "multisig">> => MultisigGood(st)
    /\ code = <<"wasm", "vesting">> => VestingGood(st)
    /\ code = <<"wasm", "nft">> => NftGood(st)

(* A host call that does not trap has run on a context that had not        *)
(* trapped, and only a write changes the storage.                          *)
LEMMA HostStorage ==
    ASSUME NEW G \in Nat, NEW c, Metered(c, G)
    PROVE  /\ read(c).storage = c.storage /\ (~read(c).trapped => ~c.trapped)
           /\ \A k, v : ~set(c, k, v).trapped =>
                 ~c.trapped /\ set(c, k, v).storage = insert(c.storage, k, v)
           /\ \A t : emit(c, t).storage = c.storage /\ (~emit(c, t).trapped => ~c.trapped)
<1>1. ASSUME NEW x
      PROVE  LET d == charge_host_gas(c, x) IN
             /\ DOMAIN d = DOMAIN c /\ d.storage = c.storage /\ (~d.trapped => ~c.trapped)
  BY DEF charge_host_gas, Metered
<1>2. read(c).storage = c.storage /\ (~read(c).trapped => ~c.trapped)
  BY <1>1 DEF read
<1>3. ASSUME NEW k, NEW v, ~set(c, k, v).trapped
      PROVE  ~c.trapped /\ set(c, k, v).storage = insert(c.storage, k, v)
  <2> DEFINE d == charge_host_gas(c, GAS_STORAGE_WRITE)
  <2>1. DOMAIN d = DOMAIN c /\ d.storage = c.storage /\ (~d.trapped => ~c.trapped)
    BY <1>1
  <2>2. set(c, k, v) = IF d.trapped THEN d ELSE [d EXCEPT !.storage = insert(d.storage, k, v)]
    BY DEF set
  <2> HIDE DEF d
  <2>3. ~d.trapped
    BY <1>3, <2>2
  <2> QED
    BY <2>1, <2>2, <2>3 DEF Metered
<1>4. ASSUME NEW t
      PROVE  emit(c, t).storage = c.storage /\ (~emit(c, t).trapped => ~c.trapped)
  <2> DEFINE d == charge_host_gas(c, GAS_LOG)
  <2>1. DOMAIN d = DOMAIN c /\ d.storage = c.storage /\ (~d.trapped => ~c.trapped)
    BY <1>1
  <2>2. emit(c, t) = IF d.trapped THEN d ELSE [d EXCEPT !.logs = Append(d.logs, t)]
    BY DEF emit
  <2> HIDE DEF d
  <2> QED
    BY <2>1, <2>2 DEF Metered
<1> QED
  BY <1>2, <1>3, <1>4

(* d is c after a write of v under k, unless it trapped. *)
Stored(c, k, v, d) == ~d.trapped => ~c.trapped /\ d.storage = insert(c.storage, k, v)

(* A write is charged for, and changes the one key if it does not trap. *)
LEMMA SetStep ==
    ASSUME NEW G \in Nat, NEW c, Metered(c, G), NEW k, NEW v
    PROVE  Metered(set(c, k, v), G) /\ Stored(c, k, v, set(c, k, v))
BY HostMetered, HostStorage DEF Stored

(* What is not below a natural is at least that. *)
LEMMA NotLess == \A x \in Int, y \in Nat : ~(x < y) => x >= y
  OBVIOUS

(* The keys of a map with one more. *)
LEMMA InsertFinite ==
    ASSUME NEW m, IsFiniteSet(DOMAIN m), NEW k, NEW v
    PROVE  IsFiniteSet(DOMAIN insert(m, k, v))
BY FS_AddElement DEF insert

-----------------------------------------------------------------------------
(* A key of another kind is written into the storage of an erc20. *)
LEMMA Erc20Other ==
    ASSUME NEW st, IsFiniteSet(DOMAIN st), Erc20Good(st), NEW k, NEW v,
           k[1] \notin {"b", "supply", "init"}
    PROVE  Erc20Good(insert(st, k, v))
<1>1. SumOf(insert(st, k, v), "b") = SumOf(st, "b")
  BY InsertPart DEF Erc20Good
<1>2. k # <<"supply">> /\ k # <<"init">>
  OBVIOUS
<1>3. get_or_zero(insert(st, k, v), <<"supply">>) = get_or_zero(st, <<"supply">>)
  BY <1>2 DEF get_or_zero, insert
<1>4. IsSet(insert(st, k, v), <<"init">>) <=> IsSet(st, <<"init">>)
  BY <1>2 DEF IsSet, insert
<1>5. \A x \in Keys(insert(st, k, v), "b") : insert(st, k, v)[x] \in Nat
  BY DEF Keys, insert, Erc20Good
<1> QED
  BY <1>1, <1>3, <1>4, <1>5 DEF Erc20Good

(* A balance is written: the balances have the sum that it makes. *)
LEMMA Erc20Balance ==
    ASSUME NEW st, IsFiniteSet(DOMAIN st), \A x \in Keys(st, "b") : st[x] \in Nat,
           NEW k, k[1] = "b", NEW v \in Nat, NEW n, n = insert(st, k, v)
    PROVE  /\ IsFiniteSet(DOMAIN n) /\ \A x \in Keys(n, "b") : n[x] \in Nat
           /\ SumOf(st, "b") \in Nat /\ SumOf(n, "b") \in Nat /\ get_or_zero(st, k) \in Nat
           /\ get_or_zero(st, k) <= SumOf(st, "b")
           /\ SumOf(n, "b") + get_or_zero(st, k) = SumOf(st, "b") + v
           /\ get_or_zero(n, <<"supply">>) = get_or_zero(st, <<"supply">>)
<1>1. k # <<"supply">> /\ k # <<"init">>
  OBVIOUS
<1>2. IsFiniteSet(DOMAIN n)
  BY InsertFinite
<1>3. \A x \in Keys(n, "b") : n[x] \in Nat
  BY DEF Keys, insert
<1>4. /\ SumOf(st, "b") \in Nat /\ get_or_zero(st, k) \in Nat
      /\ get_or_zero(st, k) <= SumOf(st, "b")
      /\ SumOf(n, "b") + get_or_zero(st, k) = SumOf(st, "b") + v
  BY InsertPart
<1>5. get_or_zero(n, <<"supply">>) = get_or_zero(st, <<"supply">>)
  BY <1>1 DEF get_or_zero, insert
<1>6. SumOf(n, "b") \in Nat
  BY <1>2, <1>3, InsertPart
<1> QED
  BY <1>2, <1>3, <1>4, <1>5, <1>6

(* erc20's init, where init has not run. *)
LEMMA Erc20InitWrites ==
    ASSUME NEW st, IsFiniteSet(DOMAIN st), Erc20Good(st), ~IsSet(st, <<"init">>),
           NEW to, NEW x \in Nat
    PROVE  Erc20Good(insert(insert(insert(st, <<"init">>, 1), <<"supply">>, x), <<"b", to>>, x))
<1> DEFINE kt == <<"b", to>>
           s1 == insert(st, <<"init">>, 1)
           s2 == insert(s1, <<"supply">>, x)
           s3 == insert(s2, kt, x)
<1>10. kt[1] = "b"
  OBVIOUS
<1> HIDE DEF kt
<1>1. SumOf(st, "b") = 0 /\ \A k \in Keys(st, "b") : st[k] \in Nat
  BY DEF Erc20Good
<1>2. IsFiniteSet(DOMAIN s1) /\ SumOf(s1, "b") = 0 /\ \A k \in Keys(s1, "b") : s1[k] \in Nat
  <2>1. <<"init">>[1] # "b"
    OBVIOUS
  <2>2. SumOf(s1, "b") = SumOf(st, "b")
    BY <1>1, <2>1, InsertPart
  <2>3. \A k \in Keys(s1, "b") : s1[k] \in Nat
    BY <1>1, <2>1 DEF Keys, insert
  <2> QED
    BY <1>1, <2>2, <2>3, InsertFinite
<1>3. 1 # Empty
  BY ContractAssumption
<1>4. IsSet(s1, <<"init">>)
  BY <1>3 DEF IsSet, insert
<1> HIDE DEF s1
<1>5. IsFiniteSet(DOMAIN s2) /\ SumOf(s2, "b") = 0 /\ \A k \in Keys(s2, "b") : s2[k] \in Nat
  <2>1. <<"supply">>[1] # "b"
    OBVIOUS
  <2>2. SumOf(s2, "b") = SumOf(s1, "b")
    BY <1>2, <2>1, InsertPart
  <2>3. \A k \in Keys(s2, "b") : s2[k] \in Nat
    BY <1>2, <2>1 DEF Keys, insert
  <2> QED
    BY <1>2, <2>2, <2>3, InsertFinite
<1>6. get_or_zero(s2, <<"supply">>) = x /\ IsSet(s2, <<"init">>)
  BY <1>4 DEF IsSet, insert, get_or_zero
<1> HIDE DEF s2
<1>7. /\ \A k \in Keys(s3, "b") : s3[k] \in Nat
      /\ SumOf(s2, "b") \in Nat /\ SumOf(s3, "b") \in Nat
      /\ get_or_zero(s2, kt) \in Nat /\ get_or_zero(s2, kt) <= SumOf(s2, "b")
      /\ SumOf(s3, "b") + get_or_zero(s2, kt) = SumOf(s2, "b") + x
      /\ get_or_zero(s3, <<"supply">>) = get_or_zero(s2, <<"supply">>)
  <2>1. s3 = insert(s2, kt, x)
    OBVIOUS
  <2> HIDE DEF s3
  <2>2. /\ \A k \in Keys(s3, "b") : s3[k] \in Nat
        /\ get_or_zero(s3, <<"supply">>) = get_or_zero(s2, <<"supply">>)
    BY <1>5, <1>10, <2>1, Erc20Balance, ZenonT(30)
  <2>3. SumOf(s2, "b") \in Nat /\ SumOf(s3, "b") \in Nat
    BY <1>5, <1>10, <2>1, Erc20Balance
  <2>4. get_or_zero(s2, kt) \in Nat /\ get_or_zero(s2, kt) <= SumOf(s2, "b")
    BY <1>5, <1>10, <2>1, Erc20Balance
  <2>5. SumOf(s3, "b") + get_or_zero(s2, kt) = SumOf(s2, "b") + x
    BY <1>5, <1>10, <2>1, Erc20Balance
  <2> QED
    BY <2>2, <2>3, <2>4, <2>5
<1>11. IsSet(s3, <<"init">>)
  BY <1>6, <1>10 DEF IsSet, insert
<1> HIDE DEF s3
<1>8. SumOf(s3, "b") = x
  BY <1>5, <1>7
<1>9. Erc20Good(s3)
  BY <1>6, <1>7, <1>8, <1>11 DEF Erc20Good
<1> QED
  BY <1>9 DEF s3, s2, s1, kt

(* move_balance, where the balance is enough; from and to may be the same. *)
LEMMA Erc20MoveWrites ==
    ASSUME NEW st, IsFiniteSet(DOMAIN st), Erc20Good(st), NEW from, NEW to, NEW x \in Nat,
           get_or_zero(st, <<"b", from>>) >= x
    PROVE  LET s1 == insert(st, <<"b", from>>, get_or_zero(st, <<"b", from>>) - x)
           IN  Erc20Good(insert(s1, <<"b", to>>, get_or_zero(s1, <<"b", to>>) + x))
<1> DEFINE kf == <<"b", from>>
           kt == <<"b", to>>
           old == get_or_zero(st, kf)
           s1 == insert(st, kf, old - x)
           s2 == insert(s1, kt, get_or_zero(s1, kt) + x)
<1>9. kf[1] = "b" /\ kt[1] = "b" /\ old >= x
  OBVIOUS
<1> HIDE DEF kf, kt
<1>1. \A k \in Keys(st, "b") : st[k] \in Nat
  BY DEF Erc20Good
<1>2. old \in Nat
  BY <1>1, <1>9, InsertPart, 0 \in Nat, ZenonT(30) DEF old
<1>3. old - x \in Nat
  BY <1>2, <1>9
<1>4. /\ IsFiniteSet(DOMAIN s1) /\ \A k \in Keys(s1, "b") : s1[k] \in Nat
      /\ SumOf(st, "b") \in Nat /\ SumOf(s1, "b") \in Nat
      /\ SumOf(s1, "b") + old = SumOf(st, "b") + (old - x)
      /\ get_or_zero(s1, <<"supply">>) = get_or_zero(st, <<"supply">>)
  <2>1. s1 = insert(st, kf, old - x)
    OBVIOUS
  <2> HIDE DEF s1
  <2>2. /\ IsFiniteSet(DOMAIN s1) /\ \A k \in Keys(s1, "b") : s1[k] \in Nat
        /\ SumOf(st, "b") \in Nat /\ SumOf(s1, "b") \in Nat
        /\ SumOf(s1, "b") + get_or_zero(st, kf) = SumOf(st, "b") + (old - x)
        /\ get_or_zero(s1, <<"supply">>) = get_or_zero(st, <<"supply">>)
    <3> HIDE DEF old
    <3> QED
      BY <1>1, <1>3, <1>9, <2>1, Erc20Balance
  <2> QED
    BY <2>2
<1>10. IsSet(st, <<"init">>) => IsSet(s1, <<"init">>)
  BY <1>9 DEF IsSet, insert
<1> HIDE DEF s1, old
<1>5. get_or_zero(s1, kt) \in Nat
  BY <1>4, <1>9, InsertPart, 0 \in Nat
<1>6. /\ \A k \in Keys(s2, "b") : s2[k] \in Nat
      /\ SumOf(s2, "b") \in Nat
      /\ SumOf(s2, "b") + get_or_zero(s1, kt) =
            SumOf(s1, "b") + (get_or_zero(s1, kt) + x)
      /\ get_or_zero(s2, <<"supply">>) = get_or_zero(s1, <<"supply">>)
  <2>1. get_or_zero(s1, kt) + x \in Nat
    BY <1>5
  <2>2. s2 = insert(s1, kt, get_or_zero(s1, kt) + x)
    OBVIOUS
  <2> HIDE DEF s2
  <2>3. \A k \in Keys(s2, "b") : s2[k] \in Nat
    BY <1>4, <1>9, <2>1, <2>2, Erc20Balance, ZenonT(30)
  <2>6. get_or_zero(s2, <<"supply">>) = get_or_zero(s1, <<"supply">>)
    BY <1>4, <1>9, <2>1, <2>2, Erc20Balance
  <2>4. SumOf(s2, "b") \in Nat
    BY <1>4, <1>9, <2>1, <2>2, Erc20Balance
  <2>5. SumOf(s2, "b") + get_or_zero(s1, kt) = SumOf(s1, "b") + (get_or_zero(s1, kt) + x)
    BY <1>4, <1>9, <2>1, <2>2, Erc20Balance
  <2> QED
    BY <2>3, <2>4, <2>5, <2>6
<1>11. IsSet(s1, <<"init">>) => IsSet(s2, <<"init">>)
  BY <1>9 DEF IsSet, insert
<1> HIDE DEF s2
<1>7. SumOf(s2, "b") = SumOf(st, "b")
  BY <1>2, <1>4, <1>5, <1>6
<1>8. Erc20Good(s2)
  BY <1>4, <1>6, <1>7, <1>10, <1>11 DEF Erc20Good
<1> QED
  BY <1>8 DEF s2, s1, old, kf, kt

(* A run of erc20 that does not trap keeps its storage. *)
LEMMA Erc20Keeps ==
    ASSUME NEW G \in Nat, NEW c, Metered(c, G), NEW in, IsCallOf(<<"wasm", "erc20">>, in),
           IsFiniteSet(DOMAIN c.storage), Erc20Good(c.storage), ~erc20(c, in).trapped
    PROVE  IsFiniteSet(DOMAIN erc20(c, in).storage) /\ Erc20Good(erc20(c, in).storage)
<1> DEFINE Kept(d) == IsFiniteSet(DOMAIN d.storage) /\ Erc20Good(d.storage)
<1>1. ASSUME NEW d, Metered(d, G), Kept(d), NEW from, NEW to, NEW x \in Nat,
             ~move_balance(d, from, to, x).trapped
      PROVE  Kept(move_balance(d, from, to, x))
  <2> DEFINE kf == <<"b", from>>
             kt == <<"b", to>>
             c1 == read(d)
             c2 == set(c1, kf, get_u64(c1, kf) - x)
             c3 == read(c2)
             c4 == set(c3, kt, get_u64(c3, kt) + x)
             c5 == emit(c4, "transfer")
  <2>1. move_balance(d, from, to, x) = IF get_u64(c1, kf) < x THEN c1 ELSE c5
    BY DEF move_balance
  <2>2. Metered(c1, G) /\ c1.storage = d.storage
    BY <1>1, HostMetered, HostStorage
  <2> HIDE DEF c1
  <2>3. CASE get_u64(c1, kf) < x
    BY <1>1, <2>1, <2>2, <2>3
  <2>4. CASE ~(get_u64(c1, kf) < x)
    <3>1. Metered(c2, G) /\ (~c2.trapped => c2.storage = insert(c1.storage, kf, get_u64(c1, kf) - x))
      BY <2>2, HostMetered, HostStorage
    <3> HIDE DEF c2
    <3>2. Metered(c3, G) /\ c3.storage = c2.storage /\ (~c3.trapped => ~c2.trapped)
      BY <3>1, HostMetered, HostStorage
    <3> HIDE DEF c3
    <3>3. /\ Metered(c4, G)
          /\ ~c4.trapped => ~c3.trapped /\ c4.storage = insert(c3.storage, kt, get_u64(c3, kt) + x)
      BY <3>2, HostMetered, HostStorage
    <3> HIDE DEF c4
    <3>4. c5.storage = c4.storage /\ (~c5.trapped => ~c4.trapped)
      BY <3>3, HostStorage
    <3> HIDE DEF c5
    <3>5. ~c5.trapped
      BY <1>1, <2>1, <2>4
    <3> DEFINE st == d.storage
               s1 == insert(st, kf, get_or_zero(st, kf) - x)
               s2 == insert(s1, kt, get_or_zero(s1, kt) + x)
    <3>6. get_u64(c1, kf) = get_or_zero(st, kf) /\ get_u64(c3, kt) = get_or_zero(c3.storage, kt)
      BY <2>2 DEF get_u64, get_or_zero
    <3>7. c3.storage = s1 /\ c5.storage = s2
      <4> HIDE DEF kf, kt
      <4> QED
        BY <2>2, <3>1, <3>2, <3>3, <3>4, <3>5, <3>6
    <3>8. get_or_zero(st, kf) >= x
      <4>1. get_or_zero(st, kf) \in Nat
        <5>1. kf[1] = "b" /\ IsFiniteSet(DOMAIN st) /\ \A k \in Keys(st, "b") : st[k] \in Nat
          BY <1>1 DEF Erc20Good
        <5> HIDE DEF kf, st
        <5> QED
          BY <5>1, InsertPart, 0 \in Nat
      <4> QED
        BY <2>4, <3>6, <4>1
    <3>9. Erc20Good(s2)
      BY <1>1, <3>8, Erc20MoveWrites
    <3>10. IsFiniteSet(DOMAIN s2)
      BY <1>1, InsertFinite
    <3> HIDE DEF s2
    <3> QED
      BY <2>1, <2>4, <3>7, <3>9, <3>10
  <2> QED
    BY <2>3, <2>4
<1>2. CASE in.sel = 1
  <2> DEFINE kt == <<"b", in.to>>
             c1 == read(c)
             c2 == set(c1, <<"init">>, 1)
             c3 == set(c2, <<"supply">>, in.amount)
             c4 == set(c3, kt, in.amount)
             c5 == emit(c4, "init")
  <2>1. erc20(c, in) = IF is_set(c1, <<"init">>) THEN c1 ELSE c5
    BY <1>2 DEF erc20, erc20_init
  <2>2. Metered(c1, G) /\ c1.storage = c.storage
    BY HostMetered, HostStorage
  <2> HIDE DEF c1
  <2>3. CASE is_set(c1, <<"init">>)
    BY <2>1, <2>2, <2>3
  <2>4. CASE ~is_set(c1, <<"init">>)
    <3>1. Metered(c2, G) /\ (~c2.trapped => c2.storage = insert(c1.storage, <<"init">>, 1))
      BY <2>2, HostMetered, HostStorage
    <3> HIDE DEF c2
    <3>2. /\ Metered(c3, G)
          /\ ~c3.trapped => ~c2.trapped /\ c3.storage = insert(c2.storage, <<"supply">>, in.amount)
      BY <3>1, HostMetered, HostStorage
    <3> HIDE DEF c3
    <3>3. /\ Metered(c4, G)
          /\ ~c4.trapped => ~c3.trapped /\ c4.storage = insert(c3.storage, kt, in.amount)
      BY <3>2, HostMetered, HostStorage
    <3> HIDE DEF c4
    <3>4. c5.storage = c4.storage /\ (~c5.trapped => ~c4.trapped)
      BY <3>3, HostStorage
    <3> HIDE DEF c5
    <3>5. ~c5.trapped
      BY <2>1, <2>4
    <3> DEFINE s3 == insert(insert(insert(c.storage, <<"init">>, 1), <<"supply">>, in.amount),
                            kt, in.amount)
    <3>6. c5.storage = s3
      BY <2>2, <3>1, <3>2, <3>3, <3>4, <3>5
    <3>7. ~IsSet(c.storage, <<"init">>) /\ in.amount \in Nat
      BY <1>2, <2>2, <2>4 DEF is_set, get, IsSet, IsCallOf
    <3>8. Erc20Good(s3)
      BY <3>7, Erc20InitWrites
    <3>9. IsFiniteSet(DOMAIN s3)
      BY InsertFinite
    <3> HIDE DEF s3
    <3> QED
      BY <2>1, <2>4, <3>6, <3>8, <3>9
  <2> QED
    BY <2>3, <2>4
<1>3. CASE in.sel = 2
  <2>1. erc20(c, in) = move_balance(c, ZeroAddress, in.to, in.amount) /\ in.amount \in Nat
    BY <1>3 DEF erc20, IsCallOf
  <2> QED
    BY <1>1, <2>1
<1>4. CASE in.sel = 3
  <2> DEFINE k == <<"a", ZeroAddress, in.to>>
             c1 == set(c, k, in.amount)
  <2>1. erc20(c, in) = emit(c1, "approve")
    BY <1>4 DEF erc20, erc20_approve
  <2>2. Metered(c1, G) /\ (~c1.trapped => c1.storage = insert(c.storage, k, in.amount))
    BY HostMetered, HostStorage
  <2>3. k[1] \notin {"b", "supply", "init"}
    OBVIOUS
  <2> HIDE DEF c1, k
  <2>4. emit(c1, "approve").storage = insert(c.storage, k, in.amount)
    BY <2>1, <2>2, HostStorage
  <2> QED
    BY <2>1, <2>3, <2>4, Erc20Other, InsertFinite
<1>5. CASE in.sel = 4
  <2> DEFINE k == <<"a", in.from, ZeroAddress>>
             c1 == read(c)
             c2 == set(c1, k, get_u64(c1, k) - in.amount)
             c3 == move_balance(c2, in.from, in.to, in.amount)
  <2>1. erc20(c, in) = IF get_u64(c1, k) < in.amount THEN c1 ELSE c3
    BY <1>5 DEF erc20, erc20_transfer_from
  <2>2. Metered(c1, G) /\ c1.storage = c.storage
    BY HostMetered, HostStorage
  <2> HIDE DEF c1
  <2>3. Metered(c2, G) /\ (~c2.trapped => c2.storage = insert(c.storage, k, get_u64(c1, k) - in.amount))
    BY <2>2, HostMetered, HostStorage
  <2>4. k[1] \notin {"b", "supply", "init"}
    OBVIOUS
  <2> HIDE DEF k, c2
  <2>5. ~c2.trapped => Kept(c2)
    BY <2>3, <2>4, Erc20Other, InsertFinite
  <2>6. c2.trapped => c3.trapped
    <3>1. ASSUME c2.trapped PROVE read(c2).trapped /\ Metered(read(c2), G)
      BY <2>3, <3>1, HostMetered DEF read, charge_host_gas, Metered
    <3> QED
      BY <2>3, <3>1, HostMetered, HostStorage DEF move_balance
  <2>7. in.amount \in Nat
    BY <1>5 DEF IsCallOf
  <2> QED
    BY <1>1, <2>1, <2>2, <2>3, <2>5, <2>6, <2>7
<1>6. CASE in.sel \notin {1, 2, 3, 4}
  BY <1>6 DEF erc20
<1> QED
  BY <1>2, <1>3, <1>4, <1>5, <1>6

-----------------------------------------------------------------------------
(* What has vested is no more than the total, before, during and after the *)
(* vesting period.                                                         *)
LEMMA UnlockedBound ==
    ASSUME NEW total \in Nat, NEW start \in Nat, NEW dur \in Nat, NEW now \in Nat
    PROVE  unlocked(total, start, dur, now) \in Nat /\ unlocked(total, start, dur, now) <= total
<1>1. CASE now <= start \/ now >= start + dur
  BY <1>1 DEF unlocked
<1>2. CASE ~(now <= start \/ now >= start + dur)
  <2>1. now - start \in Nat /\ now - start <= dur /\ dur >= 1
    BY <1>2
  <2>2. PICK d \in Nat : d = now - start
    BY <2>1
  <2>3. total * d \in Nat /\ total * d <= total * dur /\ total * dur \in Nat
    BY <2>1, <2>2, Products
  <2>4. PICK q : q = (total * d) \div dur
    OBVIOUS
  <2>5. q \in Nat /\ q * dur <= total * d
    <3>1. \A x, y \in Nat : y >= 1 => x \div y \in Nat /\ (x \div y) * y <= x
      OBVIOUS
    <3> QED
      BY <2>1, <2>3, <2>4, <3>1
  <2>6. q <= total
    <3> SUFFICES ASSUME q >= total + 1 PROVE FALSE
      BY <2>5
    <3>1. (total + 1) * dur <= q * dur /\ q * dur \in Nat
      BY <2>5, Products
    <3>2. (total + 1) * dur = total * dur + dur
      <4>1. dur * (total + 1) = dur * total + dur * 1
        BY Products
      <4> QED
        BY <4>1
    <3> QED
      BY <2>1, <2>3, <2>5, <3>1, <3>2
  <2> QED
    BY <1>2, <2>2, <2>4, <2>5, <2>6 DEF unlocked
<1> QED
  BY <1>1, <1>2

(* A run of vesting that does not trap keeps its storage. *)
LEMMA VestingKeeps ==
    ASSUME NEW G \in Nat, NEW c, Metered(c, G), NEW in, IsCallOf(<<"wasm", "vesting">>, in),
           IsFiniteSet(DOMAIN c.storage), VestingGood(c.storage), ~vesting(c, in).trapped
    PROVE  IsFiniteSet(DOMAIN vesting(c, in).storage) /\ VestingGood(vesting(c, in).storage)
<1>1. CASE in.sel = 1
  <2> DEFINE c1 == read(c)
             d1 == set(c1, <<"init">>, 1)
             d2 == set(d1, <<"ben">>, in.beneficiary)
             d3 == set(d2, <<"total">>, in.total)
             d4 == set(d3, <<"start">>, in.start)
             d5 == set(d4, <<"dur">>, in.duration)
             d6 == set(d5, <<"released">>, 0)
             d7 == emit(d6, "init")
  <2>1. vesting(c, in) = IF is_set(c1, <<"init">>) \/ in.duration = 0 THEN c1 ELSE d7
    BY <1>1 DEF vesting, vesting_init
  <2>2. Metered(c1, G) /\ c1.storage = c.storage
    BY HostMetered, HostStorage
  <2> HIDE DEF c1
  <2>3. CASE is_set(c1, <<"init">>) \/ in.duration = 0
    BY <2>1, <2>2, <2>3
  <2>4. CASE ~(is_set(c1, <<"init">>) \/ in.duration = 0)
    <3>1. Metered(d1, G) /\ Stored(c1, <<"init">>, 1, d1)
      BY <2>2, SetStep, ZenonT(30)
    <3> HIDE DEF d1
    <3>2. Metered(d2, G) /\ Stored(d1, <<"ben">>, in.beneficiary, d2)
      BY <3>1, SetStep, ZenonT(30)
    <3> HIDE DEF d2
    <3>3. Metered(d3, G) /\ Stored(d2, <<"total">>, in.total, d3)
      BY <3>2, SetStep, ZenonT(30)
    <3> HIDE DEF d3
    <3>4. Metered(d4, G) /\ Stored(d3, <<"start">>, in.start, d4)
      BY <3>3, SetStep, ZenonT(30)
    <3> HIDE DEF d4
    <3>5. Metered(d5, G) /\ Stored(d4, <<"dur">>, in.duration, d5)
      BY <3>4, SetStep, ZenonT(30)
    <3> HIDE DEF d5
    <3>6. Metered(d6, G) /\ Stored(d5, <<"released">>, 0, d6)
      BY <3>5, SetStep, ZenonT(30)
    <3> HIDE DEF d6
    <3>7. d7.storage = d6.storage /\ (~d7.trapped => ~d6.trapped)
      BY <3>6, HostStorage
    <3> HIDE DEF d7
    <3>8. ~d7.trapped /\ vesting(c, in) = d7
      BY <2>1, <2>4
    <3> DEFINE s3 == insert(insert(insert(c.storage, <<"init">>, 1), <<"ben">>, in.beneficiary),
                            <<"total">>, in.total)
               s6 == insert(insert(insert(s3, <<"start">>, in.start), <<"dur">>, in.duration),
                            <<"released">>, 0)
    <3>9. d3.storage = s3
      BY <2>2, <3>1, <3>2, <3>3, <3>4, <3>5, <3>6, <3>7, <3>8 DEF Stored
    <3>10. IsFiniteSet(DOMAIN s3) /\ get_or_zero(s3, <<"total">>) = in.total
      BY InsertFinite, ZenonT(30) DEF insert, get_or_zero
    <3> HIDE DEF s3
    <3>11. d7.storage = s6
      BY <3>4, <3>5, <3>6, <3>7, <3>8, <3>9 DEF Stored
    <3>12. /\ get_or_zero(s6, <<"total">>) = in.total /\ get_or_zero(s6, <<"start">>) = in.start
           /\ get_or_zero(s6, <<"dur">>) = in.duration /\ get_or_zero(s6, <<"released">>) = 0
      BY <3>10, ZenonT(30) DEF insert, get_or_zero
    <3>13. IsFiniteSet(DOMAIN s6)
      BY <3>10, InsertFinite, ZenonT(30)
    <3> HIDE DEF s6
    <3>14. {in.total, in.start, in.duration} \subseteq Nat
      BY <1>1 DEF IsCallOf
    <3>15. VestingGood(s6)
      BY <3>12, <3>14 DEF VestingGood
    <3> QED
      BY <3>8, <3>11, <3>13, <3>15
  <2> QED
    BY <2>3, <2>4
<1>2. CASE in.sel = 2
  <2> DEFINE c5 == read(read(read(read(read(c)))))
             x == unlocked(get_u64(c5, <<"total">>), get_u64(c5, <<"start">>),
                           get_u64(c5, <<"dur">>), in.now)
             c6 == set(c5, <<"released">>, x)
             c8 == emit(read(c6), "release")
  <2>1. vesting(c, in) = IF ~is_set(read(c), <<"init">>) THEN read(c)
                         ELSE IF x <= get_u64(c5, <<"released">>) THEN c5 ELSE c8
    BY <1>2 DEF vesting, vesting_release
  <2>2. read(c).storage = c.storage /\ Metered(c5, G) /\ c5.storage = c.storage
    BY HostMetered, HostStorage
  <2> HIDE DEF c5
  <2>3. \A k : get_u64(c5, k) = get_or_zero(c.storage, k)
    BY <2>2 DEF get_u64, get_or_zero
  <2>4. x \in Nat /\ x <= get_or_zero(c.storage, <<"total">>)
    <3>1. in.now \in Nat
      BY <1>2 DEF IsCallOf
    <3> QED
      BY <2>3, <3>1, UnlockedBound, ZenonT(30) DEF VestingGood
  <2> HIDE DEF x
  <2>5. Metered(c6, G) /\ (~c6.trapped => c6.storage = insert(c.storage, <<"released">>, x))
    BY <2>2, HostMetered, HostStorage
  <2> HIDE DEF c6
  <2>6. c8.storage = c6.storage /\ (~c8.trapped => ~c6.trapped)
    BY <2>5, HostMetered, HostStorage
  <2> HIDE DEF c8
  <2> DEFINE s1 == insert(c.storage, <<"released">>, x)
  <2>7. /\ get_or_zero(s1, <<"total">>) = get_or_zero(c.storage, <<"total">>)
        /\ get_or_zero(s1, <<"start">>) = get_or_zero(c.storage, <<"start">>)
        /\ get_or_zero(s1, <<"dur">>) = get_or_zero(c.storage, <<"dur">>)
        /\ get_or_zero(s1, <<"released">>) = x /\ IsFiniteSet(DOMAIN s1)
    BY InsertFinite, ZenonT(30) DEF insert, get_or_zero
  <2> HIDE DEF s1
  <2>8. VestingGood(s1)
    BY <2>4, <2>7 DEF VestingGood
  <2>9. ~c8.trapped => c8.storage = s1
    BY <2>5, <2>6 DEF s1
  <2> QED
    BY <2>1, <2>2, <2>7, <2>8, <2>9
<1>3. CASE in.sel = 3
  <2>1. vesting(c, in) = emit(read(read(c)), "state")
    BY <1>3 DEF vesting
  <2>2. emit(read(read(c)), "state").storage = c.storage
    BY HostMetered, HostStorage
  <2> QED
    BY <2>1, <2>2
<1>4. CASE in.sel \notin {1, 2, 3}
  BY <1>4 DEF vesting
<1> QED
  BY <1>1, <1>2, <1>3, <1>4

-----------------------------------------------------------------------------
(* A run of nft that does not trap keeps its storage. *)
LEMMA NftKeeps ==
    ASSUME NEW G \in Nat, NEW c, Metered(c, G), NEW in, IsCallOf(<<"wasm", "nft">>, in),
           IsFiniteSet(DOMAIN c.storage), NftGood(c.storage), ~nft(c, in).trapped
    PROVE  IsFiniteSet(DOMAIN nft(c, in).storage) /\ NftGood(nft(c, in).storage)
<1> DEFINE st == c.storage
           ok == <<"o", in.token>>
           mk == <<"m", in.token>>
           c1 == read(c)
           Kept(s) == IsFiniteSet(DOMAIN s) /\ NftGood(s)
<1>1. Metered(c1, G) /\ c1.storage = st /\ Kept(st)
  BY HostMetered, HostStorage
<1>2. ASSUME NEW owner, owner # Empty PROVE Kept(insert(st, ok, owner))
  <2>1. IsFiniteSet(DOMAIN insert(st, ok, owner))
    BY InsertFinite
  <2> DEFINE s1 == insert(st, ok, owner)
  <2>2. ASSUME NEW k \in Keys(s1, "m")
        PROVE  k = <<"m", k[2]>> /\ (s1[k] # Empty => IsSet(s1, <<"o", k[2]>>))
    <3>1. k \in Keys(st, "m") /\ s1[k] = st[k]
      BY <2>2 DEF Keys, insert
    <3>2. k = <<"m", k[2]>> /\ (st[k] # Empty => IsSet(st, <<"o", k[2]>>))
      BY <3>1, ZenonT(30) DEF NftGood
    <3>3. IsSet(st, <<"o", k[2]>>) => IsSet(s1, <<"o", k[2]>>)
      BY <1>2, ZenonT(30) DEF IsSet, insert
    <3> QED
      BY <3>1, <3>2, <3>3
  <2> HIDE DEF s1
  <2>3. NftGood(s1)
    BY <2>2, ZenonT(30) DEF NftGood
  <2> QED
    BY <2>1, <2>3 DEF s1
<1>3. ASSUME NEW owner, NEW metadata, owner # Empty \/ metadata = Empty
      PROVE  Kept(insert(insert(st, ok, owner), mk, metadata))
  <2> DEFINE s2 == insert(insert(st, ok, owner), mk, metadata)
  <2>1. IsFiniteSet(DOMAIN s2)
    BY InsertFinite
  <2>2. ASSUME NEW k \in Keys(s2, "m")
        PROVE  k = <<"m", k[2]>> /\ (s2[k] # Empty => IsSet(s2, <<"o", k[2]>>))
    <3>1. CASE k = mk
      BY <1>3, <3>1, ZenonT(30) DEF insert, IsSet
    <3>2. CASE k # mk
      <4>1. k \in Keys(st, "m") /\ s2[k] = st[k]
        <5>1. k \in DOMAIN s2 /\ k[1] = "m" /\ ok[1] = "o"
          BY <2>2, ZenonT(30) DEF Keys
        <5>2. k # ok
          BY <5>1, ZenonT(30)
        <5> QED
          BY <3>2, <5>1, <5>2, ZenonT(30) DEF Keys, insert
      <4>2. k = <<"m", k[2]>> /\ (st[k] # Empty => IsSet(st, <<"o", k[2]>>))
        BY <4>1, ZenonT(30) DEF NftGood
      <4>3. k[2] # in.token
        BY <3>2, <4>2
      <4>4. IsSet(st, <<"o", k[2]>>) => IsSet(s2, <<"o", k[2]>>)
        BY <4>3, ZenonT(30) DEF IsSet, insert
      <4> QED
        BY <4>1, <4>2, <4>4, ZenonT(30)
    <3> QED
      BY <3>1, <3>2, ZenonT(30)
  <2> HIDE DEF s2
  <2>3. NftGood(s2)
    BY <2>2, ZenonT(30) DEF NftGood
  <2> QED
    BY <2>1, <2>3 DEF s2
<1>4. ASSUME NEW owner, NEW metadata, NEW t
      PROVE  LET d == emit(set(c1, ok, owner), t)
                 e == emit(set(set(c1, ok, owner), mk, metadata), t)
             IN  /\ ~d.trapped => d.storage = insert(st, ok, owner)
                 /\ ~e.trapped => e.storage = insert(insert(st, ok, owner), mk, metadata)
  <2> DEFINE d1 == set(c1, ok, owner)
             d2 == set(d1, mk, metadata)
  <2> HIDE DEF c1
  <2>1. Metered(d1, G) /\ (~d1.trapped => d1.storage = insert(st, ok, owner))
    BY <1>1, HostMetered, HostStorage
  <2> HIDE DEF d1
  <2>2. Metered(d2, G) /\ (~d2.trapped => ~d1.trapped /\ d2.storage = insert(d1.storage, mk, metadata))
    BY <2>1, HostMetered, HostStorage
  <2> HIDE DEF d2
  <2>3. /\ emit(d1, t).storage = d1.storage /\ (~emit(d1, t).trapped => ~d1.trapped)
        /\ emit(d2, t).storage = d2.storage /\ (~emit(d2, t).trapped => ~d2.trapped)
    BY <2>1, <2>2, HostStorage, ZenonT(30)
  <2> QED
    BY <2>1, <2>2, <2>3, ZenonT(30) DEF d1, d2
<1>5. CASE in.sel = 1
  <2> DEFINE e == emit(set(set(c1, ok, in.to), mk, in.metadata), "mint")
  <2>1. nft(c, in) = IF is_set(c1, ok) THEN c1 ELSE e
    BY <1>5 DEF nft, nft_mint
  <2>2. in.to # Empty
    BY <1>5, ContractAssumption DEF IsCallOf
  <2>3. ~e.trapped => e.storage = insert(insert(st, ok, in.to), mk, in.metadata)
    <3> HIDE DEF st, ok, mk, c1
    <3> QED
      BY <1>4
  <2>4. ~e.trapped => Kept(e.storage)
    BY <1>3, <2>2, <2>3, ZenonT(30)
  <2> HIDE DEF e, c1
  <2> QED
    BY <1>1, <2>1, <2>4
<1>6. CASE in.sel = 2
  <2> DEFINE e == emit(set(c1, ok, in.to), "transfer")
  <2>1. nft(c, in) = IF get(c1, ok) # in.from THEN c1 ELSE e
    BY <1>6 DEF nft, nft_transfer
  <2>2. in.to # Empty
    BY <1>6, ContractAssumption DEF IsCallOf
  <2>3. ~e.trapped => e.storage = insert(st, ok, in.to)
    BY <1>4, ZenonT(30)
  <2>4. ~e.trapped => Kept(e.storage)
    BY <1>2, <2>2, <2>3, ZenonT(30)
  <2> HIDE DEF e, c1
  <2> QED
    BY <1>1, <2>1, <2>4
<1>7. CASE in.sel = 3
  <2> DEFINE e == emit(set(set(c1, ok, Empty), mk, Empty), "burn")
  <2>1. nft(c, in) = IF get(c1, ok) # in.from THEN c1 ELSE e
    BY <1>7 DEF nft, nft_burn
  <2>3. ~e.trapped => e.storage = insert(insert(st, ok, Empty), mk, Empty)
    BY <1>4, ZenonT(30)
  <2>4. ~e.trapped => Kept(e.storage)
    BY <1>3, <2>3, ZenonT(30)
  <2> HIDE DEF e, c1
  <2> QED
    BY <1>1, <2>1, <2>4
<1>8. CASE in.sel \notin {1, 2, 3}
  BY <1>8 DEF nft
<1> QED
  BY <1>5, <1>6, <1>7, <1>8

-----------------------------------------------------------------------------
(* Two storages with the same entries under the prefixes of Q. *)
Agree(Q, a, b) == \A p \in Q : Keys(b, p) = Keys(a, p) /\ \A x \in Keys(a, p) : b[x] = a[x]

(* A key with another prefix is written. *)
LEMMA InsertAgrees ==
    ASSUME NEW Q, NEW a, NEW b, Agree(Q, a, b), NEW k, k[1] \notin Q, NEW v
    PROVE  Agree(Q, a, insert(b, k, v))
BY DEF Agree, Keys, insert

(* What agrees on the prefixes of a multisig, its owners apart, with a     *)
(* storage that is good is good.                                           *)
LEMMA MultisigAgrees ==
    ASSUME NEW a, NEW b, Agree({"init", "t", "c", "v", "e", "o!"}, a, b), MultisigGood(a)
    PROVE  MultisigGood(b)
<1> DEFINE Q == {"init", "t", "c", "v", "e", "o!"}
<1>1. \A p \in Q : Keys(b, p) = Keys(a, p) /\ \A x \in Keys(a, p) : b[x] = a[x]
  BY DEF Agree
<1>2. ASSUME NEW k, k[1] \in Q
      PROVE  (k \in DOMAIN b <=> k \in DOMAIN a) /\ (k \in DOMAIN a => b[k] = a[k])
  <2>1. Keys(b, k[1]) = Keys(a, k[1]) /\ \A x \in Keys(a, k[1]) : b[x] = a[x]
    BY <1>1, <1>2
  <2> QED
    BY <2>1 DEF Keys
<1>3. get_or_zero(b, <<"t">>) = get_or_zero(a, <<"t">>)
  BY <1>2 DEF get_or_zero
<1>4. \A aid : IsSet(b, <<"e", aid>>) <=> IsSet(a, <<"e", aid>>)
  BY <1>2 DEF IsSet
<1>5. IsSet(b, <<"init">>) <=> IsSet(a, <<"init">>)
  BY <1>2 DEF IsSet
<1>6. \A aid : Votes(b, aid) = Votes(a, aid)
  BY <1>1 DEF Votes
<1>7. \A aid : <<"c", aid>> \in DOMAIN b <=> <<"c", aid>> \in DOMAIN a
  BY <1>2
<1>8. ASSUME NEW k \in Keys(b, "c")
      PROVE  /\ k = <<"c", k[2]>> /\ b[k] = Cardinality(Votes(b, k[2]))
             /\ IsSet(b, <<"e", k[2]>>) <=> b[k] >= get_or_zero(b, <<"t">>)
  <2>1. k \in Keys(a, "c") /\ b[k] = a[k]
    BY <1>1, <1>8
  <2>2. /\ k = <<"c", k[2]>> /\ a[k] = Cardinality(Votes(a, k[2]))
        /\ IsSet(a, <<"e", k[2]>>) <=> a[k] >= get_or_zero(a, <<"t">>)
    BY <2>1 DEF MultisigGood
  <2> QED
    BY <1>3, <1>4, <1>6, <2>1, <2>2
<1>9. \A k \in Keys(b, "v") : b[k] = 1 /\ <<"c", k[2]>> \in DOMAIN b
  BY <1>1, <1>7, ZenonT(30) DEF MultisigGood
<1>10. \A k \in Keys(b, "e") : <<"c", k[2]>> \in DOMAIN b
  BY <1>1, <1>7, ZenonT(30) DEF MultisigGood
<1>11. ~IsSet(b, <<"init">>) => Keys(b, "c") = {} /\ Keys(b, "o!") = {}
  BY <1>1, <1>5 DEF MultisigGood
<1> QED
  BY <1>3, <1>8, <1>9, <1>10, <1>11, ZenonT(30) DEF MultisigGood

(* The initialisation of a multisig: nothing has been counted. *)
LEMMA MultisigFresh ==
    ASSUME NEW a, NEW b, MultisigGood(a), ~IsSet(a, <<"init">>), Agree({"c", "v", "e"}, a, b),
           IsSet(b, <<"init">>), get_or_zero(b, <<"t">>) \in Nat
    PROVE  MultisigGood(b)
<1>1. Keys(a, "c") = {}
  BY DEF MultisigGood
<1>2. \A aid : <<"c", aid>> \notin DOMAIN a
  BY <1>1 DEF Keys
<1>3. Keys(a, "v") = {} /\ Keys(a, "e") = {}
  BY <1>2, ZenonT(30) DEF MultisigGood
<1>4. Keys(b, "c") = {} /\ Keys(b, "v") = {} /\ Keys(b, "e") = {}
  BY <1>1, <1>3 DEF Agree
<1> QED
  BY <1>4 DEF MultisigGood

(* A vote that is new is counted, and the action is executed with the vote *)
(* that reaches the threshold.                                             *)
LEMMA MultisigVote ==
    ASSUME NEW st, IsFiniteSet(DOMAIN st), MultisigGood(st), IsSet(st, <<"init">>),
           NEW aid, NEW owner, ~IsSet(st, <<"v", aid, owner>>),
           NEW s1, s1 = insert(st, <<"v", aid, owner>>, 1),
           NEW n, n = get_or_zero(s1, <<"c", aid>>) + 1,
           NEW s2, s2 = insert(s1, <<"c", aid>>, n),
           NEW f, \/ f = s2 /\ n < get_or_zero(s2, <<"t">>)
                  \/ f = s2 /\ n >= get_or_zero(s2, <<"t">>) /\ IsSet(s2, <<"e", aid>>)
                  \/ f = insert(s2, <<"e", aid>>, 1) /\ n >= get_or_zero(s2, <<"t">>)
    PROVE  IsFiniteSet(DOMAIN f) /\ MultisigGood(f)
<1> DEFINE vk == <<"v", aid, owner>>
           ck == <<"c", aid>>
           ek == <<"e", aid>>
           t == get_or_zero(st, <<"t">>)
<1>1. /\ vk[1] = "v" /\ vk[2] = aid /\ ck[1] = "c" /\ ck[2] = aid /\ ek[1] = "e" /\ ek[2] = aid
      /\ t \in Nat /\ 1 # Empty
  BY ContractAssumption DEF MultisigGood
<1>2. vk \notin DOMAIN st
  BY <1>1 DEF MultisigGood, IsSet, Keys
<1>3. get_or_zero(s1, ck) = get_or_zero(st, ck)
  BY ZenonT(30) DEF get_or_zero, insert
<1>4. IsFiniteSet(Votes(st, aid)) /\ get_or_zero(st, ck) = Cardinality(Votes(st, aid))
  <2>1. IsFiniteSet(Votes(st, aid))
    BY FS_Subset DEF Votes, Keys
  <2>2. CASE ck \in DOMAIN st
    BY <1>1, <2>1, <2>2 DEF MultisigGood, get_or_zero, Keys
  <2>3. CASE ck \notin DOMAIN st
    <3>1. Votes(st, aid) = {}
      BY <1>1, <2>3 DEF Votes, MultisigGood
    <3> QED
      BY <2>1, <2>3, <3>1, FS_EmptySet DEF get_or_zero
  <2> QED
    BY <2>2, <2>3, ZenonT(30)
<1>5. /\ n = Cardinality(Votes(st, aid)) + 1 /\ n = Cardinality(Votes(st, aid) \cup {vk})
      /\ n \in Nat /\ get_or_zero(st, ck) = n - 1
  <2>1. vk \notin Votes(st, aid)
    BY <1>2 DEF Votes, Keys
  <2> HIDE DEF vk, ck
  <2>2. Cardinality(Votes(st, aid)) \in Nat
    BY <1>4, FS_CardinalityType
  <2>3. Cardinality(Votes(st, aid) \cup {vk}) = Cardinality(Votes(st, aid)) + 1
    BY <1>4, <2>1, FS_AddElement, ZenonT(30)
  <2>4. n = get_or_zero(s1, ck) + 1
    BY DEF ck
  <2> QED
    BY <1>3, <1>4, <2>2, <2>3, <2>4
<1>6. IsSet(st, ek) => n > t
  <2> SUFFICES ASSUME IsSet(st, ek) PROVE n > t
    OBVIOUS
  <2>1. ck \in DOMAIN st
    BY <1>1 DEF IsSet, MultisigGood, Keys
  <2>2. st[ck] >= t /\ st[ck] = n - 1
    BY <1>1, <1>5, <2>1, ZenonT(30) DEF MultisigGood, Keys, get_or_zero
  <2> QED
    BY <1>1, <1>5, <2>2
<1>7. /\ DOMAIN s2 = DOMAIN st \cup {vk, ck} /\ s2[vk] = 1 /\ s2[ck] = n
      /\ \A x \in DOMAIN st : x # ck => s2[x] = st[x]
  BY <1>1, <1>2, ZenonT(30) DEF insert
<1>8. get_or_zero(s2, <<"t">>) = t
  BY <1>7 DEF get_or_zero
<1>9. IsSet(s2, ek) <=> IsSet(st, ek)
  BY <1>1, <1>7 DEF IsSet
<1>10. /\ DOMAIN f \in {DOMAIN s2, DOMAIN s2 \cup {ek}} /\ \A x \in DOMAIN s2 : x # ek => f[x] = s2[x]
       /\ IsSet(f, ek) <=> n >= t
  <2>1. CASE f = s2 /\ n < t
    BY <1>1, <1>5, <1>6, <1>9, <2>1
  <2>2. CASE f = s2 /\ n >= t /\ IsSet(s2, ek)
    BY <2>2
  <2>3. CASE f = insert(s2, ek, 1) /\ n >= t
    <3>1. IsSet(f, ek)
      BY <1>1, <2>3, ZenonT(30) DEF IsSet, insert
    <3> QED
      BY <2>3, <3>1, ZenonT(30) DEF insert
  <2> QED
    BY <1>8, <2>1, <2>2, <2>3, ZenonT(30)
<1>11. /\ DOMAIN f \subseteq DOMAIN st \cup {vk, ck, ek} /\ DOMAIN st \cup {vk, ck} \subseteq DOMAIN f
       /\ f[vk] = 1 /\ f[ck] = n /\ \A x \in DOMAIN st : x # ck /\ x # ek => f[x] = st[x]
  <2>1. vk # ek /\ ck # ek
    BY <1>1
  <2> HIDE DEF vk, ck, ek
  <2> QED
    BY <1>7, <1>10, <2>1, ZenonT(30)
<1>12. IsFiniteSet(DOMAIN f)
  <2>1. IsFiniteSet(DOMAIN s2)
    BY InsertFinite
  <2>2. IsFiniteSet(DOMAIN s2 \cup {ek})
    BY <2>1, FS_AddElement, ZenonT(30)
  <2> QED
    BY <1>10, <2>1, <2>2
<1>13. get_or_zero(f, <<"t">>) = t
  BY <1>1, <1>11 DEF get_or_zero
<1>14. IsSet(f, <<"init">>)
  BY <1>1, <1>11 DEF IsSet
<1>15. Keys(f, "v") = Keys(st, "v") \cup {vk} /\ Keys(f, "c") = Keys(st, "c") \cup {ck}
  BY <1>1, <1>11 DEF Keys
<1>16. ASSUME NEW k \in Keys(f, "v") PROVE f[k] = 1 /\ <<"c", k[2]>> \in DOMAIN f
  <2>1. CASE k = vk
    BY <1>1, <1>11, <2>1
  <2>2. CASE k # vk
    <3>1. k \in Keys(st, "v") /\ k \in DOMAIN st /\ k # ck /\ k # ek
      BY <1>1, <1>15, <1>16, <2>2 DEF Keys
    <3>2. st[k] = 1 /\ <<"c", k[2]>> \in DOMAIN st
      BY <3>1 DEF MultisigGood
    <3> QED
      BY <1>11, <3>1, <3>2
  <2> QED
    BY <2>1, <2>2
<1>17. ASSUME NEW k \in Keys(f, "e") PROVE <<"c", k[2]>> \in DOMAIN f
  <2>1. CASE k = ek
    BY <1>1, <1>11, <2>1
  <2>2. CASE k # ek
    <3>1. k \in Keys(st, "e")
      BY <1>1, <1>11, <1>17, <2>2 DEF Keys
    <3>2. <<"c", k[2]>> \in DOMAIN st
      BY <3>1, ZenonT(30) DEF MultisigGood
    <3> QED
      BY <1>11, <3>2, ZenonT(30)
  <2> QED
    BY <2>1, <2>2
<1>18. ASSUME NEW k \in Keys(f, "c")
       PROVE  /\ k = <<"c", k[2]>> /\ f[k] = Cardinality(Votes(f, k[2]))
              /\ IsSet(f, <<"e", k[2]>>) <=> f[k] >= get_or_zero(f, <<"t">>)
  <2>1. CASE k = ck
    <3>1. Votes(f, aid) = Votes(st, aid) \cup {vk}
      BY <1>1, <1>15 DEF Votes
    <3>2. f[k] = Cardinality(Votes(f, aid)) /\ k[2] = aid /\ k = <<"c", k[2]>>
      BY <1>1, <1>5, <1>11, <2>1, <3>1, ZenonT(30)
    <3>3. (IsSet(f, ek) <=> n >= t) /\ f[k] = n /\ ek = <<"e", k[2]>>
      BY <1>10, <1>11, <2>1, <3>2, ZenonT(30)
    <3> QED
      BY <1>13, <3>2, <3>3, ZenonT(30)
  <2>2. CASE k # ck
    <3>1. k \in Keys(st, "c") /\ k # vk /\ k # ek /\ f[k] = st[k]
      BY <1>1, <1>11, <1>15, <1>18, <2>2, ZenonT(30) DEF Keys
    <3>2. /\ k = <<"c", k[2]>> /\ st[k] = Cardinality(Votes(st, k[2]))
          /\ IsSet(st, <<"e", k[2]>>) <=> st[k] >= t
      BY <3>1, ZenonT(30) DEF MultisigGood
    <3>3. k[2] # aid
      BY <2>2, <3>2
    <3>4. Votes(f, k[2]) = Votes(st, k[2])
      BY <1>1, <1>15, <3>3 DEF Votes
    <3>5. IsSet(f, <<"e", k[2]>>) <=> IsSet(st, <<"e", k[2]>>)
      <4>1. <<"e", k[2]>> # ek /\ <<"e", k[2]>> # ck /\ <<"e", k[2]>> # vk
        BY <3>3
      <4> HIDE DEF ek, ck, vk
      <4> QED
        BY <1>11, <4>1 DEF IsSet
    <3> QED
      BY <1>13, <3>1, <3>2, <3>4, <3>5, ZenonT(30)
  <2> QED
    BY <2>1, <2>2
<1> QED
  BY <1>1, <1>12, <1>13, <1>14, <1>16, <1>17, <1>18, ZenonT(30) DEF MultisigGood

(* The loop over the owners writes the keys of the owners and no other. *)
LEMMA LoopAgrees ==
    ASSUME NEW G \in Nat, NEW c, Metered(c, G), ~c.trapped => IsFiniteSet(DOMAIN c.storage),
           NEW os, NEW n \in Nat, NEW f, IsLoop(f, c, os, n), ~f[n].trapped
    PROVE  /\ ~c.trapped /\ IsFiniteSet(DOMAIN f[n].storage)
           /\ Agree({"t", "c", "v", "e"}, c.storage, f[n].storage)
<1> DEFINE Q == {"t", "c", "v", "e"}
           Fine(d) == ~d.trapped => /\ ~c.trapped /\ IsFiniteSet(DOMAIN d.storage)
                                    /\ Agree(Q, c.storage, d.storage)
           Bad == {k \in 0..n : ~(Metered(f[k], G) /\ Fine(f[k]))}
<1>0. Agree(Q, c.storage, c.storage)
  BY DEF Agree
<1> SUFFICES ASSUME Bad # {} PROVE FALSE
  OBVIOUS
<1>1. PICK k \in Bad : \A j \in Bad : k <= j
  <2>1. Bad \in SUBSET Nat
    OBVIOUS
  <2> HIDE DEF Bad
  <2> QED
    BY <2>1, SmallestNat
<1>2. f[k] = IF k = 0 THEN c ELSE AddOwner(f[k - 1], os, k)
  BY DEF IsLoop
<1>3. CASE k = 0
  <2>1. Metered(f[k], G) /\ Fine(f[k])
    BY <1>0, <1>2, <1>3, ZenonT(30)
  <2> QED
    BY <2>1, ZenonT(30)
<1>4. CASE k # 0
  <2>1. k - 1 \in 0..n /\ k - 1 \notin Bad
    BY <1>1, <1>4
  <2> DEFINE ok == <<"o", ToString(k)>>
             mk == <<"o!", os[k]>>
  <2>2. PICK d : d = f[k - 1] /\ Metered(d, G) /\ Fine(d)
    BY <2>1, ZenonT(30)
  <2>3. PICK d1 : d1 = set(d, ok, os[k])
    OBVIOUS
  <2>4. PICK d2 : d2 = set(d1, mk, 1)
    OBVIOUS
  <2>5. f[k] = d2
    BY <1>2, <1>4, <2>2, <2>3, <2>4 DEF AddOwner
  <2>6. ok[1] \notin Q /\ mk[1] \notin Q
    OBVIOUS
  <2> HIDE DEF ok, mk, Bad
  <2>7. Metered(d1, G) /\ Stored(d, ok, os[k], d1)
    <3>1. Metered(set(d, ok, os[k]), G) /\ Stored(d, ok, os[k], set(d, ok, os[k]))
      BY <2>2, SetStep, ZenonT(30)
    <3> QED
      BY <2>3, <3>1, ZenonT(30)
  <2>8. Metered(d2, G) /\ Stored(d1, mk, 1, d2)
    <3>1. Metered(set(d1, mk, 1), G) /\ Stored(d1, mk, 1, set(d1, mk, 1))
      BY <2>7, SetStep, ZenonT(30)
    <3> QED
      BY <2>4, <3>1, ZenonT(30)
  <2>9. ASSUME ~d1.trapped
        PROVE  ~c.trapped /\ IsFiniteSet(DOMAIN d1.storage) /\ Agree(Q, c.storage, d1.storage)
    <3> HIDE DEF Q
    <3> QED
      BY <2>2, <2>6, <2>7, <2>9, InsertFinite, InsertAgrees, ZenonT(30) DEF Stored
  <2>10. ASSUME ~d2.trapped
         PROVE  ~c.trapped /\ IsFiniteSet(DOMAIN d2.storage) /\ Agree(Q, c.storage, d2.storage)
    <3> HIDE DEF Q
    <3> QED
      BY <2>6, <2>8, <2>9, <2>10, InsertFinite, InsertAgrees, ZenonT(30) DEF Stored
  <2>11. Metered(f[k], G) /\ Fine(f[k])
    BY <2>5, <2>8, <2>10, ZenonT(30)
  <2> QED
    BY <2>11 DEF Bad
<1> QED
  BY <1>3, <1>4, ZenonT(30)

(* record_vote stays within the gas, and traps where it began so. *)
LEMMA RecordVoteMetered ==
    ASSUME NEW G \in Nat, NEW c, Metered(c, G), NEW aid, NEW owner
    PROVE  /\ Metered(record_vote(c, aid, owner), G)
           /\ ~record_vote(c, aid, owner).trapped => ~c.trapped
<1> DEFINE c1 == read(c)
           d1 == read(set(c1, <<"v", aid, owner>>, 1))
           n == get_u64(d1, <<"c", aid>>) + 1
           d2 == read(emit(set(d1, <<"c", aid>>, n), "approve"))
           d3 == read(d2)
           d4 == emit(set(d3, <<"e", aid>>, 1), "executed")
<1>1. record_vote(c, aid, owner) = IF is_set(c1, <<"v", aid, owner>>) THEN c1
                                   ELSE IF n < get_u64(d2, <<"t">>) THEN d2
                                   ELSE IF is_set(d3, <<"e", aid>>) THEN d3 ELSE d4
  BY ZenonT(30) DEF record_vote
<1>2. Metered(c1, G) /\ (~c1.trapped => ~c.trapped)
  BY HostMetered, HostStorage
<1> HIDE DEF c1
<1>3. Metered(d1, G) /\ (~d1.trapped => ~c1.trapped)
  BY <1>2, HostMetered, HostStorage
<1> HIDE DEF d1, n
<1>4. Metered(d2, G) /\ (~d2.trapped => ~d1.trapped)
  BY <1>3, HostMetered, HostStorage
<1> HIDE DEF d2
<1>5. Metered(d3, G) /\ (~d3.trapped => ~d2.trapped)
  BY <1>4, HostMetered, HostStorage
<1> HIDE DEF d3
<1>6. Metered(d4, G) /\ (~d4.trapped => ~d3.trapped)
  BY <1>5, HostMetered, HostStorage
<1> QED
  BY <1>1, <1>2, <1>3, <1>4, <1>5, <1>6

(* record_vote that does not trap keeps the storage of a multisig. *)
LEMMA RecordVoteKeeps ==
    ASSUME NEW G \in Nat, NEW c, Metered(c, G), IsFiniteSet(DOMAIN c.storage),
           MultisigGood(c.storage), IsSet(c.storage, <<"init">>), NEW aid, NEW owner,
           ~record_vote(c, aid, owner).trapped
    PROVE  /\ IsFiniteSet(DOMAIN record_vote(c, aid, owner).storage)
           /\ MultisigGood(record_vote(c, aid, owner).storage)
<1> DEFINE vk == <<"v", aid, owner>>
           ck == <<"c", aid>>
           ek == <<"e", aid>>
           st == c.storage
           r == record_vote(c, aid, owner)
           c1 == read(c)
           d1 == set(c1, vk, 1)
           d2 == read(d1)
           n == get_u64(d2, ck) + 1
           d3 == set(d2, ck, n)
           d4 == emit(d3, "approve")
           d5 == read(d4)
           d6 == read(d5)
           d7 == set(d6, ek, 1)
           d8 == emit(d7, "executed")
<1>1. r = IF is_set(c1, vk) THEN c1
          ELSE IF n < get_u64(d5, <<"t">>) THEN d5
          ELSE IF is_set(d6, ek) THEN d6 ELSE d8
  BY ZenonT(30) DEF record_vote
<1>2. Metered(c1, G) /\ c1.storage = st
  BY HostMetered, HostStorage
<1> HIDE DEF c1
<1>3. Metered(d1, G) /\ (~d1.trapped => d1.storage = insert(st, vk, 1))
  BY <1>2, HostMetered, HostStorage
<1> HIDE DEF d1
<1>4. Metered(d2, G) /\ d2.storage = d1.storage /\ (~d2.trapped => ~d1.trapped)
  BY <1>3, HostMetered, HostStorage
<1> HIDE DEF d2
<1>5. Metered(d3, G) /\ Stored(d2, ck, n, d3)
  BY <1>4, SetStep, ZenonT(30)
<1> HIDE DEF d3
<1>6. Metered(d4, G) /\ d4.storage = d3.storage /\ (~d4.trapped => ~d3.trapped)
  BY <1>5, HostMetered, HostStorage, ZenonT(30)
<1> HIDE DEF d4
<1>7. Metered(d5, G) /\ d5.storage = d4.storage /\ (~d5.trapped => ~d4.trapped)
  BY <1>6, HostMetered, HostStorage, ZenonT(30)
<1> HIDE DEF d5
<1>8. Metered(d6, G) /\ d6.storage = d5.storage /\ (~d6.trapped => ~d5.trapped)
  BY <1>7, HostMetered, HostStorage, ZenonT(30)
<1> HIDE DEF d6
<1>9. Metered(d7, G) /\ Stored(d6, ek, 1, d7)
  BY <1>8, SetStep, ZenonT(30)
<1> HIDE DEF d7
<1>10. d8.storage = d7.storage /\ (~d8.trapped => ~d7.trapped)
  BY <1>9, HostStorage, ZenonT(30)
<1> HIDE DEF d8
<1>11. CASE is_set(c1, vk)
  BY <1>1, <1>2, <1>11
<1>12. CASE ~is_set(c1, vk)
  <2>1. ~d5.trapped
    BY <1>1, <1>8, <1>9, <1>10, <1>12 DEF Stored
  <2>2. PICK s1 : s1 = insert(st, vk, 1)
    OBVIOUS
  <2>3. PICK x : x = get_or_zero(s1, ck) + 1
    OBVIOUS
  <2>4. PICK s2 : s2 = insert(s1, ck, x)
    OBVIOUS
  <2>5. n = x /\ d2.storage = s1 /\ d5.storage = s2 /\ d6.storage = s2
    <3>1. d2.storage = s1
      BY <1>3, <1>4, <1>5, <1>6, <1>7, <2>1, <2>2 DEF Stored
    <3>2. n = x
      BY <2>3, <3>1, ZenonT(30) DEF get_u64, get_or_zero
    <3> HIDE DEF n
    <3> QED
      BY <1>5, <1>6, <1>7, <1>8, <2>1, <2>4, <3>1, <3>2 DEF Stored
  <2> HIDE DEF n
  <2>6. ~IsSet(st, vk)
    BY <1>2, <1>12 DEF is_set, get, IsSet
  <2>7. get_u64(d5, <<"t">>) = get_or_zero(s2, <<"t">>)
    BY <2>5 DEF get_u64, get_or_zero
  <2>8. is_set(d6, ek) => IsSet(s2, ek)
    BY <2>5 DEF is_set, get, IsSet
  <2>9. \/ r.storage = s2 /\ x < get_or_zero(s2, <<"t">>)
        \/ r.storage = s2 /\ ~(x < get_or_zero(s2, <<"t">>)) /\ IsSet(s2, ek)
        \/ r.storage = insert(s2, ek, 1) /\ ~(x < get_or_zero(s2, <<"t">>))
    <3> HIDE DEF r, ek
    <3>1. ~r.trapped
      BY DEF r
    <3> QED
      BY <1>1, <1>9, <1>10, <1>12, <2>5, <2>7, <2>8, <3>1, ZenonT(30) DEF Stored
  <2>10. PICK g : g = r.storage
    OBVIOUS
  <2>11. get_or_zero(s2, <<"t">>) \in Nat /\ x \in Int
    <3>1. get_or_zero(s2, <<"t">>) = get_or_zero(st, <<"t">>) /\ get_or_zero(s1, ck) = get_or_zero(st, ck)
      BY <2>2, <2>4, ZenonT(30) DEF insert, get_or_zero
    <3>2. get_or_zero(st, ck) \in Int
      <4>1. CASE ck \in DOMAIN st
        <5>1. ck \in Keys(st, "c") /\ get_or_zero(st, ck) = st[ck]
          BY <4>1, ZenonT(30) DEF Keys, get_or_zero
        <5>2. st[ck] = Cardinality(Votes(st, ck[2])) /\ IsFiniteSet(Votes(st, ck[2]))
          BY <5>1, FS_Subset, ZenonT(30) DEF MultisigGood, Votes, Keys
        <5>3. Cardinality(Votes(st, ck[2])) \in Nat
          BY <5>2, FS_CardinalityType, ZenonT(30)
        <5> HIDE DEF st, ck
        <5> QED
          BY <5>1, <5>2, <5>3
      <4>2. CASE ck \notin DOMAIN st
        BY <4>2 DEF get_or_zero
      <4> QED
        BY <4>1, <4>2, ZenonT(30)
    <3>3. get_or_zero(st, <<"t">>) \in Nat
      BY ZenonT(30) DEF MultisigGood
    <3> HIDE DEF st, ck
    <3> QED
      BY <2>3, <3>1, <3>2, <3>3
  <2>12. \/ g = s2 /\ x < get_or_zero(s2, <<"t">>)
         \/ g = s2 /\ x >= get_or_zero(s2, <<"t">>) /\ IsSet(s2, ek)
         \/ g = insert(s2, ek, 1) /\ x >= get_or_zero(s2, <<"t">>)
    BY <2>9, <2>10, <2>11, NotLess, ZenonT(30)
  <2>13. IsFiniteSet(DOMAIN g) /\ MultisigGood(g)
    BY <2>2, <2>3, <2>4, <2>6, <2>12, MultisigVote
  <2> QED
    BY <2>10, <2>13, ZenonT(30)
<1> QED
  BY <1>11, <1>12

(* A run of multisig that does not trap keeps its storage. *)
LEMMA MultisigKeeps ==
    ASSUME NEW G \in Nat, NEW c, Metered(c, G), NEW in, IsCallOf(<<"wasm", "multisig">>, in),
           IsFiniteSet(DOMAIN c.storage), MultisigGood(c.storage), ~multisig(c, in).trapped
    PROVE  IsFiniteSet(DOMAIN multisig(c, in).storage) /\ MultisigGood(multisig(c, in).storage)
<1> DEFINE Kept(s) == IsFiniteSet(DOMAIN s) /\ MultisigGood(s)
           c1 == read(c)
           ok == <<"o!", in.owner>>
<1>1. Metered(c1, G) /\ c1.storage = c.storage
  BY HostMetered, HostStorage
<1>2. is_set(c1, ok) => IsSet(c1.storage, <<"init">>)
  <2> SUFFICES ASSUME is_set(c1, ok), ~IsSet(c1.storage, <<"init">>) PROVE FALSE
    OBVIOUS
  <2>1. ok \in Keys(c1.storage, "o!")
    BY DEF is_set, get, Keys
  <2> QED
    BY <1>1, <2>1, ZenonT(30) DEF MultisigGood
<1> HIDE DEF c1
<1>3. CASE in.sel = 1
  <2> DEFINE n == Len(in.owners)
             d1 == set(c1, <<"t">>, in.threshold)
             d2 == set(d1, <<"n">>, n)
             f == CHOOSE g : IsLoop(g, d2, in.owners, n)
             d3 == f[n]
             d4 == set(d3, <<"init">>, 1)
             d5 == emit(d4, "init")
  <2>1. n \in Nat /\ in.threshold \in Nat
    BY <1>3 DEF IsCallOf
  <2>2. multisig(c, in) = IF \/ is_set(c1, <<"init">>) \/ n = 0
                             \/ in.threshold = 0 \/ in.threshold > n
                          THEN c1 ELSE d5
    BY <1>3 DEF multisig, multisig_init, c1, IsLoop, AddOwner
  <2> HIDE DEF n
  <2>3. Metered(d1, G) /\ (~d1.trapped => d1.storage = insert(c.storage, <<"t">>, in.threshold))
    BY <1>1, HostMetered, HostStorage
  <2> HIDE DEF d1
  <2>4. Metered(d2, G) /\ (~d2.trapped => ~d1.trapped /\ d2.storage = insert(d1.storage, <<"n">>, n))
    BY <2>3, HostMetered, HostStorage
  <2> HIDE DEF d2
  <2>5. IsLoop(f, d2, in.owners, n)
    BY <2>1, LoopExists
  <2> HIDE DEF f
  <2>6. Metered(d3, G)
    BY <2>1, <2>4, <2>5, LoopMetered, ZenonT(30)
  <2>7. Metered(d4, G) /\ Stored(d3, <<"init">>, 1, d4)
    BY <2>6, SetStep, ZenonT(30)
  <2> HIDE DEF d4
  <2>8. d5.storage = d4.storage /\ (~d5.trapped => ~d4.trapped)
    BY <2>7, HostStorage, ZenonT(30)
  <2> HIDE DEF d5
  <2>9. CASE is_set(c1, <<"init">>) \/ n = 0 \/ in.threshold = 0 \/ in.threshold > n
    BY <1>1, <2>2, <2>9
  <2>10. CASE ~(is_set(c1, <<"init">>) \/ n = 0 \/ in.threshold = 0 \/ in.threshold > n)
    <3>1. ~d5.trapped /\ multisig(c, in) = d5
      BY <2>2, <2>10
    <3>2. ~d3.trapped /\ d5.storage = insert(d3.storage, <<"init">>, 1)
      BY <2>7, <2>8, <3>1, ZenonT(30) DEF Stored
    <3>3. PICK loop : loop = d3.storage
      OBVIOUS
    <3>4. ~d2.trapped => IsFiniteSet(DOMAIN d2.storage)
      BY <2>3, <2>4, InsertFinite
    <3>5. /\ ~d2.trapped /\ IsFiniteSet(DOMAIN loop)
          /\ Agree({"t", "c", "v", "e"}, d2.storage, loop)
      BY <2>1, <2>4, <2>5, <3>2, <3>3, <3>4, LoopAgrees, ZenonT(30)
    <3>6. Agree({"c", "v", "e"}, d2.storage, loop)
      BY <3>5 DEF Agree
    <3> DEFINE b == insert(loop, <<"init">>, 1)
    <3>7. b = d5.storage /\ IsFiniteSet(DOMAIN b)
      BY <3>2, <3>3, <3>5, InsertFinite
    <3>8. IsSet(b, <<"init">>)
      <4>1. 1 # Empty
        BY ContractAssumption
      <4> QED
        BY <4>1 DEF IsSet, insert
    <3>9. get_or_zero(b, <<"t">>) = in.threshold
      <4>1. <<"t">> \in DOMAIN d2.storage /\ d2.storage[<<"t">>] = in.threshold
        BY <2>3, <2>4, <3>5, ZenonT(30) DEF insert
      <4>2. <<"t">> \in DOMAIN loop /\ loop[<<"t">>] = in.threshold
        BY <3>5, <4>1 DEF Agree, Keys
      <4> QED
        BY <4>2 DEF get_or_zero, insert
    <3>10. Agree({"c", "v", "e"}, c.storage, b)
      <4> DEFINE Q == {"c", "v", "e"}
      <4>1. Agree(Q, c.storage, d2.storage)
        <5>1. Agree(Q, c.storage, c.storage)
          BY DEF Agree
        <5>2. <<"t">>[1] \notin Q /\ <<"n">>[1] \notin Q
          OBVIOUS
        <5> HIDE DEF Q
        <5>3. Agree(Q, c.storage, d1.storage)
          BY <2>3, <2>4, <3>5, <5>1, <5>2, InsertAgrees, ZenonT(30)
        <5> QED
          BY <2>4, <3>5, <5>2, <5>3, InsertAgrees, ZenonT(30)
      <4>2. Agree(Q, c.storage, loop)
        BY <3>6, <4>1, ZenonT(30) DEF Agree
      <4>3. <<"init">>[1] \notin Q
        OBVIOUS
      <4> HIDE DEF Q
      <4>4. Agree(Q, c.storage, b)
        BY <4>2, <4>3, InsertAgrees
      <4> QED
        BY <4>4 DEF Q
    <3>11. ~IsSet(c.storage, <<"init">>)
      BY <1>1, <2>10, ZenonT(30) DEF is_set, get, IsSet
    <3> HIDE DEF b
    <3>12. MultisigGood(b)
      BY <2>1, <3>8, <3>9, <3>10, <3>11, MultisigFresh
    <3> QED
      BY <3>1, <3>7, <3>12, ZenonT(30)
  <2> QED
    BY <2>9, <2>10, ZenonT(30)
<1>4. CASE in.sel = 2
  <2> DEFINE pk == <<"p", in.aid>>
             p == read(c1)
             q == set(p, pk, in.payload)
             r == record_vote(q, in.aid, in.owner)
             d == emit(r, "propose")
  <2>1. multisig(c, in) = IF ~is_set(c1, ok) THEN c1 ELSE IF is_set(p, pk) THEN p ELSE d
    BY <1>4 DEF multisig, multisig_propose, c1
  <2>2. Metered(p, G) /\ p.storage = c.storage
    BY <1>1, HostMetered, HostStorage
  <2> HIDE DEF p
  <2>3. Metered(q, G) /\ (~q.trapped => q.storage = insert(c.storage, pk, in.payload))
    <3>1. Metered(q, G) /\ Stored(p, pk, in.payload, q)
      BY <2>2, SetStep, ZenonT(30)
    <3> HIDE DEF q
    <3> QED
      BY <2>2, <3>1, ZenonT(30) DEF Stored
  <2>4. CASE ~is_set(c1, ok) \/ is_set(p, pk)
    BY <1>1, <2>1, <2>2, <2>4
  <2>5. CASE ~(~is_set(c1, ok) \/ is_set(p, pk))
    <3>1. pk[1] \notin {"init", "t", "c", "v", "e", "o!"} /\ pk # <<"init">>
      OBVIOUS
    <3> HIDE DEF q, pk
    <3>2. Metered(r, G)
      BY <2>3, RecordVoteMetered
    <3> HIDE DEF r
    <3>3. d.storage = r.storage /\ (~d.trapped => ~r.trapped) /\ multisig(c, in) = d
      BY <2>1, <2>5, <3>2, HostStorage, ZenonT(30)
    <3>4. ~r.trapped /\ ~q.trapped
      BY <2>3, <3>3, RecordVoteMetered, ZenonT(30) DEF r
    <3>5. Kept(q.storage)
      <4>1. Agree({"init", "t", "c", "v", "e", "o!"}, c.storage, c.storage)
        BY DEF Agree
      <4>2. Agree({"init", "t", "c", "v", "e", "o!"}, c.storage, q.storage)
        BY <2>3, <3>1, <3>4, <4>1, InsertAgrees
      <4> QED
        BY <2>3, <3>4, <4>2, MultisigAgrees, InsertFinite
    <3>6. IsSet(q.storage, <<"init">>)
      BY <1>1, <1>2, <2>3, <2>5, <3>1, <3>4, ZenonT(30) DEF IsSet, insert
    <3>7. Kept(r.storage)
      BY <2>3, <3>4, <3>5, <3>6, RecordVoteKeeps, ZenonT(30) DEF r
    <3> QED
      BY <3>3, <3>7, ZenonT(30)
  <2> QED
    BY <2>4, <2>5, ZenonT(30)
<1>5. CASE in.sel = 3
  <2>1. multisig(c, in) = IF is_set(c1, ok) THEN record_vote(c1, in.aid, in.owner) ELSE c1
    BY <1>5 DEF multisig, multisig_approve, c1
  <2>2. CASE is_set(c1, ok)
    BY <1>1, <1>2, <2>1, <2>2, RecordVoteKeeps
  <2>3. CASE ~is_set(c1, ok)
    BY <1>1, <2>1, <2>3
  <2> QED
    BY <2>2, <2>3
<1>6. CASE in.sel \notin {1, 2, 3}
  BY <1>6 DEF multisig
<1> QED
  BY <1>3, <1>4, <1>5, <1>6, ZenonT(30)

-----------------------------------------------------------------------------
(* A run that does not trap keeps the storage of its contract: counter,    *)
(* erc20, multisig, vesting and nft, on every path.                        *)
LEMMA RunKeeps ==
    ASSUME NEW G \in Nat, NEW c, Metered(c, G), NEW code, NEW in, IsCallOf(code, in),
           GoodStorage(code, c.storage), ~run(code, c, in).trapped
    PROVE  GoodStorage(code, run(code, c, in).storage)
<1> DEFINE d == run(code, c, in)
<1>1. IsFiniteSet(DOMAIN c.storage)
  BY DEF GoodStorage
<1>2. CASE code = <<"wasm", "counter">>
  <2> DEFINE c1 == read(c)
             n == get_u64(c1, <<"count">>) + 1
             c2 == set(c1, <<"count">>, n)
             c3 == emit(c2, "tick")
  <2>1. d = c3
    BY <1>2 DEF run, counter, increment
  <2>2. Metered(c1, G) /\ c1.storage = c.storage
    BY HostMetered, HostStorage
  <2> HIDE DEF c1, n
  <2>3. Metered(c2, G) /\ (~c2.trapped => c2.storage = insert(c.storage, <<"count">>, n))
    BY <2>2, HostMetered, HostStorage
  <2> HIDE DEF c2
  <2>4. c3.storage = c2.storage /\ (~c3.trapped => ~c2.trapped)
    BY <2>3, HostStorage, ZenonT(30)
  <2>5. IsFiniteSet(DOMAIN d.storage)
    BY <1>1, <2>1, <2>3, <2>4, InsertFinite, ZenonT(30)
  <2> HIDE DEF d
  <2> QED
    BY <1>2, <2>5, ZenonT(30) DEF GoodStorage, d
<1>3. CASE code = <<"wasm", "erc20">>
  <2>1. d = erc20(c, in) /\ Erc20Good(c.storage)
    BY <1>3 DEF run, GoodStorage
  <2>2. IsFiniteSet(DOMAIN d.storage) /\ Erc20Good(d.storage)
    BY <1>1, <1>3, <2>1, Erc20Keeps, ZenonT(30)
  <2> HIDE DEF d
  <2> QED
    BY <1>3, <2>2, ZenonT(30) DEF GoodStorage, d
<1>4. CASE code = <<"wasm", "multisig">>
  <2>1. d = multisig(c, in) /\ MultisigGood(c.storage)
    BY <1>4 DEF run, GoodStorage
  <2>2. IsFiniteSet(DOMAIN d.storage) /\ MultisigGood(d.storage)
    BY <1>1, <1>4, <2>1, MultisigKeeps, ZenonT(30)
  <2> HIDE DEF d
  <2> QED
    BY <1>4, <2>2, ZenonT(30) DEF GoodStorage, d
<1>5. CASE code = <<"wasm", "vesting">>
  <2>1. d = vesting(c, in) /\ VestingGood(c.storage)
    BY <1>5 DEF run, GoodStorage
  <2>2. IsFiniteSet(DOMAIN d.storage) /\ VestingGood(d.storage)
    BY <1>1, <1>5, <2>1, VestingKeeps, ZenonT(30)
  <2> HIDE DEF d
  <2> QED
    BY <1>5, <2>2, ZenonT(30) DEF GoodStorage, d
<1>6. CASE code = <<"wasm", "nft">>
  <2>1. d = nft(c, in) /\ NftGood(c.storage)
    BY <1>6 DEF run, GoodStorage
  <2>2. IsFiniteSet(DOMAIN d.storage) /\ NftGood(d.storage)
    BY <1>1, <1>6, <2>1, NftKeeps, ZenonT(30)
  <2> HIDE DEF d
  <2> QED
    BY <1>6, <2>2, ZenonT(30) DEF GoodStorage, d
<1>7. CASE code \notin {<<"wasm", "counter">>, <<"wasm", "erc20">>, <<"wasm", "multisig">>,
                        <<"wasm", "vesting">>, <<"wasm", "nft">>}
  <2>1. d = [c EXCEPT !.trapped = TRUE]
    BY <1>7 DEF run
  <2>2. d.trapped
    BY <2>1 DEF Metered
  <2> QED
    BY <2>2
<1> QED
  BY <1>2, <1>3, <1>4, <1>5, <1>6, <1>7, ZenonT(30)

(* What agrees with a good storage on the keys of the example contracts is *)
(* good: what the EVM writes into the slots of a contract has no part in   *)
(* what its program keeps.                                                 *)
LEMMA StorageAgrees ==
    ASSUME NEW code, NEW a, NEW b, GoodStorage(code, a), IsFiniteSet(DOMAIN b),
           Agree(KeyPrefixes, a, b)
    PROVE  GoodStorage(code, b)
<1>1. \A p \in KeyPrefixes : Keys(b, p) = Keys(a, p) /\ \A x \in Keys(a, p) : b[x] = a[x]
  BY DEF Agree
<1>2. ASSUME NEW k, k[1] \in KeyPrefixes
      PROVE  /\ (k \in DOMAIN b <=> k \in DOMAIN a) /\ (k \in DOMAIN a => b[k] = a[k])
             /\ get_or_zero(b, k) = get_or_zero(a, k)
  <2>1. Keys(b, k[1]) = Keys(a, k[1]) /\ \A x \in Keys(a, k[1]) : b[x] = a[x]
    BY <1>1, <1>2, ZenonT(30)
  <2>2. (k \in DOMAIN b <=> k \in DOMAIN a) /\ (k \in DOMAIN a => b[k] = a[k])
    BY <2>1 DEF Keys
  <2> QED
    BY <2>2 DEF get_or_zero
<1>3. ASSUME Erc20Good(a) PROVE Erc20Good(b)
  <2>1. Keys(b, "b") = Keys(a, "b") /\ \A x \in Keys(a, "b") : b[x] = a[x]
    BY <1>1 DEF KeyPrefixes
  <2>2. get_or_zero(b, <<"supply">>) = get_or_zero(a, <<"supply">>)
    BY <1>2 DEF KeyPrefixes
  <2>3. IsSet(b, <<"init">>) <=> IsSet(a, <<"init">>)
    BY <1>2 DEF KeyPrefixes, IsSet
  <2>4. \A x \in Keys(a, "b") : a[x] \in Nat
    BY <1>3 DEF Erc20Good
  <2>5. SumOf(b, "b") = SumOf(a, "b")
    <3>1. IsFiniteSet(Keys(a, "b"))
      BY FS_Subset, ZenonT(30) DEF Keys, GoodStorage
    <3>2. SumFunctionOnSet(b, Keys(a, "b")) = SumFunctionOnSet(a, Keys(a, "b"))
      BY <2>1, <2>4, <3>1, SumSame
    <3> QED
      BY <2>1, <3>2 DEF SumOf
  <2> QED
    BY <1>3, <2>1, <2>2, <2>3, <2>4, <2>5 DEF Erc20Good
<1>4. ASSUME MultisigGood(a) PROVE MultisigGood(b)
  <2>1. Agree({"init", "t", "c", "v", "e", "o!"}, a, b)
    BY <1>1 DEF Agree, KeyPrefixes
  <2> QED
    BY <1>4, <2>1, MultisigAgrees
<1>5. ASSUME VestingGood(a) PROVE VestingGood(b)
  <2>1. /\ get_or_zero(b, <<"released">>) = get_or_zero(a, <<"released">>)
        /\ get_or_zero(b, <<"total">>) = get_or_zero(a, <<"total">>)
        /\ get_or_zero(b, <<"start">>) = get_or_zero(a, <<"start">>)
        /\ get_or_zero(b, <<"dur">>) = get_or_zero(a, <<"dur">>)
    <3>1. \A p \in {"released", "total", "start", "dur"} : p \in KeyPrefixes /\ <<p>>[1] = p
      BY ZenonT(30) DEF KeyPrefixes
    <3> QED
      BY <1>2, <3>1, ZenonT(30)
  <2> QED
    BY <1>5, <2>1 DEF VestingGood
<1>6. ASSUME NftGood(a) PROVE NftGood(b)
  <2>1. Keys(b, "m") = Keys(a, "m") /\ \A x \in Keys(a, "m") : b[x] = a[x]
    BY <1>1 DEF KeyPrefixes
  <2>2. \A x : IsSet(a, <<"o", x>>) => IsSet(b, <<"o", x>>)
    BY <1>2 DEF KeyPrefixes, IsSet
  <2>3. ASSUME NEW k \in Keys(b, "m")
        PROVE  k = <<"m", k[2]>> /\ (b[k] # Empty => IsSet(b, <<"o", k[2]>>))
    <3>1. k \in Keys(a, "m") /\ b[k] = a[k]
      BY <2>1, <2>3
    <3>2. k = <<"m", k[2]>> /\ (a[k] # Empty => IsSet(a, <<"o", k[2]>>))
      BY <1>6, <3>1, ZenonT(30) DEF NftGood
    <3> QED
      BY <2>2, <3>1, <3>2, ZenonT(30)
  <2> QED
    BY <2>3, ZenonT(30) DEF NftGood, IsSet
<1> QED
  BY <1>3, <1>4, <1>5, <1>6 DEF GoodStorage

(* A contract that was just deployed has kept nothing yet. *)
LEMMA EmptyStorage ==
    ASSUME NEW code PROVE GoodStorage(code, EmptyMap)
<1>1. DOMAIN EmptyMap = {}
  BY DEF EmptyMap
<1>2. IsFiniteSet(DOMAIN EmptyMap)
  BY <1>1, FS_EmptySet
<1>3. \A p : Keys(EmptyMap, p) = {}
  BY <1>1 DEF Keys
<1>4. \A k : get_or_zero(EmptyMap, k) = 0
  BY <1>1 DEF get_or_zero
<1>5. SumOf(EmptyMap, "b") = 0
  <2>1. SumFunctionOnSet(EmptyMap, {}) = 0
    BY SumEmpty
  <2> QED
    BY <1>3, <2>1 DEF SumOf
<1>6. Erc20Good(EmptyMap)
  BY <1>3, <1>4, <1>5 DEF Erc20Good
<1>7. MultisigGood(EmptyMap)
  BY <1>3, <1>4 DEF MultisigGood
<1>8. VestingGood(EmptyMap)
  BY <1>4 DEF VestingGood
<1>9. NftGood(EmptyMap)
  BY <1>3 DEF NftGood
<1> QED
  BY <1>2, <1>6, <1>7, <1>8, <1>9 DEF GoodStorage
=============================================================================
