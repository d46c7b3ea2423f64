----------------------------- MODULE LedgerProofs -----------------------------
(***************************************************************************)
(* Sums over the ledger, for every value of the constants: the limits of   *)
(* mint configs, and the balances.                                         *)
(*                                                                         *)
(* The sums are folds over finite sets (FiniteSums).                       *)
(***************************************************************************)
EXTENDS CommitProofs, FiniteSums

----------------------------------------------------------------------------
(* SUM(amount).                                                            *)

AmountsAreNat(rows) == \A r \in rows : r.amount \in Nat

\* What SumOfAmounts adds, over a set of rows that holds the others.
LEMMA AmountsOnSet ==
  ASSUME NEW S, IsFiniteSet(S), NEW R \in SUBSET S
  PROVE  SumOfAmounts(R) = SumFunctionOnSet([r \in S |-> r.amount], R)
<1>1. PICK f, g : f = [r \in R |-> r.amount] /\ g = [r \in S |-> r.amount]
  OBVIOUS
<1>2. DOMAIN f = R /\ IsFiniteSet(R) /\ \A r \in R : f[r] = g[r]
  BY <1>1, FS_Subset
<1>3. SumFunctionOnSet(f, R) = SumFunctionOnSet(g, R)
  BY <1>2, SumAgrees
<1>4. SumOfAmounts(R) = SumFunctionOnSet(f, R)
  BY <1>1, <1>2 DEF SumOfAmounts, SumFunction
<1> QED
  BY <1>1, <1>3, <1>4

\* The sum of no amount, of one more row, and of fewer rows.
LEMMA AmountSums ==
  ASSUME NEW S, IsFiniteSet(S), AmountsAreNat(S)
  PROVE  /\ SumOfAmounts({}) = 0
         /\ SumOfAmounts(S) \in Nat
         /\ \A R \in SUBSET S : SumOfAmounts(R) \in Nat /\ SumOfAmounts(R) <= SumOfAmounts(S)
         /\ \A x : x \notin S /\ x.amount \in Nat =>
              SumOfAmounts(S \cup {x}) = SumOfAmounts(S) + x.amount
<1>1. SumOfAmounts({}) = 0
  <2>1. IsFiniteSet({}) /\ {} \in SUBSET {}
    BY FS_EmptySet
  <2>2. SumOfAmounts({}) = SumFunctionOnSet([r \in {} |-> r.amount], {})
    BY <2>1, AmountsOnSet
  <2> QED
    BY <2>2, SumEmpty
<1>2. PICK f : f = [r \in S |-> r.amount]
  OBVIOUS
<1>3. \A r \in S : f[r] \in Int /\ f[r] >= 0
  BY <1>2 DEF AmountsAreNat
<1>4. \A R \in SUBSET S : SumOfAmounts(R) = SumFunctionOnSet(f, R)
  BY <1>2, AmountsOnSet
<1>5. ASSUME NEW R \in SUBSET S
      PROVE  SumOfAmounts(R) \in Nat /\ SumOfAmounts(R) <= SumOfAmounts(S)
  <2>1. /\ IsFiniteSet(R) /\ R \in SUBSET R /\ {} \in SUBSET R /\ S \in SUBSET S
    BY FS_Subset
  <2>2. SumFunctionOnSet(f, R) \in Int
    BY <1>3, <2>1, SumInt
  <2>3. SumFunctionOnSet(f, {}) = 0 /\ SumFunctionOnSet(f, {}) <= SumFunctionOnSet(f, R)
    BY <1>3, <2>1, SumEmpty, SumMoves
  <2>4. SumFunctionOnSet(f, R) <= SumFunctionOnSet(f, S)
    BY <1>3, SumMoves
  <2> QED
    BY <1>4, <2>1, <2>2, <2>3, <2>4
<1>6. ASSUME NEW x, x \notin S, x.amount \in Nat
      PROVE  SumOfAmounts(S \cup {x}) = SumOfAmounts(S) + x.amount
  <2>1. PICK U : U = S \cup {x}
    OBVIOUS
  <2>2. IsFiniteSet(U) /\ S \in SUBSET U /\ U \in SUBSET U
    BY <2>1, FS_AddElement
  <2>3. PICK g : g = [r \in U |-> r.amount]
    OBVIOUS
  <2>4. SumOfAmounts(U) = SumFunctionOnSet(g, U) /\ SumOfAmounts(S) = SumFunctionOnSet(g, S)
    BY <2>2, <2>3, AmountsOnSet
  <2>5. g[x] = x.amount /\ \A y \in S \cup {x} : g[y] \in Int
    BY <1>6, <2>1, <2>3 DEF AmountsAreNat
  <2>6. SumFunctionOnSet(g, S \cup {x}) = SumFunctionOnSet(g, S) + g[x]
    BY <1>6, <2>5, SumAdd
  <2> QED
    BY <2>1, <2>4, <2>5, <2>6
<1>7. S \in SUBSET S
  OBVIOUS
<1> QED
  BY <1>1, <1>5, <1>6, <1>7

----------------------------------------------------------------------------
(* Limits.                                                                 *)

\* lookup_mint_config attributes a mint to a config of an older block whose
\* signers signed it, and whose limit, and shared limit, it does not exceed
\* together with the mints of earlier blocks.
LookupResult(d, n, tx, id, x, i) ==
  /\ x \in d.mint_config_txs /\ i \in DOMAIN x.configs
  /\ id = mint_config_id(x, i) /\ x.block_index < n
  /\ x.configs[i].signer_set \in tx.signed_by
  /\ FitsLimit(get_total_minted_before_block(d, IdsOf(x), n), tx.amount, x.total_mint_limit)
  /\ FitsLimit(get_total_minted_before_block(d, {id}, n), tx.amount, x.configs[i].mint_limit)

\* So says the definition.
LEMMA LookupFits ==
  ASSUME NEW d, NEW n, NEW tx, NEW id \in lookup_mint_config(d, n, tx)
  PROVE  \E x, i : LookupResult(d, n, tx, id, x, i)
<1> DEFINE recent == most_recent_for_token(d, n, tx.token_id)
<1> DEFINE fits(c, i) ==
      /\ c.configs[i].signer_set \in tx.signed_by
      /\ FitsLimit(get_total_minted_before_block(d, {mint_config_id(c, i)}, n),
                   tx.amount, c.configs[i].mint_limit)
<1> DEFINE shared(c) ==
      FitsLimit(get_total_minted_before_block(d, {mint_config_id(c, i) : i \in DOMAIN c.configs}, n),
                tx.amount, c.total_mint_limit)
<1> DEFINE chosen(c) ==
      IF shared(c) THEN {mint_config_id(c, i) : i \in FirstOf({j \in DOMAIN c.configs : fits(c, j)})}
                   ELSE {}
<1>1. lookup_mint_config(d, n, tx) = UNION {chosen(c) : c \in recent}
  BY DEF lookup_mint_config
<1> HIDE DEF chosen, recent
<1>2. PICK x \in recent : id \in chosen(x)
  BY <1>1
<1>3. shared(x) /\ \E i \in {j \in DOMAIN x.configs : fits(x, j)} : id = mint_config_id(x, i)
  <2> HIDE DEF shared, fits
  <2> QED
    BY <1>2 DEF chosen, FirstOf
<1>4. PICK i \in DOMAIN x.configs : fits(x, i) /\ id = mint_config_id(x, i)
  <2> HIDE DEF fits
  <2> QED
    BY <1>3
<1>5. x \in d.mint_config_txs /\ x.block_index < n
  BY <1>2 DEF recent, most_recent_for_token
<1>6. FitsLimit(get_total_minted_before_block(d, IdsOf(x), n), tx.amount, x.total_mint_limit)
  BY <1>3 DEF IdsOf
<1> QED
  BY <1>4, <1>5, <1>6 DEF LookupResult

\* A row of mint_txs that is not there yet.
NewMint(d, m) == m \in MintTxRows /\ m \notin d.mint_txs

\* get_total_minted_before_block adds up the mints of ids, as long as they are
\* all of earlier blocks and their sum is a u64.
LEMMA TotalMinted ==
  ASSUME NEW d \in Databases, LimitRows(d), NEW ids, NEW n \in Nat,
         \A o \in MintedWith(d, ids) : o.block_index < n,
         SumOfAmounts(MintedWith(d, ids)) \in Nat,
         SumOfAmounts(MintedWith(d, ids)) <= MaxU64
  PROVE  get_total_minted_before_block(d, ids, n) = SumOfAmounts(MintedWith(d, ids))
<1>1. PICK S, T : /\ S = MintedWith(d, ids)
                  /\ T = {m \in d.mint_txs :
                            /\ \E id \in m.mint_config_id : id \in ids /\ id.block_index < m.block_index
                            /\ m.block_index < n}
  OBVIOUS
<1>2. \A m \in d.mint_txs : \A x, y \in m.mint_config_id : x = y
  BY DEF Databases, MintTxRows, Option
<1>3. T = S
  <2>1. ASSUME NEW m \in T PROVE m \in S
    BY <1>1, <1>2, <2>1 DEF MintedWith
  <2>2. ASSUME NEW m \in S PROVE m \in T
    <3>1. m \in d.mint_txs /\ m.mint_config_id # {} /\ m.mint_config_id \subseteq ids
      BY <1>1, <2>2 DEF MintedWith
    <3>2. m.block_index < n /\ \A id \in m.mint_config_id : id.block_index < m.block_index
      BY <1>1, <2>2, <3>1 DEF LimitRows
    <3> QED
      BY <1>1, <3>1, <3>2
  <2> QED
    BY <2>1, <2>2
<1>4. get_total_minted_before_block(d, ids, n) = WrapU64(SumOfAmounts(T))
  BY <1>1 DEF get_total_minted_before_block
<1>5. PICK k \in Nat : k = SumOfAmounts(S) /\ k <= MaxU64
  BY <1>1
<1>6. WrapU64(k) = k
  BY <1>5, DbAssumption DEF WrapU64
<1> QED
  BY <1>1, <1>3, <1>4, <1>5, <1>6

\* One more mint, if it is attributed to ids, fits into the limit of ids.
LEMMA LimitKept ==
  ASSUME NEW d \in Databases, NEW d2, LimitRows(d), NEW m, NewMint(d, m),
         d2.mint_txs = d.mint_txs \cup {m},
         m.block_index = d.counters["num_blocks_synced"],
         NEW ids, NEW limit \in U64, WithinLimit(d, ids, limit),
         (m.mint_config_id # {} /\ m.mint_config_id \subseteq ids) =>
           FitsLimit(get_total_minted_before_block(d, ids, m.block_index), m.amount, limit)
  PROVE  WithinLimit(d2, ids, limit)
<1>1. PICK S, S2 : S = MintedWith(d, ids) /\ S2 = MintedWith(d2, ids)
  OBVIOUS
<1>2. SUFFICES ASSUME AtMostOnePerBlock(S2) PROVE SumOfAmounts(S2) <= limit
  BY <1>1 DEF WithinLimit
<1>3. PICK n \in Nat : n = m.block_index
  BY DEF NewMint, MintTxRows
<1>4. S \subseteq S2 /\ AtMostOnePerBlock(S)
  BY <1>1, <1>2 DEF MintedWith, AtMostOnePerBlock
<1>5. SumOfAmounts(S) <= limit
  BY <1>1, <1>4 DEF WithinLimit
<1>6. CASE m.mint_config_id # {} /\ m.mint_config_id \subseteq ids
  <2>1. S2 = S \cup {m} /\ m \notin S
    BY <1>1, <1>6 DEF MintedWith, NewMint
  <2>2. \A o \in S : o.block_index < n
    <3> SUFFICES ASSUME NEW o \in S PROVE o.block_index < n
      OBVIOUS
    <3>1. o \in d.mint_txs /\ o # m
      BY <1>1, <2>1 DEF MintedWith
    <3>2. o.block_index <= n /\ o.block_index \in Nat
      BY <1>3, <3>1 DEF LimitRows, Databases, MintTxRows
    <3>3. o.block_index # n
      BY <1>2, <1>3, <2>1, <3>1 DEF AtMostOnePerBlock
    <3> QED
      BY <3>2, <3>3
  <2>3. IsFiniteSet(S) /\ AmountsAreNat(S)
    <3>1. S \subseteq d.mint_txs /\ d.mint_txs \subseteq MintTxRows
      BY <1>1 DEF MintedWith, Databases
    <3> QED
      BY <3>1, FS_Subset, DbAssumption DEF LimitRows, AmountsAreNat, MintTxRows, U64
  <2>4. m.amount \in Nat
    BY DbAssumption DEF NewMint, MintTxRows, U64
  <2>5. SumOfAmounts(S) \in Nat /\ SumOfAmounts(S \cup {m}) = SumOfAmounts(S) + m.amount
    BY <2>1, <2>3, <2>4, AmountSums
  <2>6. SumOfAmounts(S) <= MaxU64
    BY <1>5, <2>5, DbAssumption DEF U64
  <2>7. get_total_minted_before_block(d, ids, n) = SumOfAmounts(S)
    BY <1>1, <2>2, <2>5, <2>6, TotalMinted
  <2>8. SumOfAmounts(S) + m.amount <= limit
    BY <1>3, <1>6, <2>7 DEF FitsLimit
  <2> QED
    BY <2>1, <2>5, <2>8
<1>7. CASE ~(m.mint_config_id # {} /\ m.mint_config_id \subseteq ids)
  <2>1. S2 = S
    BY <1>1, <1>7 DEF MintedWith
  <2> QED
    BY <1>5, <2>1
<1> QED
  BY <1>6, <1>7

\* A mint is stored within the limits, or it is counted.
LEMMA MintKeepsLimits ==
  ASSUME NEW d \in Databases, NEW d2 \in Databases, LimitRows(d), DbInv(d),
         NEW n \in Nat, n = d.counters["num_blocks_synced"],
         NEW tx \in CoreMintTxs, StoresMint(d, d2, n, tx)
  PROVE  LimitRows(d2)
<1> DEFINE none == "num_mint_txs_without_matching_mint_config"
<1>1. PICK m \in MintTxRows :
        /\ m.block_index = n /\ m.amount = tx.amount /\ m.nonce = tx.nonce
        /\ m.mint_config_id = lookup_mint_config(d, n, tx)
        /\ d2.mint_txs = d.mint_txs \cup {m}
        /\ IF m.mint_config_id = {} THEN CountsOne(d, d2, none)
                                    ELSE d2.counters = d.counters
  BY DEF StoresMint
<1>2. d2.mint_config_txs = d.mint_config_txs
  BY DEF StoresMint, Keeps, AllBut, Fields
<1>3. NewMint(d, m)
  BY <1>1 DEF StoresMint, MintTxExists, NewMint
<1>4. d2.counters["num_blocks_synced"] = n /\ d.counters[none] \in Nat /\ none \in CounterNames
  BY <1>1 DEF CountsOne, CounterNames, Databases
<1>5. IsFiniteSet(d2.mint_txs)
  BY <1>1, FS_AddElement DEF LimitRows
<1>6. \A id \in m.mint_config_id : \E x, i : LookupResult(d, n, tx, id, x, i)
  BY <1>1, LookupFits
<1>7. ASSUME NEW o \in d2.mint_txs
      PROVE  /\ o.block_index <= d2.counters["num_blocks_synced"]
             /\ \A id \in o.mint_config_id : id.block_index < o.block_index
  <2>1. CASE o \in d.mint_txs
    BY <1>4, <2>1 DEF LimitRows
  <2>2. CASE o = m
    <3>1. ASSUME NEW id \in m.mint_config_id PROVE id.block_index < n
      <4>1. PICK x, i : LookupResult(d, n, tx, id, x, i)
        BY <1>6
      <4> QED
        BY <4>1 DEF LookupResult, mint_config_id
    <3>2. n <= n
      OBVIOUS
    <3> QED
      BY <1>1, <1>4, <2>2, <3>1, <3>2
  <2> QED
    BY <1>1, <2>1, <2>2
<1>8. ASSUME NEW c \in d.mint_config_txs
      PROVE  /\ WithinLimit(d2, IdsOf(c), c.total_mint_limit)
             /\ \A i \in DOMAIN c.configs :
                  WithinLimit(d2, {mint_config_id(c, i)}, c.configs[i].mint_limit)
  <2>1. c.total_mint_limit \in U64 /\ c.configs \in Seq(MintConfigs)
    BY DEF Databases, MintConfigTxRows
  <2>2. ASSUME NEW i \in DOMAIN c.configs, mint_config_id(c, i) \in m.mint_config_id
        PROVE  LookupResult(d, n, tx, mint_config_id(c, i), c, i)
    <3>1. PICK x, j : LookupResult(d, n, tx, mint_config_id(c, i), x, j)
      BY <1>6, <2>2
    <3>2. x.block_index = c.block_index /\ x.token_id = c.token_id /\ j = i
      BY <3>1 DEF LookupResult, mint_config_id
    <3>3. x = c
      BY <3>1, <3>2 DEF LookupResult, DbInv
    <3> QED
      BY <3>1, <3>2, <3>3
  <2>3. WithinLimit(d2, IdsOf(c), c.total_mint_limit)
    <3>1. (m.mint_config_id # {} /\ m.mint_config_id \subseteq IdsOf(c)) =>
            FitsLimit(get_total_minted_before_block(d, IdsOf(c), n), m.amount, c.total_mint_limit)
      BY <1>1, <2>2 DEF IdsOf, LookupResult
    <3>2. WithinLimit(d, IdsOf(c), c.total_mint_limit)
      BY DEF LimitRows, LimitsHold
    <3> QED
      BY <1>1, <1>3, <2>1, <3>1, <3>2, LimitKept
  <2>4. ASSUME NEW i \in DOMAIN c.configs
        PROVE  WithinLimit(d2, {mint_config_id(c, i)}, c.configs[i].mint_limit)
    <3>1. PICK id : id = mint_config_id(c, i)
      OBVIOUS
    <3>2. (m.mint_config_id # {} /\ m.mint_config_id \subseteq {id}) =>
            FitsLimit(get_total_minted_before_block(d, {id}, n), m.amount, c.configs[i].mint_limit)
      BY <1>1, <2>2, <3>1 DEF LookupResult
    <3>3. WithinLimit(d, {id}, c.configs[i].mint_limit)
      BY <3>1 DEF LimitRows, LimitsHold
    <3>4. c.configs[i].mint_limit \in U64
      <4>1. PICK q \in Seq(MintConfigs) : q = c.configs
        BY <2>1
      <4>2. q[i] \in MintConfigs
        BY <4>1
      <4> QED
        BY <4>1, <4>2 DEF MintConfigs
    <3>5. WithinLimit(d2, {id}, c.configs[i].mint_limit)
      BY <1>1, <1>3, <3>2, <3>3, <3>4, LimitKept
    <3> QED
      BY <3>1, <3>5
  <2> QED
    BY <2>3, <2>4
<1>9. d2.counters[none] = Cardinality({o \in d2.mint_txs : o.mint_config_id = {}})
  <2>1. PICK N, N2 : /\ N = {o \in d.mint_txs : o.mint_config_id = {}}
                     /\ N2 = {o \in d2.mint_txs : o.mint_config_id = {}}
    OBVIOUS
  <2>2. IsFiniteSet(N) /\ Cardinality(N) = d.counters[none] /\ m \notin N
    BY <1>3, <2>1, FS_Subset DEF LimitRows, LimitsHold, NewMint
  <2>3. N2 = IF m.mint_config_id = {} THEN N \cup {m} ELSE N
    BY <1>1, <2>1
  <2>4. Cardinality(N \cup {m}) = Cardinality(N) + 1
    BY <2>2, FS_AddElement
  <2>5. CASE m.mint_config_id = {}
    BY <1>1, <1>4, <2>1, <2>2, <2>3, <2>4, <2>5 DEF CountsOne
  <2>6. CASE m.mint_config_id # {}
    BY <1>1, <2>1, <2>2, <2>3, <2>6
  <2> QED
    BY <2>5, <2>6
<1>10. LimitsHold(d2)
  BY <1>2, <1>8, <1>9 DEF LimitsHold
<1> QED
  BY <1>5, <1>7, <1>10 DEF LimitRows

\* A new config has no mints yet: they would be older than it.
LEMMA ConfigKeepsLimits ==
  ASSUME NEW d \in Databases, NEW d2 \in Databases, LimitRows(d),
         NEW n \in Nat, n = d.counters["num_blocks_synced"],
         NEW tx, StoresConfig(d, d2, n, tx)
  PROVE  LimitRows(d2)
<1>1. d2.mint_txs = d.mint_txs /\ d2.counters = d.counters
  BY DEF StoresConfig, Keeps, AllBut, Fields
<1>2. PICK c \in MintConfigTxRows :
        c.block_index = n /\ d2.mint_config_txs = d.mint_config_txs \cup {c}
  BY DEF StoresConfig
<1>3. \A ids : MintedWith(d2, ids) = MintedWith(d, ids)
  BY <1>1 DEF MintedWith
<1>4. \A ids, limit : WithinLimit(d, ids, limit) => WithinLimit(d2, ids, limit)
  BY <1>3 DEF WithinLimit
<1>5. ASSUME NEW ids, \A id \in ids : id.block_index = n, NEW limit \in U64
      PROVE  WithinLimit(d2, ids, limit)
  <2>1. ASSUME NEW m \in MintedWith(d, ids) PROVE FALSE
    <3>1. PICK id \in m.mint_config_id : id.block_index = n
      BY <1>5, <2>1 DEF MintedWith
    <3>2. m \in d.mint_txs
      BY <2>1 DEF MintedWith
    <3>3. n < m.block_index /\ m.block_index <= n /\ m.block_index \in Nat
      BY <3>1, <3>2 DEF LimitRows, Databases, MintTxRows
    <3> QED
      BY <3>3
  <2>2. MintedWith(d2, ids) = {}
    BY <1>3, <2>1
  <2>3. SumOfAmounts({}) = 0
    BY FS_EmptySet, AmountSums DEF AmountsAreNat
  <2>4. 0 <= limit
    BY DbAssumption DEF U64
  <2> QED
    BY <2>2, <2>3, <2>4 DEF WithinLimit
<1>6. ASSUME NEW x \in d2.mint_config_txs
      PROVE  /\ WithinLimit(d2, IdsOf(x), x.total_mint_limit)
             /\ \A i \in DOMAIN x.configs :
                  WithinLimit(d2, {mint_config_id(x, i)}, x.configs[i].mint_limit)
  <2>1. CASE x \in d.mint_config_txs
    BY <1>4, <2>1 DEF LimitRows, LimitsHold
  <2>2. CASE x = c
    <3>1. c.total_mint_limit \in U64 /\ c.configs \in Seq(MintConfigs)
      BY DEF MintConfigTxRows
    <3>2. \A i \in DOMAIN c.configs : mint_config_id(c, i).block_index = n
      BY <1>2 DEF mint_config_id
    <3>3. WithinLimit(d2, IdsOf(c), c.total_mint_limit)
      <4>1. \A id \in IdsOf(c) : id.block_index = n
        BY <3>2 DEF IdsOf
      <4> QED
        BY <1>5, <3>1, <4>1
    <3>4. ASSUME NEW i \in DOMAIN c.configs
          PROVE  WithinLimit(d2, {mint_config_id(c, i)}, c.configs[i].mint_limit)
      <4>1. PICK q \in Seq(MintConfigs) : q = c.configs
        BY <3>1
      <4>2. q[i] \in MintConfigs
        BY <4>1
      <4>3. c.configs[i].mint_limit \in U64
        BY <4>1, <4>2 DEF MintConfigs
      <4> QED
        BY <1>5, <3>2, <4>3
    <3> QED
      BY <2>2, <3>3, <3>4
  <2> QED
    BY <1>2, <2>1, <2>2
<1>7. LimitsHold(d2)
  BY <1>1, <1>6 DEF LimitRows, LimitsHold
<1> QED
  BY <1>1, <1>7 DEF LimitRows

\* Nothing else touches the mints and the configs.
LEMMA LimitFrame ==
  ASSUME NEW d \in Databases, NEW d2 \in Databases, LimitRows(d),
         d2.mint_txs = d.mint_txs, d2.mint_config_txs = d.mint_config_txs,
         d2.counters["num_mint_txs_without_matching_mint_config"]
           = d.counters["num_mint_txs_without_matching_mint_config"],
         d.counters["num_blocks_synced"] <= d2.counters["num_blocks_synced"]
  PROVE  LimitRows(d2)
<1>1. \A ids : MintedWith(d2, ids) = MintedWith(d, ids)
  BY DEF MintedWith
<1>2. \A ids, limit : WithinLimit(d, ids, limit) <=> WithinLimit(d2, ids, limit)
  BY <1>1 DEF WithinLimit
<1>3. LimitsHold(d2)
  BY <1>2 DEF LimitRows, LimitsHold
<1>4. d.counters["num_blocks_synced"] \in Nat /\ d2.counters["num_blocks_synced"] \in Nat
  BY DEF Databases, CounterNames
<1>5. \A m \in d.mint_txs : m.block_index \in Nat
  BY DEF Databases, MintTxRows
<1> QED
  BY <1>3, <1>4, <1>5 DEF LimitRows

\* The counters that only the ledger side moves.
BlockCounters == {"num_blocks_synced", "num_mint_txs_without_matching_mint_config",
                  "num_burns_exceeding_balance"}

KeepsBlockCounters(d, d2) == \A k \in BlockCounters : d2.counters[k] = d.counters[k]

\* A matching attempt does not.
LEMMA TriesKeepBlocks ==
  ASSUME NEW d, NEW d2, TriesMint(d, d2) \/ TriesBurn(d, d2)
  PROVE  Keeps(d, d2, LedgerTables) /\ KeepsBlockCounters(d, d2)
<1>1. /\ BlockCounters \subseteq CounterNames
      /\ \A k \in BlockCounters : k \notin MintErrors /\ k \notin BurnErrors
  BY DEF BlockCounters, CounterNames, MintErrors, BurnErrors
<1>2. ASSUME NEW c \in MintErrors \cup BurnErrors, Counted(d, d2, c)
      PROVE  KeepsBlockCounters(d, d2)
  BY <1>1, <1>2 DEF Counted, CountsOne, KeepsBlockCounters
<1>3. ASSUME Keeps(d, d2, AllBut({"audited_mints"})) \/ Keeps(d, d2, AllBut({"audited_burns"}))
      PROVE  KeepsBlockCounters(d, d2)
  BY <1>3 DEF Keeps, AllBut, Fields, KeepsBlockCounters
<1>4. Keeps(d, d2, LedgerTables)
  BY TriesKeepLedger
<1> QED
  BY <1>2, <1>3, <1>4 DEF TriesMint, TriesBurn

\* Nor does a safe thread.
LEMMA WorkMoveKeepsBlocks ==
  ASSUME NEW s, NEW s2, NEW d \in Databases, NEW d2, NEW x, NEW k \in DOMAIN Config,
         WorkMove(s, s2, d, d2, x, Config[k])
  PROVE  Keeps(d, d2, LedgerTables) /\ KeepsBlockCounters(d, d2)
<1>0. Keeps(d, d2, LedgerTables)
  BY WorkMoveKeepsLedger
<1>1. CASE DepositMove(s, s2, d, d2, x, Config[k])
  <2>1. PICK e \in DepositRows : StoresDeposit(d, d2, e, Config[k])
    BY <1>1 DEF DepositMove
  <2>2. PICK d1 \in Databases : Keeps(d, d1, AllBut({"deposits"})) /\ TriesMint(d1, d2)
    BY <2>1, MintTries DEF StoresDeposit
  <2>3. d1.counters = d.counters
    BY <2>2 DEF Keeps, AllBut, Fields
  <2> QED
    BY <1>0, <2>2, <2>3, TriesKeepBlocks DEF KeepsBlockCounters
<1>2. CASE WithdrawalMove(s, s2, d, d2, x, Config[k])
  <2>1. PICK w \in WithdrawalRows : StoresWithdrawal(d, d2, w, Config[k])
    BY <1>2 DEF WithdrawalMove
  <2>2. PICK d1 \in Databases : Keeps(d, d1, AllBut({"withdrawals"})) /\ TriesBurn(d1, d2)
    BY <2>1, BurnTries DEF StoresWithdrawal
  <2>3. d1.counters = d.counters
    BY <2>2 DEF Keeps, AllBut, Fields
  <2> QED
    BY <1>0, <2>2, <2>3, TriesKeepBlocks DEF KeepsBlockCounters
<1>3. CASE ~DepositMove(s, s2, d, d2, x, Config[k]) /\ ~WithdrawalMove(s, s2, d, d2, x, Config[k])
  <2>1. \/ Keeps(d, d2, AllBut({"gnosis_safe_txs"}))
        \/ Counted(d, d2, "num_invalid_ethereum_transactions")
        \/ Counted(d, d2, "num_invalid_multi_sig_transactions")
    BY <1>3 DEF WorkMove, SkipTxMove, InsertMove, ForeignTransferMove, UnknownTokenMove,
                TransfersEnd, NoWithdrawalMove, Keeps
  <2>2. KeepsBlockCounters(d, d2)
    BY <2>1 DEF Counted, CountsOne, CounterNames, Keeps, AllBut, Fields, BlockCounters,
                KeepsBlockCounters
  <2> QED
    BY <1>0, <2>2
<1> QED
  BY <1>1, <1>2, <1>3

\* Nor does the main thread, when it stores nothing.
LEMMA ScanMoveKeepsBlocks ==
  ASSUME NEW s, NEW s2, NEW d \in Databases, NEW d2, NEW c \in BlockContents,
         ScanMove(s, s2, d, d2, c), ~ConfigMove(s, s2, d, d2, c), ~MintMove(s, s2, d, d2, c),
         ~BurnMove(s, s2, d, d2, c), ~FinishMove(s, s2, d, d2, c)
  PROVE  Keeps(d, d2, LedgerTables) /\ KeepsBlockCounters(d, d2)
<1>1. CASE AuditMintMove(s, s2, d, d2, c) \/ AuditBurnMove(s, s2, d, d2, c)
  <2>1. c.mint_txs \in Seq(CoreMintTxs) /\ c.outputs \in Seq(TxOuts)
    BY DEF BlockContents
  <2>2. TriesMint(d, d2) \/ TriesBurn(d, d2)
    BY <1>1, <2>1, MintTries, BurnTries DEF AuditMintMove, AuditBurnMove
  <2> QED
    BY <2>2, TriesKeepBlocks
<1>2. CASE d2 = d
  BY <1>2 DEF Keeps, KeepsBlockCounters
<1> QED
  BY <1>1, <1>2
     DEF ScanMove, CheckMove, ConfigsDone, MintsDone, SkipMove, AuditMintsEnd, AuditBurnsEnd

\* The moves of the main thread.
LEMMA ScanMoveLimits ==
  ASSUME NEW s, s.block_index \in Nat, NEW s2, NEW d \in Databases, NEW d2 \in Databases,
         NEW c \in BlockContents, ScanMove(s, s2, d, d2, c), DbInv(d), LimitRows(d),
         s.pc \in {"mint_config_txs", "mint_txs"} =>
           s.block_index = d.counters["num_blocks_synced"]
  PROVE  LimitRows(d2)
<1>0. /\ d.counters["num_blocks_synced"] \in Nat
      /\ \A k \in BlockCounters : k \in CounterNames /\ d.counters[k] \in Nat
  BY DEF Databases, CounterNames, BlockCounters
<1>1. CASE ConfigMove(s, s2, d, d2, c)
  BY <1>1, ConfigKeepsLimits DEF ConfigMove
<1>2. CASE MintMove(s, s2, d, d2, c)
  <2>1. c.mint_txs \in Seq(CoreMintTxs) /\ s.pos \in DOMAIN c.mint_txs
    BY <1>2 DEF BlockContents, MintMove
  <2>2. PICK tx \in CoreMintTxs : tx = c.mint_txs[s.pos]
    BY <2>1
  <2> QED
    BY <1>2, <2>2, MintKeepsLimits DEF MintMove
<1>3. CASE BurnMove(s, s2, d, d2, c)
  <2>1. PICK o : StoresBurn(d, d2, s.block_index, o)
    BY <1>3 DEF BurnMove
  <2>2. d2.mint_txs = d.mint_txs /\ d2.mint_config_txs = d.mint_config_txs
    BY <2>1 DEF StoresBurn, Keeps, AllBut, Fields
  <2>3. d2.counters = d.counters \/ CountsOne(d, d2, "num_burns_exceeding_balance")
    BY <2>1 DEF StoresBurn
  <2> QED
    BY <1>0, <2>2, <2>3, LimitFrame DEF CountsOne, CounterNames
<1>4. CASE FinishMove(s, s2, d, d2, c)
  <2>1. FinishesBlock(d, d2, s.block_index)
    BY <1>4 DEF FinishMove
  <2>2. d2.mint_txs = d.mint_txs /\ d2.mint_config_txs = d.mint_config_txs
    BY <2>1 DEF FinishesBlock, Keeps, AllBut, Fields
  <2>3. CountsOne(d, d2, "num_blocks_synced")
    BY <2>1 DEF FinishesBlock
  <2> QED
    BY <1>0, <2>2, <2>3, LimitFrame DEF CountsOne, CounterNames
<1>5. CASE /\ ~ConfigMove(s, s2, d, d2, c) /\ ~MintMove(s, s2, d, d2, c)
           /\ ~BurnMove(s, s2, d, d2, c) /\ ~FinishMove(s, s2, d, d2, c)
  <2>1. Keeps(d, d2, LedgerTables) /\ KeepsBlockCounters(d, d2)
    BY <1>5, ScanMoveKeepsBlocks
  <2> QED
    BY <1>0, <2>1, LimitFrame DEF Keeps, LedgerTables, KeepsBlockCounters, BlockCounters
<1> QED
  BY <1>1, <1>2, <1>3, <1>4, <1>5

\* A step of the auditor.
LEMMA NextLimitInv ==
  ASSUME IInv, IInv', [Next]_vars, LimitInv
  PROVE  LimitInv'
<1>1. /\ db \in Databases /\ wdb \in Databases /\ db' \in Databases /\ wdb' \in Databases
  <2>1. db \in Databases /\ wdb \in Databases
    BY TypeFacts
  <2>2. db' \in Databases /\ wdb' \in Databases
    BY DEF IInv, TypeOK, LedgerTypeOK, StoreTypeOK
  <2> QED
    BY <2>1, <2>2
<1>2. LimitRows(db) /\ LimitRows(wdb)
  BY DEF LimitInv
<1>3. SUFFICES LimitRows(db') /\ LimitRows(wdb')
  BY DEF LimitInv
<1>4. CASE Idles \/ Begins \/ Commits
  BY <1>2, <1>4 DEF Idles, Begins, Commits
<1>5. CASE \E p \in Procs : ScanProceeds(p)
  <2>1. PICK p \in Procs : ScanProceeds(p)
    BY <1>5
  <2>2. PICK s, s2, c : s = scan[p] /\ s2 = scan'[p] /\ c = Contents(p)
    OBVIOUS
  <2>3. /\ c \in BlockContents /\ s.block_index \in Nat
        /\ ScanMove(s, s2, wdb, wdb', c) /\ db' = db
    BY <2>1, <2>2, ContentsType, TypeFacts DEF ScanProceeds, ScanInTx, ScanStates
  <2>4. /\ s.pc \in {"mint_config_txs", "mint_txs"} =>
             s.block_index = wdb.counters["num_blocks_synced"]
        /\ DbInv(wdb)
    BY <2>2 DEF IInv, ScanInv
  <2>5. LimitRows(wdb')
    BY <1>1, <1>2, <2>3, <2>4, ScanMoveLimits
  <2> QED
    BY <1>2, <2>3, <2>5
<1>6. CASE \E t \in Workers : WorkProceeds(t)
  <2>1. PICK t \in Workers : WorkProceeds(t)
    BY <1>6
  <2>2. PICK k \in DOMAIN Config : audited_safe(t) = Config[k]
    BY SafeOfThread
  <2>3. WorkMove(work[t], work'[t], wdb, wdb', Tx(t), Config[k]) /\ db' = db
    BY <2>1, <2>2 DEF WorkProceeds
  <2>4. Keeps(wdb, wdb', LedgerTables) /\ KeepsBlockCounters(wdb, wdb')
    BY <1>1, <2>3, WorkMoveKeepsBlocks
  <2>5. wdb.counters["num_blocks_synced"] \in Nat
    BY <1>1 DEF Databases, CounterNames
  <2>6. LimitRows(wdb')
    BY <1>1, <1>2, <2>4, <2>5, LimitFrame DEF Keeps, LedgerTables, KeepsBlockCounters, BlockCounters
  <2> QED
    BY <1>2, <2>3, <2>6
<1> QED
  BY <1>4, <1>5, <1>6, StepCases

\* lookup_mint_config keeps every config and every MintConfigTx within its
\* limit, for any ledger and any u64, as long as a block holds at most one mint
\* of it; and the mints without a config are counted.
THEOREM LimitsAudited == Spec => []LimitsAreAudited
<1>1. Init => LimitInv
  <2> SUFFICES ASSUME Init PROVE LimitInv
    OBVIOUS
  <2>1. /\ db = EmptyDb /\ wdb = EmptyDb /\ EmptyDb.mint_txs = {} /\ EmptyDb.mint_config_txs = {}
        /\ EmptyDb.counters["num_mint_txs_without_matching_mint_config"] = 0
    BY DEF Init, StoreInit, EmptyDb, CounterNames
  <2>2. IsFiniteSet({}) /\ Cardinality({}) = 0 /\ {m \in {} : m.mint_config_id = {}} = {}
    BY FS_EmptySet
  <2> QED
    BY <2>1, <2>2 DEF LimitInv, LimitRows, LimitsHold
<1>2. IInv /\ IInv' /\ [Next]_vars /\ LimitInv => LimitInv'
  BY NextLimitInv
<1>3. LimitInv => LimitsAreAudited
  BY DEF LimitInv, LimitRows, LimitsAreAudited
<1> QED
  BY <1>1, <1>2, <1>3, Invariance, PTL DEF Spec

----------------------------------------------------------------------------
(* Sums of events.                                                         *)

IsEvent(l, e) ==
  /\ e[1] \in Nat /\ e[2] \in {0, 1} /\ e[3] \in Nat /\ e = <<e[1], e[2], e[3]>>
  /\ EventItem(l, e).amount \in Nat

IsHistory(l, E) == IsFiniteSet(E) /\ \A e \in E : IsEvent(l, e)

MintsOf(E) == {e \in E : e[2] = 0}

\* What an event adds.
LEMMA SignedAmounts ==
  ASSUME NEW l, NEW e, IsEvent(l, e), NEW t
  PROVE  /\ SignedAmount(l, e, t) \in Int
         /\ e[2] = 0 => SignedAmount(l, e, t) >= 0
         /\ e[2] # 0 => SignedAmount(l, e, t) <= 0
<1>1. PICK a \in Nat : a = EventItem(l, e).amount
  BY DEF IsEvent
<1> QED
  BY <1>1 DEF SignedAmount

\* SumOfEvents, over a history that holds the events.
LEMMA EventsOnSet ==
  ASSUME NEW l, NEW t, NEW S, IsFiniteSet(S), NEW R \in SUBSET S
  PROVE  SumOfEvents(l, R, t) = SumFunctionOnSet([e \in S |-> SignedAmount(l, e, t)], R)
<1>1. PICK f, g : /\ f = [e \in R |-> SignedAmount(l, e, t)]
                  /\ g = [e \in S |-> SignedAmount(l, e, t)]
  OBVIOUS
<1>2. DOMAIN f = R /\ IsFiniteSet(R) /\ \A e \in R : f[e] = g[e]
  BY <1>1, FS_Subset
<1>3. SumFunctionOnSet(f, R) = SumFunctionOnSet(g, R)
  BY <1>2, SumAgrees
<1>4. SumOfEvents(l, R, t) = SumFunctionOnSet(f, R)
  BY <1>1, <1>2 DEF SumOfEvents, SumFunction
<1> QED
  BY <1>1, <1>3, <1>4

\* A part of a history is one, and its sum is at most that of all mints.
LEMMA EventSums ==
  ASSUME NEW l, NEW t, NEW E, IsHistory(l, E), NEW R \in SUBSET E
  PROVE  /\ IsHistory(l, R) /\ SumOfEvents(l, R, t) \in Int
         /\ SumOfEvents(l, MintsOf(R), t) \in Int
         /\ SumOfEvents(l, R, t) <= SumOfEvents(l, MintsOf(E), t)
         /\ SumOfEvents(l, MintsOf(R), t) <= SumOfEvents(l, MintsOf(E), t)
<1>1. PICK f : f = [e \in E |-> SignedAmount(l, e, t)]
  OBVIOUS
<1>2. /\ IsFiniteSet(E)
      /\ \A e \in E : /\ f[e] \in Int
                      /\ e[2] = 0 => f[e] >= 0
                      /\ e[2] # 0 => f[e] <= 0
  BY <1>1, SignedAmounts DEF IsHistory
<1>3. PICK M, N : M = MintsOf(R) /\ N = MintsOf(E)
  OBVIOUS
<1>4. /\ M \subseteq R /\ M \subseteq N /\ N \subseteq E
      /\ IsFiniteSet(R) /\ IsFiniteSet(M) /\ IsFiniteSet(N) /\ R \in SUBSET E
      /\ M \in SUBSET R /\ M \in SUBSET N /\ M \in SUBSET E /\ N \in SUBSET E
  <2>1. M \subseteq R /\ M \subseteq N /\ N \subseteq E
    BY <1>3 DEF MintsOf
  <2> QED
    BY <1>2, <2>1, FS_Subset
<1>5. /\ SumOfEvents(l, R, t) = SumFunctionOnSet(f, R)
      /\ SumOfEvents(l, M, t) = SumFunctionOnSet(f, M)
      /\ SumOfEvents(l, N, t) = SumFunctionOnSet(f, N)
  BY <1>1, <1>2, <1>4, EventsOnSet
<1>6. /\ \A e \in R : f[e] \in Int
      /\ \A e \in N : f[e] \in Int
      /\ \A e \in M : f[e] \in Int
  BY <1>2, <1>4
<1>7. /\ SumFunctionOnSet(f, R) \in Int /\ SumFunctionOnSet(f, M) \in Int
      /\ SumFunctionOnSet(f, N) \in Int
  BY <1>4, <1>6, SumInt
<1>8. SumFunctionOnSet(f, R) <= SumFunctionOnSet(f, M)
  <2>1. \A e \in R \ M : f[e] <= 0
    BY <1>2, <1>3, <1>4 DEF MintsOf
  <2> QED
    BY <1>4, <1>6, <2>1, SumMoves
<1>9. SumFunctionOnSet(f, M) <= SumFunctionOnSet(f, N)
  <2>1. \A e \in N \ M : f[e] >= 0
    BY <1>2, <1>3, <1>4 DEF MintsOf
  <2> QED
    BY <1>4, <1>6, <2>1, SumMoves
<1>10. IsHistory(l, R)
  BY <1>4 DEF IsHistory
<1> QED
  BY <1>3, <1>5, <1>7, <1>8, <1>9, <1>10

\* One more event.
LEMMA EventAdd ==
  ASSUME NEW l, NEW t, NEW E, IsHistory(l, E), NEW x, IsEvent(l, x), x \notin E
  PROVE  /\ IsHistory(l, E \cup {x})
         /\ SumOfEvents(l, E \cup {x}, t) = SumOfEvents(l, E, t) + SignedAmount(l, x, t)
<1>1. PICK U : U = E \cup {x}
  OBVIOUS
<1>2. IsHistory(l, U) /\ IsFiniteSet(U) /\ E \in SUBSET U /\ U \in SUBSET U /\ IsFiniteSet(E)
  BY <1>1, FS_AddElement DEF IsHistory
<1>3. PICK f : f = [e \in U |-> SignedAmount(l, e, t)]
  OBVIOUS
<1>4. SumOfEvents(l, U, t) = SumFunctionOnSet(f, U) /\ SumOfEvents(l, E, t) = SumFunctionOnSet(f, E)
  BY <1>2, <1>3, EventsOnSet
<1>5. f[x] = SignedAmount(l, x, t) /\ \A e \in E \cup {x} : f[e] \in Int
  BY <1>1, <1>2, <1>3, SignedAmounts DEF IsHistory
<1>6. SumFunctionOnSet(f, E \cup {x}) = SumFunctionOnSet(f, E) + f[x]
  BY <1>2, <1>5, SumAdd
<1> QED
  BY <1>1, <1>2, <1>4, <1>5, <1>6

----------------------------------------------------------------------------
(* The largest sum over a suffix.                                          *)

Suffix(E, e) == {o \in E : ~Before(o, e)}

SuffixSums(l, E, t) == {0} \cup {SumOfEvents(l, Suffix(E, e), t) : e \in E}

IsMaximum(S, m) == m \in S /\ \A v \in S : v <= m

\* Max is the maximum, if there is one.
LEMMA MaxIsMaximum ==
  ASSUME NEW S \in SUBSET Int, NEW m, IsMaximum(S, m)
  PROVE  Max(S) = m
<1>1. \A x \in S : (\A y \in S : x >= y) => x = m
  BY DEF IsMaximum
<1>2. m \in S /\ \A y \in S : m >= y
  BY DEF IsMaximum
<1> QED
  BY <1>1, <1>2 DEF Max

\* A finite set of values has one, if 0 is counted in.
LEMMA MaximumExists ==
  ASSUME NEW E, IsFiniteSet(E), NEW f, \A e \in E : f[e] \in Int
  PROVE  \E m \in Nat : IsMaximum({0} \cup {f[e] : e \in E}, m)
<1> DEFINE T == {s \in SUBSET E : \E m \in Nat : IsMaximum({0} \cup {f[e] : e \in s}, m)}
<1>1. {} \in T
  <2>1. {0} \cup {f[e] : e \in {}} = {0}
    OBVIOUS
  <2>2. IsMaximum({0}, 0)
    BY DEF IsMaximum
  <2> QED
    BY <2>1, <2>2
<1>2. ASSUME NEW s \in SUBSET E, NEW x \in E \ s, s \in T
      PROVE  s \cup {x} \in T
  <2>1. PICK m \in Nat : IsMaximum({0} \cup {f[e] : e \in s}, m)
    BY <1>2
  <2>2. PICK k \in Int : k = f[x]
    BY <1>2
  <2>3. PICK k2 \in Nat : k2 = IF k > m THEN k ELSE m
    BY <2>1, <2>2
  <2>4. \A e \in s \cup {x} : f[e] \in Int /\ f[e] <= k2
    <3>1. \A e \in s : f[e] \in Int /\ f[e] <= m
      BY <2>1 DEF IsMaximum
    <3> QED
      BY <2>1, <2>2, <2>3, <3>1
  <2>5. k2 \in {0} \cup {f[e] : e \in s \cup {x}}
    <3>1. CASE k2 = k
      BY <2>2, <3>1
    <3>2. CASE k2 = m
      BY <2>1, <3>2 DEF IsMaximum
    <3> QED
      BY <2>3, <3>1, <3>2
  <2>6. IsMaximum({0} \cup {f[e] : e \in s \cup {x}}, k2)
    BY <2>3, <2>4, <2>5 DEF IsMaximum
  <2> QED
    BY <1>2, <2>6
<1> HIDE DEF T
<1>3. E \in T
  BY <1>1, <1>2, ElementInduction
<1> QED
  BY <1>3 DEF T

\* So LargestSuffixSum is the largest of the sums, and never negative.
LEMMA LargestIs ==
  ASSUME NEW l, NEW t, NEW E, IsHistory(l, E)
  PROVE  /\ SuffixSums(l, E, t) \in SUBSET Int
         /\ LargestSuffixSum(l, E, t) = Max(SuffixSums(l, E, t))
         /\ LargestSuffixSum(l, E, t) \in Nat
         /\ IsMaximum(SuffixSums(l, E, t), LargestSuffixSum(l, E, t))
<1>1. PICK f : f = [e \in E |-> SumOfEvents(l, Suffix(E, e), t)]
  OBVIOUS
<1>2. \A e \in E : f[e] \in Int /\ f[e] = SumOfEvents(l, Suffix(E, e), t)
  <2> SUFFICES ASSUME NEW e \in E PROVE f[e] \in Int /\ f[e] = SumOfEvents(l, Suffix(E, e), t)
    OBVIOUS
  <2>1. Suffix(E, e) \in SUBSET E
    BY DEF Suffix
  <2>2. SumOfEvents(l, Suffix(E, e), t) \in Int
    BY <2>1, EventSums
  <2> QED
    BY <1>1, <2>2
<1>3. PICK S : S = {0} \cup {f[e] : e \in E}
  OBVIOUS
<1>4. SuffixSums(l, E, t) = S
  BY <1>2, <1>3 DEF SuffixSums
<1>5. S \in SUBSET Int
  BY <1>2, <1>3
<1>6. PICK m \in Nat : IsMaximum(S, m)
  BY <1>2, <1>3, MaximumExists DEF IsHistory
<1>7. Max(S) = m
  BY <1>5, <1>6, MaxIsMaximum
<1>8. LargestSuffixSum(l, E, t) = Max(SuffixSums(l, E, t))
  BY DEF LargestSuffixSum, SuffixSums, Suffix
<1> QED
  BY <1>4, <1>5, <1>6, <1>7, <1>8

\* A balance is at most what was minted.
LEMMA LargestIsMinted ==
  ASSUME NEW l, NEW t, NEW E, IsHistory(l, E)
  PROVE  LargestSuffixSum(l, E, t) <= SumOfEvents(l, MintsOf(E), t)
<1>1. LargestSuffixSum(l, E, t) \in SuffixSums(l, E, t)
  BY LargestIs DEF IsMaximum
<1>2. PICK k \in Int : k = SumOfEvents(l, MintsOf(E), t)
  <2>1. E \in SUBSET E
    OBVIOUS
  <2> QED
    BY <2>1, EventSums
<1>3. \A e \in E : SumOfEvents(l, Suffix(E, e), t) <= k
  <2> SUFFICES ASSUME NEW e \in E PROVE SumOfEvents(l, Suffix(E, e), t) <= k
    OBVIOUS
  <2>1. Suffix(E, e) \in SUBSET E
    BY DEF Suffix
  <2> QED
    BY <1>2, <2>1, EventSums
<1>4. 0 <= k
  <2>1. PICK N : N = {}
    OBVIOUS
  <2>2. N \in SUBSET E /\ MintsOf(N) = N
    BY <2>1 DEF MintsOf
  <2>3. SumOfEvents(l, N, t) <= k
    BY <1>2, <2>2, EventSums
  <2>4. SumOfEvents(l, N, t) = 0
    <3>1. IsFiniteSet(N) /\ N \in SUBSET N
      BY <2>1, FS_EmptySet
    <3>2. SumOfEvents(l, N, t) = SumFunctionOnSet([e \in N |-> SignedAmount(l, e, t)], N)
      BY <3>1, EventsOnSet
    <3> QED
      BY <2>1, <3>2, SumEmpty
  <2> QED
    BY <2>3, <2>4
<1> QED
  BY <1>1, <1>2, <1>3, <1>4 DEF SuffixSums

\* The order of events.
LEMMA BeforeOrders ==
  ASSUME NEW l, NEW e, NEW o, IsEvent(l, e), IsEvent(l, o)
  PROVE  ~Before(e, e) /\ (Before(e, o) => ~Before(o, e))
<1>1. /\ e[1] \in Nat /\ e[2] \in Nat /\ e[3] \in Nat
      /\ o[1] \in Nat /\ o[2] \in Nat /\ o[3] \in Nat
  BY DEF IsEvent
<1> QED
  BY <1>1 DEF Before

\* The sum of no event.
LEMMA NoEvents ==
  ASSUME NEW l, NEW t
  PROVE  /\ IsHistory(l, {}) /\ SumOfEvents(l, {}, t) = 0
         /\ LargestSuffixSum(l, {}, t) = 0
<1>1. IsFiniteSet({}) /\ {} \in SUBSET {}
  BY FS_EmptySet
<1>2. IsHistory(l, {})
  BY <1>1 DEF IsHistory
<1>3. SumOfEvents(l, {}, t) = 0
  <2>1. SumOfEvents(l, {}, t) = SumFunctionOnSet([e \in {} |-> SignedAmount(l, e, t)], {})
    BY <1>1, EventsOnSet
  <2> QED
    BY <2>1, SumEmpty
<1>4. SuffixSums(l, {}, t) = {0}
  BY DEF SuffixSums
<1>5. LargestSuffixSum(l, {}, t) = 0
  BY <1>2, <1>4, LargestIs DEF IsMaximum
<1> QED
  BY <1>2, <1>3, <1>5

\* An event after all others is what the running balance needs: the largest sum
\* over a suffix moves by the event, and is cut off at 0.
LEMMA LargestStep ==
  ASSUME NEW l, NEW t, NEW E, IsHistory(l, E), NEW x, IsEvent(l, x), x \notin E,
         \A e \in E : Before(e, x)
  PROVE  LargestSuffixSum(l, E \cup {x}, t)
           = IF LargestSuffixSum(l, E, t) + SignedAmount(l, x, t) > 0
             THEN LargestSuffixSum(l, E, t) + SignedAmount(l, x, t) ELSE 0
<1>1. PICK U : U = E \cup {x}
  OBVIOUS
<1>2. IsHistory(l, U)
  BY <1>1, EventAdd
<1>3. PICK w \in Int : w = SignedAmount(l, x, t)
  BY SignedAmounts
<1>4. PICK m \in Nat : m = LargestSuffixSum(l, E, t) /\ IsMaximum(SuffixSums(l, E, t), m)
  BY LargestIs
<1>5. ~Before(x, x) /\ \A e \in E : ~Before(x, e)
  BY BeforeOrders DEF IsHistory
<1>6. \A e \in E : SumOfEvents(l, Suffix(U, e), t) = SumOfEvents(l, Suffix(E, e), t) + w
  <2> SUFFICES ASSUME NEW e \in E
               PROVE  SumOfEvents(l, Suffix(U, e), t) = SumOfEvents(l, Suffix(E, e), t) + w
    OBVIOUS
  <2>1. PICK R, V : R = Suffix(E, e) /\ V = Suffix(U, e)
    OBVIOUS
  <2>2. V = R \cup {x} /\ x \notin R /\ R \in SUBSET E
    BY <1>1, <1>5, <2>1 DEF Suffix
  <2>3. IsHistory(l, R)
    BY <2>2, EventSums
  <2>4. SumOfEvents(l, R \cup {x}, t) = SumOfEvents(l, R, t) + w
    BY <1>3, <2>2, <2>3, EventAdd
  <2> QED
    BY <2>1, <2>2, <2>4
<1>7. SumOfEvents(l, Suffix(U, x), t) = w
  <2>1. PICK V, N : V = Suffix(U, x) /\ N = {}
    OBVIOUS
  <2>2. V = N \cup {x} /\ x \notin N
    BY <1>1, <1>5, <2>1 DEF Suffix
  <2>3. IsHistory(l, N) /\ SumOfEvents(l, N, t) = 0
    BY <2>1, NoEvents
  <2>4. SumOfEvents(l, N \cup {x}, t) = SumOfEvents(l, N, t) + w
    BY <1>3, <2>2, <2>3, EventAdd
  <2> QED
    BY <1>3, <2>1, <2>2, <2>3, <2>4
<1>8. PICK S, S2 : S = SuffixSums(l, E, t) /\ S2 = SuffixSums(l, U, t)
  OBVIOUS
<1>9. S \in SUBSET Int /\ S2 \in SUBSET Int
  BY <1>2, <1>8, LargestIs
<1>10. \A v \in S : v + w \in S2
  <2> SUFFICES ASSUME NEW v \in S PROVE v + w \in S2
    OBVIOUS
  <2>1. CASE v = 0
    <3>1. w \in S2
      BY <1>1, <1>7, <1>8 DEF SuffixSums
    <3> QED
      BY <1>3, <2>1, <3>1
  <2>2. CASE \E e \in E : v = SumOfEvents(l, Suffix(E, e), t)
    <3>1. PICK e \in E : v = SumOfEvents(l, Suffix(E, e), t)
      BY <2>2
    <3>2. SumOfEvents(l, Suffix(U, e), t) \in S2
      BY <1>1, <1>8 DEF SuffixSums
    <3> QED
      BY <1>6, <3>1, <3>2
  <2> QED
    BY <1>8, <2>1, <2>2 DEF SuffixSums
<1>11. \A v \in S2 : v = 0 \/ \E k \in S : v = k + w
  <2> SUFFICES ASSUME NEW v \in S2, v # 0 PROVE \E k \in S : v = k + w
    OBVIOUS
  <2>1. PICK e \in U : v = SumOfEvents(l, Suffix(U, e), t)
    BY <1>8 DEF SuffixSums
  <2>2. CASE e = x
    <3>1. 0 \in S /\ v = 0 + w
      BY <1>3, <1>7, <1>8, <2>1, <2>2 DEF SuffixSums
    <3> QED
      BY <3>1
  <2>3. CASE e \in E
    <3>1. SumOfEvents(l, Suffix(E, e), t) \in S
      BY <1>8, <2>3 DEF SuffixSums
    <3> QED
      BY <1>6, <2>1, <2>3, <3>1
  <2> QED
    BY <1>1, <2>2, <2>3
<1>12. 0 \in S2
  BY <1>8 DEF SuffixSums
<1>13. m \in S /\ \A v \in S : v <= m
  BY <1>4, <1>8 DEF IsMaximum
<1>14. PICK m2 \in Nat : m2 = IF m + w > 0 THEN m + w ELSE 0
  BY <1>3, <1>4
<1>15. m2 \in S2
  BY <1>10, <1>12, <1>13, <1>14
<1>16. ASSUME NEW v \in S2 PROVE v <= m2
  <2>1. CASE v = 0
    BY <1>14, <2>1
  <2>2. CASE v # 0
    <3>1. PICK k \in S : v = k + w
      BY <1>11, <2>2
    <3>2. k \in Int /\ k <= m
      BY <1>9, <1>13, <3>1
    <3> QED
      BY <1>3, <1>14, <3>1, <3>2
  <2> QED
    BY <2>1, <2>2
<1>17. Max(S2) = m2
  BY <1>9, <1>15, <1>16, MaxIsMaximum DEF IsMaximum
<1>18. LargestSuffixSum(l, U, t) = m2
  BY <1>2, <1>8, <1>17, LargestIs
<1> QED
  BY <1>1, <1>3, <1>4, <1>14, <1>18

----------------------------------------------------------------------------
(* The events of a ledger.                                                 *)

IsLedger(l) ==
  /\ Len(l) \in Nat /\ DOMAIN l = 1 .. Len(l)
  /\ \A b \in DOMAIN l : l[b] \in BlockContents

\* The events of n blocks, and these mints M and burns B of the next block.
EventSet(l, n, M, B) ==
  Events(l, n) \cup {<<n + 1, 0, i>> : i \in M} \cup {<<n + 1, 1, i>> : i \in B}

\* What it means to be an event of block b.
EventOf(l, b, e) ==
  \/ \E i \in DOMAIN l[b].mint_txs : e = <<b, 0, i>>
  \/ \E i \in BurnOutputs(l[b]) : e = <<b, 1, i>>

\* The events of n blocks are those of each.
LEMMA EventsMean ==
  ASSUME NEW l, NEW n, NEW e
  PROVE  e \in Events(l, n) <=> \E b \in 1 .. n : EventOf(l, b, e)
<1> DEFINE part(b) == {<<b, 0, i>> : i \in DOMAIN l[b].mint_txs}
                      \cup {<<b, 1, i>> : i \in BurnOutputs(l[b])}
<1>1. PICK A : A = UNION {part(b) : b \in 1 .. n}
  OBVIOUS
<1>2. Events(l, n) = A
  BY <1>1, Zenon DEF Events, BurnOutputs
<1>3. \A b : EventOf(l, b, e) <=> e \in part(b)
  BY DEF EventOf
<1> HIDE DEF part
<1>4. e \in A <=> \E b \in 1 .. n : e \in part(b)
  BY <1>1, Zenon
<1> QED
  BY <1>2, <1>3, <1>4

\* They are in one of the blocks.
LEMMA EventShape ==
  ASSUME NEW l, IsLedger(l), NEW n \in Nat, n <= Len(l), NEW e \in Events(l, n)
  PROVE  /\ IsEvent(l, e) /\ e[1] \in 1 .. n
         /\ \/ e[2] = 0 /\ e[3] \in DOMAIN l[e[1]].mint_txs
            \/ e[2] = 1 /\ e[3] \in BurnOutputs(l[e[1]])
         /\ EventItem(l, e).token_id \in Tokens
<1>1. CASE \E b \in 1 .. n : \E i \in DOMAIN l[b].mint_txs : e = <<b, 0, i>>
  <2>1. PICK b \in 1 .. n : \E i \in DOMAIN l[b].mint_txs : e = <<b, 0, i>>
    BY <1>1
  <2>2. PICK i \in DOMAIN l[b].mint_txs : e = <<b, 0, i>>
    BY <2>1
  <2>3. b \in DOMAIN l
    BY DEF IsLedger
  <2>4. PICK q \in Seq(CoreMintTxs) : q = l[b].mint_txs
    BY <2>3 DEF IsLedger, BlockContents
  <2>5. i \in Nat /\ q[i] \in CoreMintTxs
    BY <2>2, <2>4
  <2>6. EventItem(l, e) = q[i]
    BY <2>2, <2>4 DEF EventItem
  <2>7. q[i].amount \in Nat /\ q[i].token_id \in Tokens
    BY <2>5, DbAssumption DEF CoreMintTxs, U64
  <2> QED
    BY <2>2, <2>5, <2>6, <2>7 DEF IsEvent
<1>2. CASE \E b \in 1 .. n : \E i \in BurnOutputs(l[b]) : e = <<b, 1, i>>
  <2>1. PICK b \in 1 .. n : \E i \in BurnOutputs(l[b]) : e = <<b, 1, i>>
    BY <1>2
  <2>2. PICK i \in BurnOutputs(l[b]) : e = <<b, 1, i>>
    BY <2>1
  <2>3. b \in DOMAIN l
    BY DEF IsLedger
  <2>4. PICK q \in Seq(TxOuts) : q = l[b].outputs
    BY <2>3 DEF IsLedger, BlockContents
  <2>5. i \in Nat /\ q[i] \in TxOuts
    BY <2>2, <2>4 DEF BurnOutputs
  <2>6. EventItem(l, e) = q[i]
    BY <2>2, <2>4 DEF EventItem
  <2>7. q[i].amount \in Nat /\ q[i].token_id \in Tokens
    BY <2>5, DbAssumption DEF TxOuts, U64
  <2> QED
    BY <2>2, <2>5, <2>6, <2>7 DEF IsEvent
<1> QED
  BY <1>1, <1>2, EventsMean DEF EventOf

\* The next block.
LEMMA EventsNext ==
  ASSUME NEW l, NEW n \in Nat
  PROVE  /\ Events(l, 0) = {}
         /\ Events(l, n + 1) = EventSet(l, n, DOMAIN l[n + 1].mint_txs, BurnOutputs(l[n + 1]))
<1>1. Events(l, 0) = {}
  <2>1. 1 .. 0 = {}
    OBVIOUS
  <2> QED
    BY <2>1, EventsMean
<1>2. PICK k \in Nat : k = n + 1 /\ 1 .. k = (1 .. n) \cup {k}
  OBVIOUS
<1>3. PICK E, E1, E2 : /\ E = Events(l, n) /\ E1 = Events(l, k)
                       /\ E2 = EventSet(l, n, DOMAIN l[k].mint_txs, BurnOutputs(l[k]))
  OBVIOUS
<1>4. \A e : e \in E2 <=> e \in E \/ EventOf(l, k, e)
  BY <1>2, <1>3 DEF EventSet, EventOf
<1>5. ASSUME NEW e
      PROVE  e \in E1 <=> e \in E2
  <2>1. (\E b \in 1 .. k : EventOf(l, b, e))
          <=> (\E b \in 1 .. n : EventOf(l, b, e)) \/ EventOf(l, k, e)
    BY <1>2
  <2>2. e \in E1 <=> \E b \in 1 .. k : EventOf(l, b, e)
    BY <1>3, EventsMean
  <2>3. e \in E <=> \E b \in 1 .. n : EventOf(l, b, e)
    BY <1>3, EventsMean
  <2>4. e \in E2 <=> e \in E \/ EventOf(l, k, e)
    BY <1>4
  <2> QED
    BY <2>1, <2>2, <2>3, <2>4
<1>6. E1 = E2
  BY <1>5
<1> QED
  BY <1>1, <1>2, <1>3, <1>6

\* Finitely many numbers give finitely many events.
LEMMA EventsFinite ==
  ASSUME NEW b, NEW k, NEW M, IsFiniteSet(M)
  PROVE  IsFiniteSet({<<b, k, i>> : i \in M})
<1>1. PICK f, T : T = {<<b, k, i>> : i \in M} /\ f = [i \in M |-> <<b, k, i>>]
  OBVIOUS
<1>2. f \in [M -> T] /\ \A e \in T : \E i \in M : f[i] = e
  BY <1>1
<1>3. f \in Surjection(M, T)
  BY <1>2 DEF Surjection
<1> QED
  BY <1>1, <1>3, FS_Surjection

\* The positions of a block are finitely many.
LEMMA PositionsFinite ==
  ASSUME NEW c \in BlockContents, NEW M \in SUBSET DOMAIN c.mint_txs,
         NEW B \in SUBSET BurnOutputs(c)
  PROVE  IsFiniteSet(M) /\ IsFiniteSet(B) /\ M \subseteq Nat /\ B \subseteq Nat
<1>1. PICK q \in Seq(CoreMintTxs), r \in Seq(TxOuts) : q = c.mint_txs /\ r = c.outputs
  BY DEF BlockContents
<1>2. /\ DOMAIN q = 1 .. Len(q) /\ DOMAIN r = 1 .. Len(r)
      /\ Len(q) \in Int /\ Len(r) \in Int /\ 1 \in Int
  OBVIOUS
<1>3. IsFiniteSet(DOMAIN q) /\ IsFiniteSet(DOMAIN r)
  BY <1>2, FS_Interval
<1>4. B \subseteq DOMAIN r
  BY <1>1 DEF BurnOutputs
<1> QED
  BY <1>1, <1>2, <1>3, <1>4, FS_Subset

\* Which events these are.
LEMMA EventSetMeans ==
  ASSUME NEW l, NEW n \in Nat, NEW M, NEW B, NEW e
  PROVE  e \in EventSet(l, n, M, B)
           <=> \/ e \in Events(l, n)
               \/ \E i \in M : e = <<n + 1, 0, i>>
               \/ \E i \in B : e = <<n + 1, 1, i>>
  BY DEF EventSet

\* The events of a prefix, and of a part of the next block, are a history.
LEMMA HistoryOf ==
  ASSUME NEW l, IsLedger(l)
  PROVE  /\ \A n \in Nat : n <= Len(l) => IsHistory(l, Events(l, n))
         /\ \A n \in Nat : n < Len(l) =>
              \A M \in SUBSET DOMAIN l[n + 1].mint_txs, B \in SUBSET BurnOutputs(l[n + 1]) :
                IsHistory(l, EventSet(l, n, M, B)) /\ EventSet(l, n, M, B) \subseteq Events(l, n + 1)
<1>1. ASSUME NEW n \in Nat, n < Len(l), IsFiniteSet(Events(l, n)),
             NEW M \in SUBSET DOMAIN l[n + 1].mint_txs, NEW B \in SUBSET BurnOutputs(l[n + 1])
      PROVE  IsFiniteSet(EventSet(l, n, M, B)) /\ EventSet(l, n, M, B) \subseteq Events(l, n + 1)
  <2>1. PICK k, c : k \in Nat /\ k = n + 1 /\ c = l[k]
    OBVIOUS
  <2>2. c \in BlockContents
    BY <1>1, <2>1 DEF IsLedger
  <2>3. IsFiniteSet(M) /\ IsFiniteSet(B)
    BY <1>1, <2>1, <2>2, PositionsFinite
  <2>4. PICK E, A, C : /\ E = Events(l, n) /\ A = {<<k, 0, i>> : i \in M}
                       /\ C = {<<k, 1, i>> : i \in B}
    OBVIOUS
  <2>5. IsFiniteSet(E) /\ IsFiniteSet(A) /\ IsFiniteSet(C)
    BY <1>1, <2>3, <2>4, EventsFinite
  <2>6. IsFiniteSet(E \cup A)
    BY <2>5, FS_Union
  <2>7. IsFiniteSet((E \cup A) \cup C)
    BY <2>5, <2>6, FS_Union
  <2>8. EventSet(l, n, M, B) = (E \cup A) \cup C
    BY <2>1, <2>4 DEF EventSet
  <2>9. ASSUME NEW e \in EventSet(l, n, M, B) PROVE e \in Events(l, n + 1)
    <3>1. e \in EventSet(l, n, DOMAIN l[n + 1].mint_txs, BurnOutputs(l[n + 1]))
      BY <1>1, <2>9, EventSetMeans
    <3> QED
      BY <3>1, EventsNext
  <2> QED
    BY <2>7, <2>8, <2>9
<1> DEFINE T == {n \in Nat : n <= Len(l) => IsFiniteSet(Events(l, n))}
<1>2. 0 \in T
  BY EventsNext, FS_EmptySet
<1>3. ASSUME NEW n \in Nat, n \in T PROVE n + 1 \in T
  <2> SUFFICES ASSUME n + 1 <= Len(l) PROVE IsFiniteSet(Events(l, n + 1))
    OBVIOUS
  <2>1. n < Len(l) /\ IsFiniteSet(Events(l, n))
    BY <1>3 DEF IsLedger
  <2>2. PICK M, B : M = DOMAIN l[n + 1].mint_txs /\ B = BurnOutputs(l[n + 1])
    OBVIOUS
  <2>3. IsFiniteSet(EventSet(l, n, M, B))
    BY <1>1, <2>1, <2>2
  <2> QED
    BY <2>2, <2>3, EventsNext
<1> HIDE DEF T
<1>4. Nat \subseteq T
  BY <1>2, <1>3, NatSetInduction
<1>5. ASSUME NEW n \in Nat, n <= Len(l) PROVE IsHistory(l, Events(l, n))
  <2>1. IsFiniteSet(Events(l, n))
    BY <1>4, <1>5 DEF T
  <2> QED
    BY <1>5, <2>1, EventShape DEF IsHistory
<1>6. ASSUME NEW n \in Nat, n < Len(l),
             NEW M \in SUBSET DOMAIN l[n + 1].mint_txs, NEW B \in SUBSET BurnOutputs(l[n + 1])
      PROVE  IsHistory(l, EventSet(l, n, M, B)) /\ EventSet(l, n, M, B) \subseteq Events(l, n + 1)
  <2>1. PICK k \in Nat : k = n + 1 /\ k <= Len(l)
    BY <1>6 DEF IsLedger
  <2>2. IsHistory(l, Events(l, k)) /\ IsHistory(l, Events(l, n))
    BY <1>5, <1>6, <2>1 DEF IsLedger
  <2>3. EventSet(l, n, M, B) \subseteq Events(l, k)
    BY <1>1, <1>6, <2>1, <2>2 DEF IsHistory
  <2> QED
    BY <2>1, <2>2, <2>3, EventSums
<1> QED
  BY <1>5, <1>6

----------------------------------------------------------------------------
(* One event of a block.                                                   *)

\* x is the next event after the history E of the ledger l.
NextEvent(l, E, x) ==
  /\ IsHistory(l, E) /\ IsEvent(l, x) /\ x \notin E
  /\ \A e \in E : Before(e, x)
  /\ {o \in Events(l, x[1]) : Before(o, x)} = E
  /\ EventItem(l, x).token_id \in Tokens

\* The block after n blocks, an event of it, and the events of it before a position.
BlockAfter(l, n) == l[n + 1]

EventId(n, kind, pos) == <<n + 1, kind, pos>>

MintsBefore(c, pos) == {i \in DOMAIN c.mint_txs : i < pos}

BurnsBefore(c, pos) == {i \in BurnOutputs(c) : i < pos}

\* The next mint of a block.
LEMMA MintEvent ==
  ASSUME NEW l, IsLedger(l), NEW n \in Nat, n < Len(l),
         NEW pos \in DOMAIN BlockAfter(l, n).mint_txs
  PROVE  /\ NextEvent(l, EventSet(l, n, MintsBefore(BlockAfter(l, n), pos), {}), EventId(n, 0, pos))
         /\ EventSet(l, n, MintsBefore(BlockAfter(l, n), pos) \cup {pos}, {})
              = EventSet(l, n, MintsBefore(BlockAfter(l, n), pos), {}) \cup {EventId(n, 0, pos)}
         /\ EventItem(l, EventId(n, 0, pos)) = BlockAfter(l, n).mint_txs[pos]
         /\ EventId(n, 0, pos)[2] = 0
<1>k. PICK k \in Nat : k = n + 1
  OBVIOUS
<1>c. PICK c, M, M2, x : /\ c = BlockAfter(l, n) /\ x = EventId(n, 0, pos)
                       /\ M = MintsBefore(c, pos) /\ M2 = M \cup {pos}
  OBVIOUS
<1>a. c = l[k] /\ x = <<k, 0, pos>>
  BY <1>k, <1>c DEF BlockAfter, EventId
<1>b. M = {i \in DOMAIN c.mint_txs : i < pos} /\ pos \in DOMAIN c.mint_txs
  BY <1>c DEF MintsBefore
<1> USE <1>k, <1>c, <1>a, <1>b
<1>0. n <= Len(l)
  BY DEF IsLedger
<1>1. k \in Nat /\ k = n + 1 /\ c = l[k] /\ k <= Len(l)
  BY DEF IsLedger
<1>2. PICK E, N : E = EventSet(l, n, M, N) /\ N = {}
  OBVIOUS
<1>3. M \in SUBSET DOMAIN c.mint_txs /\ N \in SUBSET BurnOutputs(c)
  BY <1>1, <1>2
<1>4. IsHistory(l, E) /\ E \subseteq Events(l, k)
  BY <1>1, <1>2, <1>3, HistoryOf
<1>5. x \in Events(l, k)
  <2>1. EventOf(l, k, x) /\ k \in 1 .. k
    BY <1>1 DEF EventOf
  <2> QED
    BY <2>1, EventsMean
<1>6. /\ IsEvent(l, x) /\ EventItem(l, x).token_id \in Tokens
      /\ x[1] = k /\ x[2] = 0 /\ x[3] = pos /\ pos \in Nat
  BY <1>1, <1>5, EventShape DEF IsEvent
<1>7. ASSUME NEW o \in Events(l, k)
      PROVE  /\ o \in E <=> Before(o, x)
             /\ o \in E => o # x
  <2>1. o \in EventSet(l, n, DOMAIN c.mint_txs, BurnOutputs(c))
    BY <1>1, EventsNext
  <2>2. CASE o \in Events(l, n)
    <3>1. o[1] \in 1 .. n
      BY <1>0, <2>2, EventShape
    <3>2. o \in E
      BY <1>2, <2>2, EventSetMeans
    <3> QED
      BY <1>1, <1>6, <3>1, <3>2 DEF Before
  <2>3. CASE \E i \in DOMAIN c.mint_txs : o = <<k, 0, i>>
    <3>1. PICK i \in DOMAIN c.mint_txs : o = <<k, 0, i>>
      BY <2>3
    <3>2. o[1] = k /\ o[2] = 0 /\ o[3] = i /\ i \in Nat
      BY <1>1, <3>1, EventShape DEF IsEvent
    <3>3. o \notin Events(l, n)
      <4> SUFFICES ASSUME o \in Events(l, n) PROVE FALSE
        OBVIOUS
      <4>1. o[1] \in 1 .. n
        BY <1>0, EventShape
      <4> QED
        BY <1>1, <3>2, <4>1
    <3>4. o \in E <=> \E j \in M : o = <<k, 0, j>>
      BY <1>1, <1>2, <3>3, EventSetMeans
    <3>5. o \in E <=> i < pos
      BY <1>1, <3>1, <3>4
    <3>6. Before(o, x) <=> i < pos
      BY <1>6, <3>2 DEF Before
    <3> QED
      BY <1>6, <3>2, <3>5, <3>6
  <2>4. CASE \E i \in BurnOutputs(c) : o = <<k, 1, i>>
    <3>1. PICK i \in BurnOutputs(c) : o = <<k, 1, i>>
      BY <2>4
    <3>2. o[1] = k /\ o[2] = 1
      BY <3>1
    <3>3. o \notin Events(l, n)
      <4> SUFFICES ASSUME o \in Events(l, n) PROVE FALSE
        OBVIOUS
      <4>1. o[1] \in 1 .. n
        BY <1>0, EventShape
      <4> QED
        BY <1>1, <3>2, <4>1
    <3>4. o \notin E
      BY <1>1, <1>2, <3>2, <3>3, EventSetMeans
    <3> QED
      BY <1>6, <3>2, <3>4 DEF Before
  <2> QED
    BY <1>1, <2>1, <2>2, <2>3, <2>4, EventSetMeans
<1>8. x \notin E /\ (\A e \in E : Before(e, x)) /\ {o \in Events(l, x[1]) : Before(o, x)} = E
  BY <1>4, <1>5, <1>6, <1>7
<1>9. EventSet(l, n, M2, N) = E \cup {x}
  BY <1>2 DEF EventSet
<1>10. EventItem(l, x) = c.mint_txs[pos]
  BY <1>1, <1>6 DEF EventItem
<1>11. NextEvent(l, E, x)
  BY <1>4, <1>6, <1>8 DEF NextEvent
<1>12. /\ NextEvent(l, EventSet(l, n, M, {}), x)
       /\ EventSet(l, n, M \cup {pos}, {}) = EventSet(l, n, M, {}) \cup {x}
  BY ONLY <1>c, <1>2, <1>9, <1>11
<1> QED
  BY ONLY <1>c, <1>6, <1>10, <1>12

\* All mints of the block, and these burns.
BurnHistory(l, n, B) == EventSet(l, n, DOMAIN BlockAfter(l, n).mint_txs, B)

\* The next burn of a block.
LEMMA BurnEvent ==
  ASSUME NEW l, IsLedger(l), NEW n \in Nat, n < Len(l), NEW pos \in BurnOutputs(BlockAfter(l, n))
  PROVE  /\ NextEvent(l, BurnHistory(l, n, BurnsBefore(BlockAfter(l, n), pos)), EventId(n, 1, pos))
         /\ BurnHistory(l, n, BurnsBefore(BlockAfter(l, n), pos) \cup {pos})
              = BurnHistory(l, n, BurnsBefore(BlockAfter(l, n), pos)) \cup {EventId(n, 1, pos)}
         /\ EventItem(l, EventId(n, 1, pos)) = BlockAfter(l, n).outputs[pos]
         /\ EventId(n, 1, pos)[2] = 1
<1>k. PICK k \in Nat : k = n + 1
  OBVIOUS
<1>c. PICK c, B, B2, x, M : /\ c = BlockAfter(l, n) /\ M = DOMAIN c.mint_txs /\ x = EventId(n, 1, pos)
                       /\ B = BurnsBefore(c, pos) /\ B2 = B \cup {pos}
  OBVIOUS
<1>a. c = l[k] /\ x = <<k, 1, pos>>
  BY <1>k, <1>c DEF BlockAfter, EventId
<1>b. B = {i \in BurnOutputs(c) : i < pos} /\ pos \in BurnOutputs(c)
  BY <1>c DEF BurnsBefore
<1> USE <1>k, <1>c, <1>a, <1>b
<1>0. n <= Len(l)
  BY DEF IsLedger
<1>1. k \in Nat /\ k = n + 1 /\ c = l[k] /\ k <= Len(l)
  BY DEF IsLedger
<1>2. PICK E : E = EventSet(l, n, M, B)
  OBVIOUS
<1>3. M \in SUBSET DOMAIN c.mint_txs /\ B \in SUBSET BurnOutputs(c)
  BY <1>1, <1>2
<1>4. IsHistory(l, E) /\ E \subseteq Events(l, k)
  BY <1>1, <1>2, <1>3, HistoryOf
<1>5. x \in Events(l, k)
  <2>1. EventOf(l, k, x) /\ k \in 1 .. k
    BY <1>1 DEF EventOf
  <2> QED
    BY <2>1, EventsMean
<1>6. /\ IsEvent(l, x) /\ EventItem(l, x).token_id \in Tokens
      /\ x[1] = k /\ x[2] = 1 /\ x[3] = pos /\ pos \in Nat
  BY <1>1, <1>5, EventShape DEF IsEvent
<1>7. ASSUME NEW o \in Events(l, k)
      PROVE  /\ o \in E <=> Before(o, x)
             /\ o \in E => o # x
  <2>1. o \in EventSet(l, n, DOMAIN c.mint_txs, BurnOutputs(c))
    BY <1>1, EventsNext
  <2>2. CASE o \in Events(l, n)
    <3>1. o[1] \in 1 .. n
      BY <1>0, <2>2, EventShape
    <3>2. o \in E
      BY <1>2, <2>2, EventSetMeans
    <3> QED
      BY <1>1, <1>6, <3>1, <3>2 DEF Before
  <2>3. CASE \E i \in DOMAIN c.mint_txs : o = <<k, 0, i>>
    <3>1. o[1] = k /\ o[2] = 0
      BY <2>3
    <3>2. o \in E
      BY <1>1, <1>2, <2>3, EventSetMeans
    <3> QED
      BY <1>6, <3>1, <3>2 DEF Before
  <2>4. CASE \E i \in BurnOutputs(c) : o = <<k, 1, i>>
    <3>1. PICK i \in BurnOutputs(c) : o = <<k, 1, i>>
      BY <2>4
    <3>2. o[1] = k /\ o[2] = 1 /\ o[3] = i /\ i \in Nat
      BY <1>1, <3>1, EventShape DEF IsEvent
    <3>3. o \notin Events(l, n)
      <4> SUFFICES ASSUME o \in Events(l, n) PROVE FALSE
        OBVIOUS
      <4>1. o[1] \in 1 .. n
        BY <1>0, EventShape
      <4> QED
        BY <1>1, <3>2, <4>1
    <3>4. o \in E <=> \E j \in B : o = <<k, 1, j>>
      BY <1>1, <1>2, <3>2, <3>3, EventSetMeans
    <3>5. o \in E <=> i < pos
      BY <1>1, <3>1, <3>4
    <3>6. Before(o, x) <=> i < pos
      BY <1>6, <3>2 DEF Before
    <3> QED
      BY <1>6, <3>2, <3>5, <3>6
  <2> QED
    BY <1>1, <2>1, <2>2, <2>3, <2>4, EventSetMeans
<1>8. x \notin E /\ (\A e \in E : Before(e, x)) /\ {o \in Events(l, x[1]) : Before(o, x)} = E
  BY <1>4, <1>5, <1>6, <1>7
<1>9. EventSet(l, n, M, B2) = E \cup {x}
  BY <1>2 DEF EventSet
<1>10. EventItem(l, x) = c.outputs[pos]
  BY <1>1, <1>6 DEF EventItem
<1>11. NextEvent(l, E, x)
  BY <1>4, <1>6, <1>8 DEF NextEvent
<1>h. BurnHistory(l, n, B) = E /\ BurnHistory(l, n, B2) = EventSet(l, n, M, B2)
  BY ONLY <1>c, <1>2 DEF BurnHistory
<1>12. NextEvent(l, BurnHistory(l, n, B), x) /\ BurnHistory(l, n, B2) = BurnHistory(l, n, B) \cup {x}
  BY ONLY <1>c, <1>h, <1>9, <1>11
<1> QED
  BY ONLY <1>c, <1>6, <1>10, <1>12

\* A part of a history that fits fits.
LEMMA FitsPart ==
  ASSUME NEW l, NEW U, IsHistory(l, U), Fits(l, U), NEW E \in SUBSET U
  PROVE  Fits(l, E)
<1> SUFFICES ASSUME NEW t \in Tokens
             PROVE  SumOfEvents(l, MintsOf(E), t) <= MaxU64
  BY DEF Fits, MintsOf
<1>1. SumOfEvents(l, MintsOf(U), t) <= MaxU64
  BY DEF Fits, MintsOf
<1>2. U \in SUBSET U
  OBVIOUS
<1>3. /\ SumOfEvents(l, MintsOf(E), t) \in Int
      /\ SumOfEvents(l, MintsOf(E), t) <= SumOfEvents(l, MintsOf(U), t)
  BY EventSums
<1>4. SumOfEvents(l, MintsOf(U), t) \in Int
  BY <1>2, EventSums
<1> QED
  BY <1>1, <1>3, <1>4, DbAssumption

\* The balance of a history that fits is a u64.
LEMMA BalanceFits ==
  ASSUME NEW l, NEW E, IsHistory(l, E), Fits(l, E), NEW t \in Tokens
  PROVE  LargestSuffixSum(l, E, t) \in 0 .. MaxU64
<1>1. SumOfEvents(l, MintsOf(E), t) <= MaxU64
  BY DEF Fits, MintsOf
<1>2. E \in SUBSET E
  OBVIOUS
<1>3. SumOfEvents(l, MintsOf(E), t) \in Int
  BY <1>2, EventSums
<1>4. LargestSuffixSum(l, E, t) \in Nat
  BY LargestIs
<1>5. LargestSuffixSum(l, E, t) <= SumOfEvents(l, MintsOf(E), t)
  BY LargestIsMinted
<1> QED
  BY <1>1, <1>3, <1>4, <1>5, DbAssumption

\* The balance map holds the balances of a history.
Holds(bal, l, E) == \A t \in Tokens : bal[t] = LargestSuffixSum(l, E, t)

\* What the next event does to the balance of a token, and whether it
\* overdraws.
LEMMA NextBalance ==
  ASSUME NEW l, NEW E, NEW x, NextEvent(l, E, x), NEW t, NEW U, U = E \cup {x}
  PROVE  /\ IsHistory(l, U)
         /\ EventItem(l, x).token_id # t =>
              LargestSuffixSum(l, U, t) = LargestSuffixSum(l, E, t)
         /\ EventItem(l, x).token_id = t /\ x[2] = 0 =>
              /\ LargestSuffixSum(l, U, t)
                   = LargestSuffixSum(l, E, t) + EventItem(l, x).amount
              /\ ~Overdraws(l, x)
         /\ EventItem(l, x).token_id = t /\ x[2] = 1 =>
              /\ LargestSuffixSum(l, U, t)
                   = IF EventItem(l, x).amount > LargestSuffixSum(l, E, t) THEN 0
                     ELSE LargestSuffixSum(l, E, t) - EventItem(l, x).amount
              /\ Overdraws(l, x) <=> EventItem(l, x).amount > LargestSuffixSum(l, E, t)
<1>1. /\ IsHistory(l, E) /\ IsEvent(l, x) /\ x \notin E /\ \A e \in E : Before(e, x)
      /\ {o \in Events(l, x[1]) : Before(o, x)} = E
  BY DEF NextEvent
<1>2. PICK a \in Nat, k \in Nat : a = EventItem(l, x).amount /\ k = LargestSuffixSum(l, E, t)
  BY <1>1, LargestIs DEF IsEvent
<1>3. PICK w \in Int : w = SignedAmount(l, x, t)
  BY <1>1, SignedAmounts
<1>4. LargestSuffixSum(l, U, t) = IF k + w > 0 THEN k + w ELSE 0
  BY <1>1, <1>2, <1>3, LargestStep
<1>5. w = IF EventItem(l, x).token_id # t THEN 0 ELSE IF x[2] = 0 THEN a ELSE -a
  BY <1>2, <1>3 DEF SignedAmount
<1>6. EventItem(l, x).token_id = t => (Overdraws(l, x) <=> k + w < 0)
  BY <1>1, <1>2, <1>3 DEF Overdraws
<1>7. IsHistory(l, U)
  BY <1>1, EventAdd
<1> QED
  BY <1>2, <1>4, <1>5, <1>6, <1>7

\* *mint_balance += amount is right, and does not wrap, as long as the mints
\* fit into a u64.
LEMMA AccountsMint ==
  ASSUME NEW l, NEW E, NEW x, NextEvent(l, E, x), x[2] = 0, Fits(l, E \cup {x}),
         NEW bal \in BalanceMaps, Holds(bal, l, E)
  PROVE  Holds(mint_balance(bal, EventItem(l, x)), l, E \cup {x}) /\ ~Overdraws(l, x)
<1>1. PICK tk, a, U : /\ tk \in Tokens /\ tk = EventItem(l, x).token_id
                      /\ a = EventItem(l, x).amount /\ U = E \cup {x}
  BY DEF NextEvent
<1>2. a \in Nat
  BY <1>1 DEF NextEvent, IsEvent
<1>3. PICK b2 : b2 = mint_balance(bal, EventItem(l, x))
  OBVIOUS
<1>4. /\ b2[tk] = WrapU64(bal[tk] + a)
      /\ \A t \in Tokens : t # tk => b2[t] = bal[t]
  BY <1>1, <1>3 DEF mint_balance, BalanceMaps
<1>5. IsHistory(l, U) /\ ~Overdraws(l, x)
  BY <1>1, NextBalance
<1>6. bal[tk] + a = LargestSuffixSum(l, U, tk)
  BY <1>1, NextBalance DEF Holds
<1>7. bal[tk] + a \in 0 .. MaxU64
  BY <1>1, <1>5, <1>6, BalanceFits
<1>8. WrapU64(bal[tk] + a) = bal[tk] + a
  BY <1>7, DbAssumption DEF WrapU64
<1>9. \A t \in Tokens : t # tk => LargestSuffixSum(l, U, t) = bal[t]
  BY <1>1, NextBalance DEF Holds
<1>10. Holds(b2, l, U)
  BY <1>4, <1>6, <1>8, <1>9 DEF Holds
<1> QED
  BY <1>1, <1>3, <1>5, <1>10

\* The saturating subtraction is right, and a burn overdraws exactly when it
\* exceeds the balance.
LEMMA AccountsBurn ==
  ASSUME NEW l, NEW E, NEW x, NextEvent(l, E, x), x[2] = 1,
         NEW bal \in BalanceMaps, Holds(bal, l, E)
  PROVE  /\ Holds(burn_balance(bal, EventItem(l, x)), l, E \cup {x})
         /\ Overdraws(l, x) <=> EventItem(l, x).amount > bal[EventItem(l, x).token_id]
<1>1. PICK tk, a, U : /\ tk \in Tokens /\ tk = EventItem(l, x).token_id
                      /\ a = EventItem(l, x).amount /\ U = E \cup {x}
  BY DEF NextEvent
<1>2. PICK b2 : b2 = burn_balance(bal, EventItem(l, x))
  OBVIOUS
<1>3. /\ b2[tk] = IF a > bal[tk] THEN 0 ELSE bal[tk] - a
      /\ \A t \in Tokens : t # tk => b2[t] = bal[t]
  BY <1>1, <1>2 DEF burn_balance, BalanceMaps
<1>4. /\ LargestSuffixSum(l, U, tk) = IF a > bal[tk] THEN 0 ELSE bal[tk] - a
      /\ Overdraws(l, x) <=> a > bal[tk]
  BY <1>1, NextBalance DEF Holds
<1>5. \A t \in Tokens : t # tk => LargestSuffixSum(l, U, t) = bal[t]
  BY <1>1, NextBalance DEF Holds
<1>6. Holds(b2, l, U)
  BY <1>3, <1>4, <1>5 DEF Holds
<1> QED
  BY <1>1, <1>2, <1>4, <1>6

\* The count of overdrafts.
OverdraftsOf(l, E) == Cardinality({e \in E : Overdraws(l, e)})

\* The count moves with the event.
LEMMA OverdraftsAdd ==
  ASSUME NEW l, NEW E, NEW x, IsFiniteSet(E), x \notin E
  PROVE  /\ OverdraftsOf(l, E) \in Nat
         /\ Overdraws(l, x) => OverdraftsOf(l, E \cup {x}) = OverdraftsOf(l, E) + 1
         /\ ~Overdraws(l, x) => OverdraftsOf(l, E \cup {x}) = OverdraftsOf(l, E)
<1>1. PICK A, A2 : /\ A = {e \in E : Overdraws(l, e)}
                   /\ A2 = {e \in E \cup {x} : Overdraws(l, e)}
  OBVIOUS
<1>2. IsFiniteSet(A) /\ x \notin A
  BY <1>1, FS_Subset
<1>3. Cardinality(A) \in Nat /\ Cardinality(A \cup {x}) = Cardinality(A) + 1
  BY <1>2, FS_AddElement, FS_CardinalityType
<1>4. IF Overdraws(l, x) THEN A2 = A \cup {x} ELSE A2 = A
  BY <1>1
<1> QED
  BY <1>1, <1>3, <1>4 DEF OverdraftsOf

----------------------------------------------------------------------------
(* The balances of a database.                                             *)

RowsHold(d, l) == \A r \in d.block_balance : Holds(r.balances, l, Events(l, r.block_index + 1))

\* d and the balance map bal are right for the history E.
Accounts(d, bal, l, E) ==
  Fits(l, E) => /\ RowsHold(d, l) /\ Holds(bal, l, E)
                /\ d.counters["num_burns_exceeding_balance"] = OverdraftsOf(l, E)

\* The invariant, in these words.
LEMMA BalancesMean ==
  ASSUME NEW d, NEW l
  PROVE  /\ \A n : BalancesOf(d, l, n) <=>
              (Fits(l, Events(l, n)) =>
                 /\ RowsHold(d, l)
                 /\ d.counters["num_burns_exceeding_balance"] = OverdraftsOf(l, Events(l, n)))
         /\ \A s : s.block_index \in Nat =>
              (PartBalances(s, d, l) <=>
                 Accounts(d, s.bal, l, EventSet(l, s.block_index, StoredMints(s, l[s.block_index + 1]),
                                                StoredBurns(s, l[s.block_index + 1]))))
<1>1. ASSUME NEW n
      PROVE  BalancesOf(d, l, n) <=>
              (Fits(l, Events(l, n)) =>
                 /\ RowsHold(d, l)
                 /\ d.counters["num_burns_exceeding_balance"] = OverdraftsOf(l, Events(l, n)))
  BY DEF BalancesOf, RowsHold, Holds, OverdraftsOf
<1>2. ASSUME NEW s, s.block_index \in Nat
      PROVE  PartBalances(s, d, l) <=>
                 Accounts(d, s.bal, l, EventSet(l, s.block_index, StoredMints(s, l[s.block_index + 1]),
                                                StoredBurns(s, l[s.block_index + 1])))
  <2>1. PICK E, E2 : /\ E = EventsSoFar(s, l)
                     /\ E2 = EventSet(l, s.block_index, StoredMints(s, l[s.block_index + 1]),
                                                StoredBurns(s, l[s.block_index + 1]))
    OBVIOUS
  <2>n. PICK n \in Nat : n = s.block_index
    BY <1>2
  <2>2. PICK b \in Nat : b = s.block_index + 1 /\ n = b - 1
    BY <2>n
  <2>3. E = E2
    <3>1. E = Events(l, n) \cup {<<b, 0, i>> : i \in StoredMints(s, l[b])}
                \cup {<<b, 1, i>> : i \in StoredBurns(s, l[b])}
      BY <2>1, <2>n, <2>2 DEF EventsSoFar
    <3>2. E2 = Events(l, n) \cup {<<b, 0, i>> : i \in StoredMints(s, l[b])}
                 \cup {<<b, 1, i>> : i \in StoredBurns(s, l[b])}
      BY <2>1, <2>n, <2>2 DEF EventSet
    <3> QED
      BY <3>1, <3>2
  <2>4. PartBalances(s, d, l) <=> Accounts(d, s.bal, l, E)
    BY <2>1 DEF PartBalances, Accounts, RowsHold, Holds, OverdraftsOf
  <2> QED
    BY <2>1, <2>3, <2>4
<1> QED
  BY <1>1, <1>2

ScanHistory(s, d, l) ==
  IF s.pc \in {"mint_txs", "burns"} THEN PartBalances(s, d, l)
  ELSE BalancesOf(d, l, d.counters["num_blocks_synced"])

\* The balances depend on block_balance and two counters only.
LEMMA BalancesFrame ==
  ASSUME NEW d, NEW d2, NEW l, d2.block_balance = d.block_balance,
         d2.counters["num_blocks_synced"] = d.counters["num_blocks_synced"],
         d2.counters["num_burns_exceeding_balance"] = d.counters["num_burns_exceeding_balance"],
         BalancesOf(d, l, d.counters["num_blocks_synced"])
  PROVE  BalancesOf(d2, l, d2.counters["num_blocks_synced"])
  BY DEF BalancesOf

\* The row of a block gives its balances.
LEMMA LoadsPrevious ==
  ASSUME NEW d, NEW l, NEW n \in Nat, n # 0, RowsHold(d, l),
         {r.block_index : r \in d.block_balance} = 0 .. n - 1
  PROVE  Holds(get_balances_for_block(d, n - 1), l, Events(l, n))
<1>1. PICK k \in Nat : k = n - 1 /\ k + 1 = n
  OBVIOUS
<1>2. PICK R : R = {r \in d.block_balance : r.block_index = k}
  OBVIOUS
<1>3. R # {}
  <2>1. k \in {r.block_index : r \in d.block_balance}
    BY <1>1
  <2> QED
    BY <1>2, <2>1
<1>4. PICK r : r = CHOOSE o \in R : TRUE
  OBVIOUS
<1>5. r \in R
  BY <1>3, <1>4
<1>6. get_balances_for_block(d, n - 1) = r.balances
  BY <1>1, <1>2, <1>3, <1>4 DEF get_balances_for_block
<1>7. r \in d.block_balance /\ r.block_index + 1 = n
  BY <1>1, <1>2, <1>5
<1> QED
  BY <1>6, <1>7 DEF RowsHold

\* The balance map starts from the previous block's.
LEMMA ConfigsDoneHistory ==
  ASSUME NEW s, s.block_index \in Nat, NEW s2, NEW d, NEW d2, NEW l,
         ConfigsDone(s, s2, d, d2, l[s.block_index + 1]), l[s.block_index + 1] \in BlockContents,
         {r.block_index : r \in d.block_balance} = 0 .. d.counters["num_blocks_synced"] - 1,
         s.block_index = d.counters["num_blocks_synced"], ScanHistory(s, d, l)
  PROVE  ScanHistory(s2, d2, l)
<1>1. PICK n \in Nat, c \in BlockContents : n = s.block_index /\ c = l[n + 1]
  OBVIOUS
<1>2. /\ s.pc = "mint_config_txs" /\ s2.pc = "mint_txs" /\ s2.pos = 1 /\ s2.block_index = n
      /\ d2 = d /\ s2.bal = IF n = 0 THEN ZeroBalances ELSE get_balances_for_block(d, n - 1)
  BY <1>1 DEF ConfigsDone, ScanGoes, LoadsBalances
<1>3. StoredMints(s2, c) = {} /\ StoredBurns(s2, c) = {}
  <2>1. c.mint_txs \in Seq(CoreMintTxs)
    BY DEF BlockContents
  <2>2. \A i \in DOMAIN c.mint_txs : ~(i < 1)
    BY <2>1
  <2> QED
    BY <1>2, <2>2 DEF StoredMints, StoredBurns, AfterMints, AfterFinish
<1>4. PICK E : E = Events(l, n)
  OBVIOUS
<1>5. EventSet(l, n, {}, {}) = E
  BY <1>4 DEF EventSet
<1>6. SUFFICES ASSUME Fits(l, E)
               PROVE  /\ RowsHold(d, l) /\ Holds(s2.bal, l, E)
                      /\ d.counters["num_burns_exceeding_balance"] = OverdraftsOf(l, E)
  <2>1. Accounts(d, s2.bal, l, E)
    BY <1>6 DEF Accounts
  <2>2. PartBalances(s2, d, l)
    BY <1>1, <1>2, <1>3, <1>5, <2>1, BalancesMean
  <2> QED
    BY <1>2, <2>2 DEF ScanHistory
<1>7. RowsHold(d, l) /\ d.counters["num_burns_exceeding_balance"] = OverdraftsOf(l, E)
  <2>1. BalancesOf(d, l, n)
    BY <1>1, <1>2 DEF ScanHistory
  <2> QED
    BY <1>4, <1>6, <2>1, BalancesMean
<1>8. CASE n = 0
  <2>1. E = {}
    BY <1>4, <1>8, EventsNext
  <2> QED
    BY <1>2, <1>7, <1>8, <2>1, NoEvents DEF Holds, ZeroBalances
<1>9. CASE n # 0
  <2>1. Holds(get_balances_for_block(d, n - 1), l, E)
    BY <1>1, <1>4, <1>7, <1>9, LoadsPrevious
  <2> QED
    BY <1>2, <1>7, <1>9, <2>1
<1> QED
  BY <1>8, <1>9

\* One event is accounted.
LEMMA MintAccounted ==
  ASSUME NEW d, NEW d2, NEW l, NEW E, NEW x, NextEvent(l, E, x), x[2] = 0,
         NEW bal \in BalanceMaps, NEW U, U = E \cup {x}, Accounts(d, bal, l, E),
         d2.block_balance = d.block_balance,
         d2.counters["num_burns_exceeding_balance"] = d.counters["num_burns_exceeding_balance"]
  PROVE  Accounts(d2, mint_balance(bal, EventItem(l, x)), l, U)
<1> SUFFICES ASSUME Fits(l, U)
             PROVE  /\ RowsHold(d2, l) /\ Holds(mint_balance(bal, EventItem(l, x)), l, U)
                    /\ d2.counters["num_burns_exceeding_balance"] = OverdraftsOf(l, U)
  BY DEF Accounts
<1>1. IsHistory(l, U) /\ E \in SUBSET U /\ IsFiniteSet(E) /\ x \notin E
  <2>1. PICK t : t = EventItem(l, x).token_id
    OBVIOUS
  <2> QED
    BY NextBalance DEF NextEvent, IsHistory
<1>2. Fits(l, E)
  BY <1>1, FitsPart
<1>3. /\ RowsHold(d, l) /\ Holds(bal, l, E)
      /\ d.counters["num_burns_exceeding_balance"] = OverdraftsOf(l, E)
  BY <1>2 DEF Accounts
<1>4. Holds(mint_balance(bal, EventItem(l, x)), l, U) /\ ~Overdraws(l, x)
  BY <1>3, AccountsMint
<1>5. OverdraftsOf(l, U) = OverdraftsOf(l, E)
  BY <1>1, <1>4, OverdraftsAdd
<1> QED
  BY <1>3, <1>4, <1>5 DEF RowsHold

\* The same for a burn, which is counted if it overdraws.
LEMMA BurnAccounted ==
  ASSUME NEW d, NEW d2, NEW l, NEW E, NEW x, NextEvent(l, E, x), x[2] = 1,
         NEW bal \in BalanceMaps, NEW U, U = E \cup {x}, Accounts(d, bal, l, E),
         d2.block_balance = d.block_balance, CountsOverdraft(d, d2, bal, EventItem(l, x))
  PROVE  Accounts(d2, burn_balance(bal, EventItem(l, x)), l, U)
<1> SUFFICES ASSUME Fits(l, U)
             PROVE  /\ RowsHold(d2, l) /\ Holds(burn_balance(bal, EventItem(l, x)), l, U)
                    /\ d2.counters["num_burns_exceeding_balance"] = OverdraftsOf(l, U)
  BY DEF Accounts
<1>1. IsHistory(l, U) /\ E \in SUBSET U /\ IsFiniteSet(E) /\ x \notin E
  <2>1. PICK t : t = EventItem(l, x).token_id
    OBVIOUS
  <2> QED
    BY NextBalance DEF NextEvent, IsHistory
<1>2. Fits(l, E)
  BY <1>1, FitsPart
<1>3. /\ RowsHold(d, l) /\ Holds(bal, l, E)
      /\ d.counters["num_burns_exceeding_balance"] = OverdraftsOf(l, E)
  BY <1>2 DEF Accounts
<1>4. /\ Holds(burn_balance(bal, EventItem(l, x)), l, U)
      /\ Overdraws(l, x) <=> EventItem(l, x).amount > bal[EventItem(l, x).token_id]
  BY <1>3, AccountsBurn
<1>5. d2.counters["num_burns_exceeding_balance"]
        = IF Overdraws(l, x) THEN d.counters["num_burns_exceeding_balance"] + 1
          ELSE d.counters["num_burns_exceeding_balance"]
  BY <1>4 DEF CountsOverdraft, CountsOne, CounterNames
<1>6. OverdraftsOf(l, U) = IF Overdraws(l, x) THEN OverdraftsOf(l, E) + 1 ELSE OverdraftsOf(l, E)
  BY <1>1, OverdraftsAdd
<1> QED
  BY <1>3, <1>4, <1>5, <1>6 DEF RowsHold

\* StoreMintTx.
LEMMA MintMoveHistory ==
  ASSUME NEW s, s.block_index \in Nat, s.bal \in BalanceMaps, s.pos \in Nat \ {0},
         NEW s2, NEW d, NEW d2,
         NEW l, IsLedger(l), s.block_index < Len(l), l[s.block_index + 1] \in BlockContents,
         MintMove(s, s2, d, d2, l[s.block_index + 1]), ScanHistory(s, d, l)
  PROVE  ScanHistory(s2, d2, l)
<1>1. PICK n, c, pos : /\ n \in Nat /\ c \in BlockContents
                       /\ n = s.block_index /\ c = l[n + 1] /\ pos = s.pos
  OBVIOUS
<1>2. /\ s.pc = "mint_txs" /\ s2.pc = "mint_txs" /\ s2.block_index = n
      /\ pos \in DOMAIN c.mint_txs /\ s2.bal = mint_balance(s.bal, c.mint_txs[pos])
      /\ StoresMint(d, d2, n, c.mint_txs[pos]) /\ MintMove(s, s2, d, d2, c)
  BY <1>1 DEF MintMove, ScanGoes
<1>3. /\ StoredMints(s2, c) = StoredMints(s, c) \cup {pos}
      /\ StoredBurns(s2, c) = StoredBurns(s, c)
  <2>1. ScanMove(s, s2, d, d2, c) /\ ~BurnMove(s, s2, d, d2, c)
    BY <1>2 DEF ScanMove, BurnMove
  <2> QED
    BY <1>1, <1>2, <2>1, StoredMintsMove, StoredBurnsMove
<1>4. PICK M, M2, N : M = StoredMints(s, c) /\ M2 = M \cup {pos} /\ N = {}
  OBVIOUS
<1>5. M = {i \in DOMAIN c.mint_txs : i < pos} /\ StoredBurns(s, c) = N
  BY <1>1, <1>2, <1>4 DEF StoredMints, StoredBurns, AfterMints, AfterFinish
<1>6. PICK E, U, x : E = EventSet(l, n, M, N) /\ U = EventSet(l, n, M2, N) /\ x = EventId(n, 0, pos)
  OBVIOUS
<1>7. /\ NextEvent(l, E, x) /\ U = E \cup {x} /\ x[2] = 0
      /\ EventItem(l, x) = c.mint_txs[pos]
  <2>1. c = BlockAfter(l, n) /\ M = MintsBefore(c, pos) /\ n < Len(l)
    BY <1>1, <1>5 DEF BlockAfter, MintsBefore
  <2> QED
    BY <1>1, <1>2, <1>4, <1>6, <2>1, MintEvent
<1>8. Accounts(d, s.bal, l, E)
  BY <1>1, <1>2, <1>4, <1>5, <1>6, BalancesMean DEF ScanHistory
<1>9. /\ d2.block_balance = d.block_balance
      /\ d2.counters["num_burns_exceeding_balance"] = d.counters["num_burns_exceeding_balance"]
  BY <1>2 DEF StoresMint, Keeps, AllBut, Fields, CountsOne, CounterNames
<1>10. Accounts(d2, s2.bal, l, U)
  BY <1>1, <1>2, <1>7, <1>8, <1>9, MintAccounted
<1>11. PartBalances(s2, d2, l)
  BY <1>1, <1>2, <1>3, <1>4, <1>5, <1>6, <1>10, BalancesMean
<1> QED
  BY <1>2, <1>11 DEF ScanHistory

\* StoreBurnTxOut.
LEMMA BurnMoveHistory ==
  ASSUME NEW s, s.block_index \in Nat, s.bal \in BalanceMaps, s.pos \in Nat \ {0},
         NEW s2, NEW d, NEW d2,
         NEW l, IsLedger(l), s.block_index < Len(l), l[s.block_index + 1] \in BlockContents,
         BurnMove(s, s2, d, d2, l[s.block_index + 1]), ScanHistory(s, d, l)
  PROVE  ScanHistory(s2, d2, l)
<1>1. PICK n, c, pos : /\ n \in Nat /\ c \in BlockContents
                       /\ n = s.block_index /\ c = l[n + 1] /\ pos = s.pos
  OBVIOUS
<1>2. /\ s.pc = "burns" /\ s2.pc = "burns" /\ s2.block_index = n
      /\ pos \in BurnOutputs(c) /\ s2.bal = burn_balance(s.bal, c.outputs[pos])
      /\ StoresBurn(d, d2, n, c.outputs[pos]) /\ BurnMove(s, s2, d, d2, c)
      /\ CountsOverdraft(d, d2, s.bal, c.outputs[pos])
  BY <1>1 DEF BurnMove, ScanGoes, BurnOutputs
<1>3. /\ StoredMints(s2, c) = StoredMints(s, c)
      /\ StoredBurns(s2, c) = StoredBurns(s, c) \cup {pos}
  <2>1. ScanMove(s, s2, d, d2, c) /\ ~MintMove(s, s2, d, d2, c)
    BY <1>2 DEF ScanMove, MintMove
  <2> QED
    BY <1>1, <1>2, <2>1, StoredMintsMove, StoredBurnsMove
<1>4. PICK M, B, B2 : M = StoredMints(s, c) /\ B = StoredBurns(s, c) /\ B2 = B \cup {pos}
  OBVIOUS
<1>5. M = DOMAIN c.mint_txs /\ B = {i \in BurnOutputs(c) : i < pos}
  BY <1>1, <1>2, <1>4 DEF StoredMints, StoredBurns, AfterMints, AfterFinish, BurnOutputs
<1>6. PICK E, U, x : E = EventSet(l, n, M, B) /\ U = EventSet(l, n, M, B2) /\ x = EventId(n, 1, pos)
  OBVIOUS
<1>7. /\ NextEvent(l, E, x) /\ U = E \cup {x} /\ x[2] = 1
      /\ EventItem(l, x) = c.outputs[pos]
  <2>1. c = BlockAfter(l, n) /\ B = BurnsBefore(c, pos) /\ n < Len(l)
    BY <1>1, <1>5 DEF BlockAfter, BurnsBefore
  <2>2. pos \in BurnOutputs(BlockAfter(l, n)) /\ M = DOMAIN BlockAfter(l, n).mint_txs
    BY <1>2, <1>5, <2>1
  <2>3. E = BurnHistory(l, n, B) /\ U = BurnHistory(l, n, B2)
    BY <1>6, <2>2 DEF BurnHistory
  <2> QED
    BY <1>1, <1>4, <1>6, <2>1, <2>2, <2>3, BurnEvent
<1>8. Accounts(d, s.bal, l, E)
  BY <1>1, <1>2, <1>4, <1>6, BalancesMean DEF ScanHistory
<1>9. d2.block_balance = d.block_balance
  BY <1>2 DEF StoresBurn, Keeps, AllBut, Fields
<1>10. Accounts(d2, s2.bal, l, U)
  BY <1>2, <1>7, <1>8, <1>9, BurnAccounted
<1>11. PartBalances(s2, d2, l)
  BY <1>1, <1>2, <1>3, <1>4, <1>6, <1>10, BalancesMean
<1> QED
  BY <1>2, <1>11 DEF ScanHistory

\* FinishBlock.
LEMMA FinishMoveHistory ==
  ASSUME NEW s, s.block_index \in Nat, NEW s2, NEW d \in Databases, NEW d2,
         NEW l, s.block_index = d.counters["num_blocks_synced"],
         FinishMove(s, s2, d, d2, l[s.block_index + 1]), ScanHistory(s, d, l)
  PROVE  ScanHistory(s2, d2, l)
<1>1. PICK n, k, c : /\ n \in Nat /\ k \in Nat /\ n = s.block_index
                     /\ k = n + 1 /\ c = l[k]
  OBVIOUS
<1>2. /\ s.pc = "burns" /\ s2.pc \notin {"mint_txs", "burns"}
      /\ \A i \in DOMAIN c.outputs : i < s.pos
      /\ FinishesBlock(d, d2, n) /\ RecordsBalances(d, d2, n, s.bal)
  BY <1>1 DEF FinishMove, ScanGoes
<1>3. StoredMints(s, c) = DOMAIN c.mint_txs /\ StoredBurns(s, c) = BurnOutputs(c)
  BY <1>2 DEF StoredMints, StoredBurns, AfterMints, AfterFinish, BurnOutputs
<1>4. PICK E : E = Events(l, k)
  OBVIOUS
<1>5. EventSet(l, n, StoredMints(s, c), StoredBurns(s, c)) = E
  BY <1>1, <1>3, <1>4, EventsNext
<1>6. Accounts(d, s.bal, l, E)
  BY <1>1, <1>2, <1>5, BalancesMean DEF ScanHistory
<1>7. /\ d2.counters["num_blocks_synced"] = k
      /\ d2.counters["num_burns_exceeding_balance"] = d.counters["num_burns_exceeding_balance"]
  BY <1>1, <1>2 DEF FinishesBlock, CountsOne, CounterNames
<1>8. PICK row : row = [block_index |-> n, balances |-> s.bal]
  OBVIOUS
<1>9. row.block_index + 1 = k /\ row.balances = s.bal /\ d2.block_balance = d.block_balance \cup {row}
  BY <1>1, <1>2, <1>8 DEF RecordsBalances
<1>10. Fits(l, E) => RowsHold(d2, l)
  BY <1>4, <1>6, <1>9 DEF Accounts, RowsHold
<1>11. BalancesOf(d2, l, k)
  BY <1>4, <1>6, <1>7, <1>10, BalancesMean DEF Accounts
<1> QED
  BY <1>2, <1>7, <1>11 DEF ScanHistory

\* A move of the main thread keeps its balances right.
LEMMA ScanMoveHistory ==
  ASSUME NEW s, s.block_index \in Nat, s.bal \in BalanceMaps, s.pos \in Nat \ {0},
         NEW s2, NEW d \in Databases, NEW d2,
         NEW l, IsLedger(l), s.block_index < Len(l), l[s.block_index + 1] \in BlockContents,
         ScanMove(s, s2, d, d2, l[s.block_index + 1]), ScanHistory(s, d, l),
         {r.block_index : r \in d.block_balance} = 0 .. d.counters["num_blocks_synced"] - 1,
         s.pc \in {"mint_config_txs", "mint_txs", "burns"} =>
           s.block_index = d.counters["num_blocks_synced"]
  PROVE  ScanHistory(s2, d2, l)
<1>1. PICK c \in BlockContents : c = l[s.block_index + 1] /\ ScanMove(s, s2, d, d2, c)
  OBVIOUS
<1>2. CASE ConfigMove(s, s2, d, d2, c)
  <2>1. /\ s.pc \notin {"mint_txs", "burns"} /\ s2.pc \notin {"mint_txs", "burns"}
        /\ d2.block_balance = d.block_balance /\ d2.counters = d.counters
    BY <1>2 DEF ConfigMove, ScanGoes, StoresConfig, Keeps, AllBut, Fields
  <2> QED
    BY <2>1, BalancesFrame DEF ScanHistory
<1>3. CASE ConfigsDone(s, s2, d, d2, c)
  <2>1. s.pc = "mint_config_txs"
    BY <1>3 DEF ConfigsDone
  <2> QED
    BY <1>1, <1>3, <2>1, ConfigsDoneHistory
<1>4. CASE MintMove(s, s2, d, d2, c)
  BY <1>1, <1>4, MintMoveHistory
<1>5. CASE BurnMove(s, s2, d, d2, c)
  BY <1>1, <1>5, BurnMoveHistory
<1>6. CASE FinishMove(s, s2, d, d2, c)
  <2>1. s.pc = "burns"
    BY <1>6 DEF FinishMove
  <2> QED
    BY <1>1, <1>6, <2>1, FinishMoveHistory
<1>7. CASE MintsDone(s, s2, d, d2, c) \/ (SkipMove(s, s2, d, d2, c) /\ s.pc = "burns")
  <2>1. /\ s.pc \in {"mint_txs", "burns"} /\ s2.pc \in {"mint_txs", "burns"}
        /\ s2.bal = s.bal /\ s2.block_index = s.block_index /\ d2 = d
    BY <1>7 DEF MintsDone, SkipMove, ScanGoes
  <2>2. ~MintMove(s, s2, d, d2, c) /\ ~BurnMove(s, s2, d, d2, c)
    BY <1>1, <1>7, PosInDomain DEF MintsDone, SkipMove, MintMove, BurnMove
  <2>3. StoredMints(s2, c) = StoredMints(s, c) /\ StoredBurns(s2, c) = StoredBurns(s, c)
    BY <1>1, <2>2, StoredMintsMove, StoredBurnsMove
  <2>4. PartBalances(s, d, l)
    BY <2>1 DEF ScanHistory
  <2>5. PartBalances(s2, d, l)
    BY <1>1, <2>1, <2>3, <2>4, BalancesMean
  <2> QED
    BY <2>1, <2>5 DEF ScanHistory
<1>8. CASE /\ ~ConfigMove(s, s2, d, d2, c) /\ ~ConfigsDone(s, s2, d, d2, c)
           /\ ~MintMove(s, s2, d, d2, c) /\ ~BurnMove(s, s2, d, d2, c) /\ ~FinishMove(s, s2, d, d2, c)
           /\ ~MintsDone(s, s2, d, d2, c) /\ ~(SkipMove(s, s2, d, d2, c) /\ s.pc = "burns")
  <2>1. s.pc \notin {"mint_txs", "burns"} /\ s2.pc \notin {"mint_txs", "burns"}
    BY <1>1, <1>8 DEF ScanMove, CheckMove, SkipMove, AuditMintMove, AuditMintsEnd, AuditBurnMove,
                      AuditBurnsEnd, ScanGoes
  <2>2. Keeps(d, d2, LedgerTables) /\ KeepsBlockCounters(d, d2)
    BY <1>1, <1>8, ScanMoveKeepsBlocks
  <2>3. /\ d2.block_balance = d.block_balance
        /\ d2.counters["num_blocks_synced"] = d.counters["num_blocks_synced"]
        /\ d2.counters["num_burns_exceeding_balance"] = d.counters["num_burns_exceeding_balance"]
    BY <2>2 DEF Keeps, LedgerTables, KeepsBlockCounters, BlockCounters
  <2> QED
    BY <2>1, <2>3, BalancesFrame DEF ScanHistory
<1> QED
  BY <1>2, <1>3, <1>4, <1>5, <1>6, <1>7, <1>8

----------------------------------------------------------------------------
(* The ledger grows.                                                       *)

\* l2 is l and perhaps more blocks.
Continues(l, l2) ==
  /\ IsLedger(l) /\ IsLedger(l2) /\ Len(l) <= Len(l2)
  /\ \A b \in 1 .. Len(l) : l2[b] = l[b]

\* The events of the older blocks stay what they are.
LEMMA EventsStay ==
  ASSUME NEW l, NEW l2, Continues(l, l2), NEW n \in Nat, n <= Len(l)
  PROVE  Events(l2, n) = Events(l, n)
<1>1. \A b \in 1 .. n : l2[b] = l[b]
  BY DEF Continues, IsLedger
<1>2. ASSUME NEW e PROVE e \in Events(l2, n) <=> e \in Events(l, n)
  <2>1. \A b \in 1 .. n : EventOf(l2, b, e) <=> EventOf(l, b, e)
    BY <1>1 DEF EventOf
  <2>2. e \in Events(l2, n) <=> \E b \in 1 .. n : EventOf(l2, b, e)
    BY EventsMean
  <2>3. e \in Events(l, n) <=> \E b \in 1 .. n : EventOf(l, b, e)
    BY EventsMean
  <2> QED
    BY <2>1, <2>2, <2>3
<1>3. PICK A, B : A = Events(l2, n) /\ B = Events(l, n)
  OBVIOUS
<1> QED
  BY <1>2, <1>3

\* So do their sums.
LEMMA SumsStay ==
  ASSUME NEW l, NEW l2, Continues(l, l2), NEW E \in SUBSET Events(l, Len(l)), NEW t
  PROVE  /\ \A e \in E : EventItem(l2, e) = EventItem(l, e)
         /\ SumOfEvents(l2, E, t) = SumOfEvents(l, E, t)
<1>1. ASSUME NEW e \in E PROVE EventItem(l2, e) = EventItem(l, e)
  <2>1. e[1] \in 1 .. Len(l)
    BY EventShape DEF Continues, IsLedger
  <2>2. l2[e[1]] = l[e[1]]
    BY <2>1 DEF Continues
  <2> QED
    BY <2>2 DEF EventItem
<1>2. \A e \in E : SignedAmount(l2, e, t) = SignedAmount(l, e, t)
  BY <1>1 DEF SignedAmount
<1>3. [e \in E |-> SignedAmount(l2, e, t)] = [e \in E |-> SignedAmount(l, e, t)]
  BY <1>2
<1> QED
  BY <1>1, <1>3 DEF SumOfEvents

\* And the balances and overdrafts.
LEMMA HistoryStays ==
  ASSUME NEW l, NEW l2, Continues(l, l2), NEW E \in SUBSET Events(l, Len(l))
  PROVE  /\ Fits(l2, E) <=> Fits(l, E)
         /\ \A t : LargestSuffixSum(l2, E, t) = LargestSuffixSum(l, E, t)
         /\ OverdraftsOf(l2, E) = OverdraftsOf(l, E)
<1>1. ASSUME NEW R \in SUBSET Events(l, Len(l)), NEW t
      PROVE  LargestSuffixSum(l2, R, t) = LargestSuffixSum(l, R, t)
  <2>1. ASSUME NEW e \in R
        PROVE  SumOfEvents(l2, Suffix(R, e), t) = SumOfEvents(l, Suffix(R, e), t)
    <3>1. Suffix(R, e) \in SUBSET Events(l, Len(l))
      BY DEF Suffix
    <3> QED
      BY <3>1, SumsStay
  <2>2. SuffixSums(l2, R, t) = SuffixSums(l, R, t)
    BY <2>1 DEF SuffixSums
  <2>3. /\ LargestSuffixSum(l2, R, t) = Max(SuffixSums(l2, R, t))
        /\ LargestSuffixSum(l, R, t) = Max(SuffixSums(l, R, t))
    BY DEF LargestSuffixSum, SuffixSums, Suffix
  <2> QED
    BY <2>2, <2>3
<1>2. Fits(l2, E) <=> Fits(l, E)
  <2>1. PICK M : M = MintsOf(E)
    OBVIOUS
  <2>2. M \in SUBSET Events(l, Len(l))
    BY <2>1 DEF MintsOf
  <2>3. \A t : SumOfEvents(l2, M, t) = SumOfEvents(l, M, t)
    BY <2>2, SumsStay
  <2> QED
    BY <2>1, <2>3 DEF Fits, MintsOf
<1>3. ASSUME NEW e \in E
      PROVE  Overdraws(l2, e) <=> Overdraws(l, e)
  <2>1. PICK n \in Nat : n = e[1] /\ n <= Len(l) /\ Len(l) \in Nat
    BY EventShape DEF Continues, IsLedger
  <2>2. Events(l2, n) = Events(l, n)
    BY <2>1, EventsStay
  <2>3. PICK R : R = {o \in Events(l, n) : Before(o, e)}
    OBVIOUS
  <2>4. R \in SUBSET Events(l, Len(l))
    <3> SUFFICES ASSUME NEW o \in R PROVE o \in Events(l, Len(l))
      OBVIOUS
    <3>1. \E b \in 1 .. n : EventOf(l, b, o)
      BY <2>3, EventsMean
    <3>2. \E b \in 1 .. Len(l) : EventOf(l, b, o)
      BY <2>1, <3>1
    <3> QED
      BY <3>2, EventsMean
  <2>5. EventItem(l2, e) = EventItem(l, e)
    BY SumsStay
  <2>6. \A t : SignedAmount(l2, e, t) = SignedAmount(l, e, t)
    BY <2>5 DEF SignedAmount
  <2>7. \A t : LargestSuffixSum(l2, R, t) = LargestSuffixSum(l, R, t)
    BY <1>1, <2>4
  <2>8. PICK t : t = EventItem(l, e).token_id
    OBVIOUS
  <2>9. Overdraws(l2, e) <=> LargestSuffixSum(l2, R, t) + SignedAmount(l2, e, t) < 0
    BY <2>1, <2>2, <2>3, <2>5, <2>8 DEF Overdraws
  <2>10. Overdraws(l, e) <=> LargestSuffixSum(l, R, t) + SignedAmount(l, e, t) < 0
    BY <2>1, <2>3, <2>8 DEF Overdraws
  <2> QED
    BY <2>6, <2>7, <2>9, <2>10
<1>4. OverdraftsOf(l2, E) = OverdraftsOf(l, E)
  <2>1. {e \in E : Overdraws(l2, e)} = {e \in E : Overdraws(l, e)}
    BY <1>3
  <2> QED
    BY <2>1 DEF OverdraftsOf
<1> QED
  BY <1>1, <1>2, <1>4

\* A prefix of the events, in the ledger that holds them.
LEMMA EventsWithin ==
  ASSUME NEW l, IsLedger(l), NEW n \in Nat
  PROVE  /\ n <= Len(l) => Events(l, n) \in SUBSET Events(l, Len(l))
         /\ n < Len(l) =>
              \A M \in SUBSET DOMAIN l[n + 1].mint_txs, B \in SUBSET BurnOutputs(l[n + 1]) :
                EventSet(l, n, M, B) \in SUBSET Events(l, Len(l))
<1>1. ASSUME NEW k \in Nat, k <= Len(l) PROVE Events(l, k) \in SUBSET Events(l, Len(l))
  <2> SUFFICES ASSUME NEW o \in Events(l, k) PROVE o \in Events(l, Len(l))
    OBVIOUS
  <2>1. \E b \in 1 .. k : EventOf(l, b, o)
    BY EventsMean
  <2>2. \E b \in 1 .. Len(l) : EventOf(l, b, o)
    BY <1>1, <2>1 DEF IsLedger
  <2> QED
    BY <2>2, EventsMean
<1>2. ASSUME n < Len(l), NEW M \in SUBSET DOMAIN l[n + 1].mint_txs,
             NEW B \in SUBSET BurnOutputs(l[n + 1])
      PROVE  EventSet(l, n, M, B) \in SUBSET Events(l, Len(l))
  <2>1. PICK k \in Nat : k = n + 1 /\ k <= Len(l)
    BY <1>2 DEF IsLedger
  <2>2. EventSet(l, n, M, B) \subseteq Events(l, k)
    BY <1>2, <2>1, HistoryOf
  <2> QED
    BY <1>1, <2>1, <2>2
<1> QED
  BY <1>1, <1>2

\* The balances stay right when the ledger grows.
LEMMA BalancesStay ==
  ASSUME NEW l, NEW l2, Continues(l, l2), NEW d \in Databases, Balanced(d, Len(l))
  PROVE  /\ BalancesOf(d, l, d.counters["num_blocks_synced"])
              => BalancesOf(d, l2, d.counters["num_blocks_synced"])
         /\ \A s : /\ s.block_index \in Nat /\ s.block_index < Len(l) /\ ScanHistory(s, d, l)
                   => ScanHistory(s, d, l2)
<1>0. IsLedger(l) /\ Len(l) \in Nat
  BY DEF Continues, IsLedger
<1>1. PICK n \in Nat : /\ n = d.counters["num_blocks_synced"] /\ n <= Len(l)
                       /\ {r.block_index : r \in d.block_balance} = 0 .. n - 1
  BY DEF Balanced
<1>2. PICK E : E = Events(l, n)
  OBVIOUS
<1>3. Events(l2, n) = E /\ E \in SUBSET Events(l, Len(l))
  BY <1>0, <1>1, <1>2, EventsStay, EventsWithin
<1>4. ASSUME RowsHold(d, l) PROVE RowsHold(d, l2)
  <2> SUFFICES ASSUME NEW r \in d.block_balance
               PROVE  Holds(r.balances, l2, Events(l2, r.block_index + 1))
    BY DEF RowsHold
  <2>1. r.block_index \in 0 .. n - 1
    BY <1>1
  <2>2. PICK k \in Nat : k = r.block_index + 1 /\ k <= Len(l)
    BY <1>0, <1>1, <2>1
  <2>3. PICK R : R = Events(l, k)
    OBVIOUS
  <2>4. Events(l2, k) = R /\ R \in SUBSET Events(l, Len(l))
    BY <1>0, <2>2, <2>3, EventsStay, EventsWithin
  <2>5. Holds(r.balances, l, R)
    BY <1>4, <2>2, <2>3 DEF RowsHold
  <2>6. \A t : LargestSuffixSum(l2, R, t) = LargestSuffixSum(l, R, t)
    BY <2>4, HistoryStays
  <2>7. Holds(r.balances, l2, R)
    BY <2>5, <2>6 DEF Holds
  <2> QED
    BY <2>2, <2>4, <2>7
<1>5. ASSUME BalancesOf(d, l, n) PROVE BalancesOf(d, l2, n)
  <2>1. Fits(l, E) => /\ RowsHold(d, l)
                      /\ d.counters["num_burns_exceeding_balance"] = OverdraftsOf(l, E)
    BY <1>2, <1>5, BalancesMean
  <2>2. (Fits(l2, E) <=> Fits(l, E)) /\ OverdraftsOf(l2, E) = OverdraftsOf(l, E)
    BY <1>3, HistoryStays
  <2>3. Fits(l2, E) => /\ RowsHold(d, l2)
                       /\ d.counters["num_burns_exceeding_balance"] = OverdraftsOf(l2, E)
    BY <1>4, <2>1, <2>2
  <2> QED
    BY <1>3, <2>3, BalancesMean
<1>6. ASSUME NEW s, s.block_index \in Nat, s.block_index < Len(l), PartBalances(s, d, l)
      PROVE  PartBalances(s, d, l2)
  <2>1. PICK k, c : k \in Nat /\ k = s.block_index /\ c = l[k + 1]
    BY <1>6
  <2>2. l2[k + 1] = c
    BY <1>0, <1>6, <2>1 DEF Continues
  <2>3. PICK M, B : M = StoredMints(s, c) /\ B = StoredBurns(s, c)
    OBVIOUS
  <2>4. M \in SUBSET DOMAIN c.mint_txs /\ B \in SUBSET BurnOutputs(c)
    BY <2>3 DEF StoredMints, StoredBurns, BurnOutputs
  <2>5. PICK R : R = EventSet(l, k, M, B)
    OBVIOUS
  <2>6. R \in SUBSET Events(l, Len(l))
    BY <1>0, <1>6, <2>1, <2>4, <2>5, EventsWithin
  <2>7. EventSet(l2, k, M, B) = R
    <3>1. k <= Len(l)
      BY <1>0, <1>6, <2>1
    <3>2. Events(l2, k) = Events(l, k)
      BY <2>1, <3>1, EventsStay
    <3> QED
      BY <2>5, <3>2 DEF EventSet
  <2>8. Accounts(d, s.bal, l, R)
    BY <1>6, <2>1, <2>3, <2>5, BalancesMean
  <2>9. /\ Fits(l2, R) <=> Fits(l, R)
        /\ \A t : LargestSuffixSum(l2, R, t) = LargestSuffixSum(l, R, t)
        /\ OverdraftsOf(l2, R) = OverdraftsOf(l, R)
    BY <2>6, HistoryStays
  <2>10. Accounts(d, s.bal, l2, R)
    BY <1>4, <2>8, <2>9 DEF Accounts, Holds
  <2> QED
    BY <1>6, <2>1, <2>2, <2>3, <2>7, <2>10, BalancesMean
<1> QED
  BY <1>1, <1>5, <1>6 DEF ScanHistory

\* A step of the auditor.
LEMMA NextHistoryInv ==
  ASSUME IInv, IInv', [Next]_vars, PrefixInv, HistoryInv
  PROVE  HistoryInv'
<1>1. db \in Databases /\ wdb \in Databases
  BY TypeFacts
<1>2. PICK l, l2 : l = ledger /\ l2 = ledger'
  OBVIOUS
<1>3. IsLedger(l) /\ IsLedger(l2)
  <2>1. ledger \in Seq(Blocks) /\ ledger' \in Seq(Blocks)
    BY DEF IInv, TypeOK, LedgerTypeOK
  <2> QED
    BY <1>2, <2>1, LedgerAssumption DEF IsLedger
<1>4. Continues(l, l2)
  BY <1>2, <1>3, LedgerStep DEF Continues
<1>5. Balanced(db, Len(l)) /\ Balanced(wdb, Len(l))
  BY <1>1, <1>2, PrefixMeans DEF PrefixForm
<1>6. \A p \in Procs : scan[p].pc \in ScanInTx =>
        /\ scan[p].block_index \in Nat /\ scan[p].bal \in BalanceMaps /\ scan[p].pos \in Nat \ {0}
        /\ scan[p].block_index < Len(l)
  BY <1>2, ContentsType DEF ScanInTx, IInv, ScanInv
<1>7. /\ BalancesOf(db, l2, db.counters["num_blocks_synced"])
      /\ \A p \in Procs : scan[p].pc \in ScanInTx => ScanHistory(scan[p], wdb, l2)
      /\ \A t \in Workers : work[t].pc \in WorkInTx =>
           BalancesOf(wdb, l2, wdb.counters["num_blocks_synced"])
  <2>1. /\ BalancesOf(db, l, db.counters["num_blocks_synced"])
        /\ \A p \in Procs : scan[p].pc \in ScanInTx => ScanHistory(scan[p], wdb, l)
        /\ \A t \in Workers : work[t].pc \in WorkInTx =>
             BalancesOf(wdb, l, wdb.counters["num_blocks_synced"])
    BY <1>2 DEF HistoryInv, ScanHistory
  <2> QED
    BY <1>1, <1>4, <1>5, <1>6, <2>1, BalancesStay
<1>8. SUFFICES /\ BalancesOf(db', l2, db'.counters["num_blocks_synced"])
               /\ \A p \in Procs : scan'[p].pc \in ScanInTx => ScanHistory(scan'[p], wdb', l2)
               /\ \A t \in Workers : work'[t].pc \in WorkInTx =>
                    BalancesOf(wdb', l2, wdb'.counters["num_blocks_synced"])
  BY <1>2 DEF HistoryInv, ScanHistory
<1>9. CASE Idles
  BY <1>7, <1>9 DEF Idles
<1>10. CASE Begins
  BY <1>7, <1>10 DEF Begins, ScanHistory
<1>11. CASE Commits
  BY <1>7, <1>11 DEF Commits, ScanHistory, ScanInTx, WorkInTx
<1>12. CASE \E p \in Procs : ScanProceeds(p)
  <2>1. PICK p \in Procs : ScanProceeds(p)
    BY <1>12
  <2>2. PICK s, s2, w, w2 : s = scan[p] /\ s2 = scan'[p] /\ w = wdb /\ w2 = wdb'
    OBVIOUS
  <2>3. PICK c \in BlockContents : c = Contents(p)
    BY <2>1, ContentsType DEF ScanProceeds, ScanInTx
  <2>4. /\ s.block_index \in Nat /\ s.bal \in BalanceMaps /\ s.pos \in Nat \ {0}
        /\ s.block_index < Len(l)
    BY <1>6, <2>1, <2>2 DEF ScanProceeds
  <2>5. c = l2[s.block_index + 1] /\ s.block_index < Len(l2)
    BY <1>2, <1>4, <2>2, <2>3, <2>4 DEF Contents, Continues, IsLedger
  <2>6. w \in Databases /\ ScanMove(s, s2, w, w2, c) /\ ScanHistory(s, w, l2)
    BY <1>1, <1>7, <2>1, <2>2, <2>3 DEF ScanProceeds
  <2>7. /\ {r.block_index : r \in w.block_balance} = 0 .. w.counters["num_blocks_synced"] - 1
        /\ s.pc \in {"mint_config_txs", "mint_txs", "burns"} =>
             s.block_index = w.counters["num_blocks_synced"]
    BY <1>5, <2>2 DEF Balanced, IInv, ScanInv
  <2>8. ScanHistory(s2, w2, l2)
    BY <1>3, <2>4, <2>5, <2>6, <2>7, ScanMoveHistory
  <2> QED
    BY <1>7, <2>1, <2>2, <2>8 DEF ScanProceeds
<1>13. CASE \E t \in Workers : WorkProceeds(t)
  <2>1. PICK t \in Workers : WorkProceeds(t)
    BY <1>13
  <2>2. PICK k \in DOMAIN Config : audited_safe(t) = Config[k]
    BY SafeOfThread
  <2>3. WorkMove(work[t], work'[t], wdb, wdb', Tx(t), Config[k])
    BY <2>1, <2>2 DEF WorkProceeds
  <2>4. Keeps(wdb, wdb', LedgerTables) /\ KeepsBlockCounters(wdb, wdb')
    BY <1>1, <2>3, WorkMoveKeepsBlocks
  <2>5. BalancesOf(wdb, l2, wdb.counters["num_blocks_synced"])
    BY <1>7, <2>1 DEF WorkProceeds
  <2>6. BalancesOf(wdb', l2, wdb'.counters["num_blocks_synced"])
    BY <2>4, <2>5, BalancesFrame DEF Keeps, LedgerTables, KeepsBlockCounters, BlockCounters
  <2> QED
    BY <1>7, <2>1, <2>6 DEF WorkProceeds
<1> QED
  BY <1>9, <1>10, <1>11, <1>12, <1>13, StepCases

\* The balances the auditor stores are what the whole history of the ledger
\* implies, cut off at 0, and overdrafts are counted, for any ledger whose
\* mints fit into u64.
THEOREM BalancesAudited == Spec => []BalancesFollowHistory
<1>1. Init => HistoryInv
  <2> SUFFICES ASSUME Init PROVE HistoryInv
    OBVIOUS
  <2>1. /\ db = EmptyDb /\ EmptyDb.block_balance = {}
        /\ EmptyDb.counters["num_blocks_synced"] = 0
        /\ EmptyDb.counters["num_burns_exceeding_balance"] = 0
    BY DEF Init, StoreInit, EmptyDb, CounterNames
  <2>2. /\ \A p \in Procs : scan[p].pc \notin ScanInTx
        /\ \A t \in Workers : work[t].pc \notin WorkInTx
    BY DEF Init, LedgerInit, GnosisInit, ScanAt, WorkAt, ScanInTx, WorkInTx
  <2>3. Events(ledger, 0) = {}
    BY EventsNext
  <2>4. {e \in {} : Overdraws(ledger, e)} = {} /\ Cardinality({}) = 0
    BY FS_EmptySet
  <2>5. BalancesOf(db, ledger, 0)
    BY <2>1, <2>3, <2>4 DEF BalancesOf
  <2> QED
    BY <2>1, <2>2, <2>5 DEF HistoryInv
<1>2. IInv /\ IInv' /\ PrefixInv /\ [Next]_vars /\ HistoryInv => HistoryInv'
  BY NextHistoryInv
<1>3. HistoryInv => BalancesFollowHistory
  BY DEF HistoryInv, BalancesFollowHistory
<1> QED
  BY <1>1, <1>2, <1>3, Invariance, PrefixInvariance, PTL DEF Spec

=============================================================================
