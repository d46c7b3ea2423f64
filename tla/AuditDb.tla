------------------------------- MODULE AuditDb -------------------------------
(***************************************************************************)
(* The SQLite database of the reserve auditor: its tables as one record,   *)
(* the counters row, the lookups in the Gnosis safe configuration and the  *)
(* queries that matching is built on.                                      *)
(*                                                                         *)
(* Rows carry no auto-increment id.  Every table that another one points   *)
(* to has a UNIQUE column (nonce_hex, public_key_hex, eth_tx_hash), and    *)
(* that column stands for the id.  audited_mints and audited_burns have no *)
(* UNIQUE column, so they are sequences: a row inserted twice is there     *)
(* twice.  An Option is a set of at most one element.                      *)
(***************************************************************************)
EXTENDS Naturals, Sequences, FiniteSets

CONSTANTS Tokens,        \* MobileCoin token ids
          EthAddrs,      \* Ethereum addresses (safes and token contracts)
          EthTxHashes,   \* Ethereum transaction hashes
          PublicKeys,    \* TxOut public keys
          Signers,       \* signer sets of mint configs
          MaxU64,        \* the largest u64
          Config         \* GnosisSafeConfig.safes

U64 == 0 .. MaxU64

\* An Option<T>: {} is None, {x} is Some(x).
Option(S) == {o \in SUBSET S : \A x, y \in o : x = y}

\* Wrapping u64 arithmetic: the release profile has overflow-checks off.
WrapU64(n) == n % (MaxU64 + 1)

AuditedTokens ==
  [token_id: Tokens, eth_token_contract_addrs: SUBSET EthAddrs, decimals: Nat]

AuditedSafeConfigs ==
  [safe_addr: EthAddrs, tokens: Seq(AuditedTokens), token_decimals_max: Nat]

ASSUME DbAssumption ==
  /\ MaxU64 \in Nat \ {0}
  /\ Config \in Seq(AuditedSafeConfigs)

----------------------------------------------------------------------------
(* The configuration file (gnosis/config.rs).                              *)

\* What Iterator::find returns: the least index of a set of indices, if any.
FirstOf(S) == {i \in S : \A j \in S : i <= j}

get_token_by_eth_contract_addr(cfg, addr) ==
  {cfg.tokens[i] : i \in FirstOf({j \in DOMAIN cfg.tokens :
                      addr \in cfg.tokens[j].eth_token_contract_addrs})}

get_audited_safe_config_by_safe_addr(addr) ==
  {Config[i] : i \in FirstOf({j \in DOMAIN Config :
                                Config[j].safe_addr = addr})}

----------------------------------------------------------------------------
(* Table rows (migrations/.../up.sql and db/models).                       *)

\* A mint nonce: an identifier byte (1 marks a Gnosis deposit) followed by
\* the bytes of an Ethereum transaction hash.
Nonces == [identifier: {0, 1}, eth_tx_hash: EthTxHashes]

\* MintTxNonce::EthereumGnosisDeposit(hash).to_bytes()
EthereumGnosisDeposit(hash) == [identifier |-> 1, eth_tx_hash |-> hash]

MintConfigs == [mint_limit: U64, signer_set: Signers]

MintConfigTxRows ==
  [block_index: Nat, token_id: Tokens, nonce: Nonces,
   total_mint_limit: U64, configs: Seq(MintConfigs)]

\* A mint_configs row, named by its mint_config_txs row (UNIQUE block_index,
\* token_id) and its position there.
MintConfigIds == [block_index: Nat, token_id: Tokens, position: Nat]

MintTxRows ==
  [block_index: Nat, token_id: Tokens, amount: U64, nonce: Nonces,
   mint_config_id: Option(MintConfigIds)]

BurnTxOutRows ==
  [block_index: Nat, token_id: Tokens, amount: U64, public_key: PublicKeys]

DepositRows ==
  [eth_tx_hash: EthTxHashes, safe_addr: EthAddrs, token_addr: EthAddrs,
   amount: U64]

WithdrawalRows ==
  [eth_tx_hash: EthTxHashes, safe_addr: EthAddrs, token_addr: EthAddrs,
   amount: U64, public_key: PublicKeys]

AuditedMintRows == [mint: Nonces, deposit: EthTxHashes]

AuditedBurnRows == [burn: PublicKeys, withdrawal: EthTxHashes]

\* expected_mc_mint_tx_nonce_hex of a deposit
expected_mc_mint_tx_nonce(deposit) == EthereumGnosisDeposit(deposit.eth_tx_hash)

CounterNames ==
  {"num_blocks_synced",
   "num_burns_exceeding_balance",
   "num_mint_txs_without_matching_mint_config",
   "num_mismatching_mints_and_deposits",
   "num_mismatching_burns_and_withdrawals",
   "num_unknown_ethereum_token_deposits",
   "num_unknown_ethereum_token_withdrawals",
   "num_mints_to_unknown_safe",
   "num_burns_from_unknown_safe",
   "num_invalid_ethereum_transactions",
   "num_invalid_multi_sig_transactions",
   "num_unexpected_errors_matching_deposits_to_mints",
   "num_unexpected_errors_matching_mints_to_deposits",
   "num_unexpected_errors_matching_withdrawals_to_burns",
   "num_unexpected_errors_matching_burns_to_withdrawals"}

\* A token that has no block_balance row for a block has balance 0 there
\* (or_default), so the rows of a block are one row with a total function.
BalanceMaps == [Tokens -> U64]

BlockBalanceRows == [block_index: Nat, balances: BalanceMaps]

Databases ==
  [block_audit_data : SUBSET Nat,
   block_balance    : SUBSET BlockBalanceRows,
   mint_config_txs  : SUBSET MintConfigTxRows,
   mint_txs         : SUBSET MintTxRows,
   burn_tx_outs     : SUBSET BurnTxOutRows,
   gnosis_safe_txs  : SUBSET EthTxHashes,
   deposits         : SUBSET DepositRows,
   withdrawals      : SUBSET WithdrawalRows,
   audited_mints    : Seq(AuditedMintRows),
   audited_burns    : Seq(AuditedBurnRows),
   counters         : [CounterNames -> Nat]]

\* The database new_from_path leaves behind: migrated, with a counters row.
EmptyDb ==
  [block_audit_data |-> {},
   block_balance    |-> {},
   mint_config_txs  |-> {},
   mint_txs         |-> {},
   burn_tx_outs     |-> {},
   gnosis_safe_txs  |-> {},
   deposits         |-> {},
   withdrawals      |-> {},
   audited_mints    |-> << >>,
   audited_burns    |-> << >>,
   counters         |-> [c \in CounterNames |-> 0]]

\* Counters::inc_<name>
Inc(d, name) == [d EXCEPT !.counters[name] = @ + 1]

----------------------------------------------------------------------------
(* The audit log.                                                          *)

MintIsAudited(d, nonce) ==
  \E i \in DOMAIN d.audited_mints : d.audited_mints[i].mint = nonce

DepositIsAudited(d, hash) ==
  \E i \in DOMAIN d.audited_mints : d.audited_mints[i].deposit = hash

BurnIsAudited(d, key) ==
  \E i \in DOMAIN d.audited_burns : d.audited_burns[i].burn = key

WithdrawalIsAudited(d, hash) ==
  \E i \in DOMAIN d.audited_burns : d.audited_burns[i].withdrawal = hash

\* The find_unaudited_* queries take .first() of these rows with no ORDER BY:
\* any of them may be returned.
find_unaudited_mint_tx_by_nonce(d, nonce) ==
  {m \in d.mint_txs : m.nonce = nonce /\ ~MintIsAudited(d, m.nonce)}

\* Mutant: the NOT EXISTS subquery is not correlated with the deposit.
find_deposit_uncorrelated(d, nonce) ==
  {e \in d.deposits : expected_mc_mint_tx_nonce(e) = nonce /\ d.audited_mints = << >>}

find_unaudited_deposit_by_nonce(d, nonce) ==
  {e \in d.deposits : /\ expected_mc_mint_tx_nonce(e) = nonce
                      /\ ~DepositIsAudited(d, e.eth_tx_hash)}

\* Mutant: burns that are audited already are found again.
find_any_burn_tx_out(d, key) == {b \in d.burn_tx_outs : b.public_key = key}

find_unaudited_burn_tx_out_by_public_key(d, key) ==
  {b \in d.burn_tx_outs : b.public_key = key /\ ~BurnIsAudited(d, b.public_key)}

\* Mutant: the NOT EXISTS subquery is not correlated with the withdrawal.
find_withdrawal_uncorrelated(d, key) ==
  {w \in d.withdrawals : w.public_key = key /\ d.audited_burns = << >>}

find_unaudited_withdrawal_by_public_key(d, key) ==
  {w \in d.withdrawals : /\ w.public_key = key
                         /\ ~WithdrawalIsAudited(d, w.eth_tx_hash)}

=============================================================================
