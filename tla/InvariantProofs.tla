--------------------------- MODULE InvariantProofs ---------------------------
(***************************************************************************)
(* IInv is inductive, hence TypeOK and IInv hold in every reachable state, *)
(* for every value of the constants; so do the invariants of the audit     *)
(* log, and what is in the log stays there.                                *)
(*                                                                         *)
(* First come facts about the operators the auditor is built from: what    *)
(* each of them returns and which tables it leaves alone.  The provers     *)
(* handle a record update well one field at a time, so the updates come    *)
(* first.  Last comes StepCases, the steps of the auditor without its      *)
(* variables, on which the other proofs rest.                              *)
(***************************************************************************)
EXTENDS AuditorInvariant, FiniteSetTheorems, TLAPS

----------------------------------------------------------------------------
(* Updates of one field.                                                   *)

\* A database whose counters row is replaced by another one is a database.
LEMMA SetCounters ==
  ASSUME NEW d \in Databases, NEW s \in [CounterNames -> Nat]
  PROVE  [d EXCEPT !.counters = s] \in Databases
  BY DEF Databases

\* Counters::inc changes one counter, by one, and no table.
LEMMA IncFacts ==
  ASSUME NEW d \in Databases, NEW name \in CounterNames
  PROVE  /\ Inc(d, name) \in Databases
         /\ Inc(d, name).block_audit_data = d.block_audit_data
         /\ Inc(d, name).block_balance = d.block_balance
         /\ Inc(d, name).mint_config_txs = d.mint_config_txs
         /\ Inc(d, name).mint_txs = d.mint_txs
         /\ Inc(d, name).burn_tx_outs = d.burn_tx_outs
         /\ Inc(d, name).gnosis_safe_txs = d.gnosis_safe_txs
         /\ Inc(d, name).deposits = d.deposits
         /\ Inc(d, name).withdrawals = d.withdrawals
         /\ Inc(d, name).audited_mints = d.audited_mints
         /\ Inc(d, name).audited_burns = d.audited_burns
         /\ \A c \in CounterNames : Inc(d, name).counters[c]
                = IF c = name THEN d.counters[c] + 1 ELSE d.counters[c]
<1> DEFINE cs == [d.counters EXCEPT ![name] = @ + 1]
<1>1. cs \in [CounterNames -> Nat]
  BY DEF Databases
<1>2. Inc(d, name) = [d EXCEPT !.counters = cs]
  BY DEF Inc
<1>3. Inc(d, name) \in Databases
  BY <1>1, <1>2, SetCounters
<1>4. Inc(d, name).counters = cs
  BY <1>2 DEF Databases
<1>5. \A c \in CounterNames : cs[c] = IF c = name THEN d.counters[c] + 1 ELSE d.counters[c]
  BY DEF Databases
<1> QED
  BY <1>2, <1>3, <1>4, <1>5 DEF Databases

\* Wrapping arithmetic stays within u64.
LEMMA WrapType == \A n \in Nat : WrapU64(n) \in U64
  BY DbAssumption DEF WrapU64, U64

----------------------------------------------------------------------------
(* The audit log.                                                          *)

\* What a matching attempt on the mint side may do to the database: count
\* one failure, or pair a mint and a deposit that are both still unpaired.
MintAttempt(d, d2, m, e) ==
  /\ ~MintIsAudited(d, m.nonce)
  /\ ~DepositIsAudited(d, e.eth_tx_hash)
  /\ \E i \in DOMAIN Config : verify_mint_tx_matches_deposit(m, e, Config[i]) = "Ok"
  /\ d2 = associate_deposit_with_mint(d, m, e)

BurnAttempt(d, d2, b, w) ==
  /\ ~BurnIsAudited(d, b.public_key)
  /\ ~WithdrawalIsAudited(d, w.eth_tx_hash)
  /\ \E i \in DOMAIN Config : verify_burn_tx_out_matches_withdrawal(b, w, Config[i]) = "Ok"
  /\ d2 = associate_withdrawal_with_burn(d, b, w)

FailureCounters == CounterNames \ {"num_blocks_synced"}

\* Every failure of a matching attempt has a counter of its own, and none of
\* them is the counter of synced blocks.
LEMMA ErrorCounters ==
  ASSUME NEW res
  PROVE  /\ deposit_error_counter(res) \in FailureCounters
         /\ mint_error_counter(res) \in FailureCounters
         /\ withdrawal_error_counter(res) \in FailureCounters
         /\ burn_error_counter(res) \in FailureCounters
<1>1. deposit_error_counter(res) \in FailureCounters
  BY DEF deposit_error_counter, FailureCounters, CounterNames
<1>2. mint_error_counter(res) \in FailureCounters
  BY DEF mint_error_counter, FailureCounters, CounterNames
<1>3. withdrawal_error_counter(res) \in FailureCounters
  BY DEF withdrawal_error_counter, FailureCounters, CounterNames
<1>4. burn_error_counter(res) \in FailureCounters
  BY DEF burn_error_counter, FailureCounters, CounterNames
<1> QED
  BY <1>1, <1>2, <1>3, <1>4

\* A deposit that looks for its mint either fails and counts that, or is
\* paired with a stored mint, neither of them paired before.
LEMMA DepositOutcomes ==
  ASSUME NEW d \in Databases, NEW e, NEW k \in DOMAIN Config,
         NEW d2 \in try_match_deposit_with_mint(d, e, Config[k])
  PROVE  \/ \E c \in FailureCounters : d2 = Inc(d, c)
         \/ \E m \in d.mint_txs : MintAttempt(d, d2, m, e)
<1>1. PICK r \in deposit_match_results(d, e, Config[k]) :
        d2 \in IF r.res = "Ok"
               THEN {associate_deposit_with_mint(d, m, e) : m \in r.mint}
               ELSE {Inc(d, deposit_error_counter(r.res))}
  BY DEF try_match_deposit_with_mint
<1>2. CASE r.res # "Ok"
  BY <1>1, <1>2, ErrorCounters
<1>3. CASE r.res = "Ok"
  <2>1. PICK m \in r.mint : d2 = associate_deposit_with_mint(d, m, e)
    BY <1>1, <1>3
  <2>2. /\ ~DepositIsAudited(d, e.eth_tx_hash)
        /\ r \in {[res  |-> verify_mint_tx_matches_deposit(n, e, Config[k]), mint |-> {n}] :
                  n \in find_unaudited_mint_tx_by_nonce(d, expected_mc_mint_tx_nonce(e))}
    BY <1>3 DEF deposit_match_results
  <2>3. /\ m \in find_unaudited_mint_tx_by_nonce(d, expected_mc_mint_tx_nonce(e))
        /\ verify_mint_tx_matches_deposit(m, e, Config[k]) = "Ok"
    BY <1>3, <2>1, <2>2
  <2>4. m \in d.mint_txs /\ ~MintIsAudited(d, m.nonce)
    BY <2>3 DEF find_unaudited_mint_tx_by_nonce
  <2> QED
    BY <2>1, <2>2, <2>3, <2>4 DEF MintAttempt
<1> QED
  BY <1>2, <1>3

\* What get_audited_safe_config_by_safe_addr returns is a configured safe.
LEMMA SafeConfigFound ==
  ASSUME NEW addr, NEW cfg \in get_audited_safe_config_by_safe_addr(addr)
  PROVE  \E i \in DOMAIN Config : cfg = Config[i] /\ Config[i].safe_addr = addr
  BY DEF get_audited_safe_config_by_safe_addr, FirstOf

\* Entries of the configuration are safe configurations.
LEMMA ConfigEntries ==
  ASSUME NEW i \in DOMAIN Config
  PROVE  Config[i] \in AuditedSafeConfigs
  BY DbAssumption

\* A mint that looks for its deposit either fails and counts that, or is
\* paired with a stored deposit, neither of them paired before.
LEMMA MintOutcomes ==
  ASSUME NEW d \in Databases, NEW m,
         NEW d2 \in try_match_mint_with_deposit(d, m)
  PROVE  \/ \E c \in FailureCounters : d2 = Inc(d, c)
         \/ \E e \in d.deposits : MintAttempt(d, d2, m, e)
<1>1. PICK r \in mint_match_results(d, m) :
        d2 \in IF r.res = "Ok"
               THEN {associate_deposit_with_mint(d, m, e) : e \in r.deposit}
               ELSE {Inc(d, mint_error_counter(r.res))}
  BY DEF try_match_mint_with_deposit
<1>2. CASE r.res # "Ok"
  BY <1>1, <1>2, ErrorCounters
<1>3. CASE r.res = "Ok"
  <2>1. PICK e \in r.deposit : d2 = associate_deposit_with_mint(d, m, e)
    BY <1>1, <1>3
  <2>2. /\ ~MintIsAudited(d, m.nonce)
        /\ \E f \in find_unaudited_deposit_by_nonce(d, m.nonce) :
             \E cfg \in get_audited_safe_config_by_safe_addr(f.safe_addr) :
               r = [res |-> verify_mint_tx_matches_deposit(m, f, cfg), deposit |-> {f}]
    BY <1>3 DEF mint_match_results
  <2>3. PICK cfg \in get_audited_safe_config_by_safe_addr(e.safe_addr) :
          /\ e \in find_unaudited_deposit_by_nonce(d, m.nonce)
          /\ verify_mint_tx_matches_deposit(m, e, cfg) = "Ok"
    BY <1>3, <2>1, <2>2
  <2>4. e \in d.deposits /\ ~DepositIsAudited(d, e.eth_tx_hash)
    BY <2>3 DEF find_unaudited_deposit_by_nonce
  <2>5. \E i \in DOMAIN Config : cfg = Config[i]
    BY SafeConfigFound
  <2> QED
    BY <2>1, <2>2, <2>3, <2>4, <2>5 DEF MintAttempt
<1> QED
  BY <1>2, <1>3

\* A withdrawal that looks for its burn either fails and counts that, or is
\* paired with a stored burn, neither of them paired before.
LEMMA WithdrawalOutcomes ==
  ASSUME NEW d \in Databases, NEW w, NEW k \in DOMAIN Config,
         NEW d2 \in try_match_withdrawal_with_burn(d, w, Config[k])
  PROVE  \/ \E c \in FailureCounters : d2 = Inc(d, c)
         \/ \E b \in d.burn_tx_outs : BurnAttempt(d, d2, b, w)
<1>1. PICK r \in withdrawal_match_results(d, w, Config[k]) :
        d2 \in IF r.res = "Ok"
               THEN {associate_withdrawal_with_burn(d, b, w) : b \in r.burn}
               ELSE {Inc(d, withdrawal_error_counter(r.res))}
  BY DEF try_match_withdrawal_with_burn
<1>2. CASE r.res # "Ok"
  BY <1>1, <1>2, ErrorCounters
<1>3. CASE r.res = "Ok"
  <2>1. PICK b \in r.burn : d2 = associate_withdrawal_with_burn(d, b, w)
    BY <1>1, <1>3
  <2>2. /\ ~WithdrawalIsAudited(d, w.eth_tx_hash)
        /\ r \in {[res  |-> verify_burn_tx_out_matches_withdrawal(n, w, Config[k]), burn |-> {n}] :
                  n \in find_unaudited_burn_tx_out_by_public_key(d, w.public_key)}
    BY <1>3 DEF withdrawal_match_results
  <2>3. /\ b \in find_unaudited_burn_tx_out_by_public_key(d, w.public_key)
        /\ verify_burn_tx_out_matches_withdrawal(b, w, Config[k]) = "Ok"
    BY <1>3, <2>1, <2>2
  <2>4. b \in d.burn_tx_outs /\ ~BurnIsAudited(d, b.public_key)
    BY <2>3 DEF find_unaudited_burn_tx_out_by_public_key
  <2> QED
    BY <2>1, <2>2, <2>3, <2>4 DEF BurnAttempt
<1> QED
  BY <1>2, <1>3

\* A burn that looks for its withdrawal either fails and counts that, or is
\* paired with a stored withdrawal, neither of them paired before.
LEMMA BurnOutcomes ==
  ASSUME NEW d \in Databases, NEW b,
         NEW d2 \in try_match_burn_with_withdrawal(d, b)
  PROVE  \/ \E c \in FailureCounters : d2 = Inc(d, c)
         \/ \E w \in d.withdrawals : BurnAttempt(d, d2, b, w)
<1>1. PICK r \in burn_match_results(d, b) :
        d2 \in IF r.res = "Ok"
               THEN {associate_withdrawal_with_burn(d, b, w) : w \in r.withdrawal}
               ELSE {Inc(d, burn_error_counter(r.res))}
  BY DEF try_match_burn_with_withdrawal
<1>2. CASE r.res # "Ok"
  BY <1>1, <1>2, ErrorCounters
<1>3. CASE r.res = "Ok"
  <2>1. PICK w \in r.withdrawal : d2 = associate_withdrawal_with_burn(d, b, w)
    BY <1>1, <1>3
  <2>2. /\ ~BurnIsAudited(d, b.public_key)
        /\ \E f \in find_unaudited_withdrawal_by_public_key(d, b.public_key) :
             \E cfg \in get_audited_safe_config_by_safe_addr(f.safe_addr) :
               r = [res |-> verify_burn_tx_out_matches_withdrawal(b, f, cfg), withdrawal |-> {f}]
    BY <1>3 DEF burn_match_results
  <2>3. PICK cfg \in get_audited_safe_config_by_safe_addr(w.safe_addr) :
          /\ w \in find_unaudited_withdrawal_by_public_key(d, b.public_key)
          /\ verify_burn_tx_out_matches_withdrawal(b, w, cfg) = "Ok"
    BY <1>3, <2>1, <2>2
  <2>4. w \in d.withdrawals /\ ~WithdrawalIsAudited(d, w.eth_tx_hash)
    BY <2>3 DEF find_unaudited_withdrawal_by_public_key
  <2>5. \E i \in DOMAIN Config : cfg = Config[i]
    BY SafeConfigFound
  <2> QED
    BY <2>1, <2>2, <2>3, <2>4, <2>5 DEF BurnAttempt
<1> QED
  BY <1>2, <1>3

----------------------------------------------------------------------------
(* Frames: what the writes leave alone.                                    *)

\* Nothing that describes synced blocks changes.
KeepsBlocks(d, d2) ==
  /\ d2.block_audit_data = d.block_audit_data
  /\ d2.mint_config_txs = d.mint_config_txs
  /\ d2.counters["num_blocks_synced"] = d.counters["num_blocks_synced"]

\* No row that a pair of the audit log may point to is lost.
RowsGrow(d, d2) ==
  /\ d.mint_txs \subseteq d2.mint_txs
  /\ d.deposits \subseteq d2.deposits
  /\ d.burn_tx_outs \subseteq d2.burn_tx_outs
  /\ d.withdrawals \subseteq d2.withdrawals

KeepsLogs(d, d2) ==
  /\ d2.audited_mints = d.audited_mints
  /\ d2.audited_burns = d.audited_burns

\* Counting a failure leaves blocks, rows and the audit log alone.
LEMMA CountedFailure ==
  ASSUME NEW d \in Databases, NEW c \in FailureCounters
  PROVE  /\ Inc(d, c) \in Databases
         /\ KeepsBlocks(d, Inc(d, c)) /\ RowsGrow(d, Inc(d, c)) /\ KeepsLogs(d, Inc(d, c))
<1>1. c \in CounterNames /\ c # "num_blocks_synced" /\ "num_blocks_synced" \in CounterNames
  BY DEF FailureCounters, CounterNames
<1> QED
  BY <1>1, IncFacts DEF KeepsBlocks, RowsGrow, KeepsLogs

\* Pairing a mint and a deposit appends one row to audited_mints and changes
\* nothing else.
LEMMA MintPairing ==
  ASSUME NEW d \in Databases, NEW m, m.nonce \in Nonces, NEW e, e.eth_tx_hash \in EthTxHashes,
         NEW d2, MintAttempt(d, d2, m, e)
  PROVE  /\ d2 \in Databases
         /\ KeepsBlocks(d, d2) /\ RowsGrow(d, d2)
         /\ d2.audited_mints
              = Append(d.audited_mints, [mint |-> m.nonce, deposit |-> e.eth_tx_hash])
         /\ d2.audited_burns = d.audited_burns
<1> DEFINE row == [mint |-> m.nonce, deposit |-> e.eth_tx_hash]
<1> DEFINE log == Append(d.audited_mints, row)
<1>1. row \in AuditedMintRows
  BY DEF AuditedMintRows
<1>2. log \in Seq(AuditedMintRows)
  BY <1>1 DEF Databases
<1>3. d2 = [d EXCEPT !.audited_mints = log]
  BY DEF MintAttempt, associate_deposit_with_mint
<1> HIDE DEF log
<1> QED
  BY <1>2, <1>3 DEF Databases, KeepsBlocks, RowsGrow, log

\* Pairing a burn and a withdrawal appends one row to audited_burns and
\* changes nothing else.
LEMMA BurnPairing ==
  ASSUME NEW d \in Databases, NEW b, b.public_key \in PublicKeys,
         NEW w, w.eth_tx_hash \in EthTxHashes,
         NEW d2, BurnAttempt(d, d2, b, w)
  PROVE  /\ d2 \in Databases
         /\ KeepsBlocks(d, d2) /\ RowsGrow(d, d2)
         /\ d2.audited_burns
              = Append(d.audited_burns, [burn |-> b.public_key, withdrawal |-> w.eth_tx_hash])
         /\ d2.audited_mints = d.audited_mints
<1> DEFINE row == [burn |-> b.public_key, withdrawal |-> w.eth_tx_hash]
<1> DEFINE log == Append(d.audited_burns, row)
<1>1. row \in AuditedBurnRows
  BY DEF AuditedBurnRows
<1>2. log \in Seq(AuditedBurnRows)
  BY <1>1 DEF Databases
<1>3. d2 = [d EXCEPT !.audited_burns = log]
  BY DEF BurnAttempt, associate_withdrawal_with_burn
<1> HIDE DEF log
<1> QED
  BY <1>2, <1>3 DEF Databases, KeepsBlocks, RowsGrow, log

\* Whatever a matching attempt of the main thread finds, it leaves a database
\* in which the blocks are unchanged and no row is lost.
LEMMA LedgerAttempts ==
  ASSUME NEW d \in Databases
  PROVE  /\ \A m \in CoreMintTxs : \A d2 \in try_match_mint_with_deposit(d, m) :
              d2 \in Databases /\ KeepsBlocks(d, d2) /\ RowsGrow(d, d2)
         /\ \A o \in TxOuts : \A d2 \in try_match_burn_with_withdrawal(d, o) :
              d2 \in Databases /\ KeepsBlocks(d, d2) /\ RowsGrow(d, d2)
<1>1. ASSUME NEW m \in CoreMintTxs, NEW d2 \in try_match_mint_with_deposit(d, m)
      PROVE  d2 \in Databases /\ KeepsBlocks(d, d2) /\ RowsGrow(d, d2)
  <2>1. CASE \E c \in FailureCounters : d2 = Inc(d, c)
    BY <2>1, CountedFailure
  <2>2. CASE \E e \in d.deposits : MintAttempt(d, d2, m, e)
    <3>1. PICK e \in d.deposits : MintAttempt(d, d2, m, e)
      BY <2>2
    <3>2. m.nonce \in Nonces /\ e.eth_tx_hash \in EthTxHashes
      BY DEF CoreMintTxs, Databases, DepositRows
    <3> QED
      BY <3>1, <3>2, MintPairing
  <2> QED
    BY <2>1, <2>2, MintOutcomes
<1>2. ASSUME NEW o \in TxOuts, NEW d2 \in try_match_burn_with_withdrawal(d, o)
      PROVE  d2 \in Databases /\ KeepsBlocks(d, d2) /\ RowsGrow(d, d2)
  <2>1. CASE \E c \in FailureCounters : d2 = Inc(d, c)
    BY <2>1, CountedFailure
  <2>2. CASE \E w \in d.withdrawals : BurnAttempt(d, d2, o, w)
    <3>1. PICK w \in d.withdrawals : BurnAttempt(d, d2, o, w)
      BY <2>2
    <3>2. o.public_key \in PublicKeys /\ w.eth_tx_hash \in EthTxHashes
      BY DEF TxOuts, Databases, WithdrawalRows
    <3> QED
      BY <3>1, <3>2, BurnPairing
  <2> QED
    BY <2>1, <2>2, BurnOutcomes
<1> QED
  BY <1>1, <1>2

\* The same for the attempts of a safe thread, on a row it has just stored.
LEMMA SafeAttempts ==
  ASSUME NEW d \in Databases, NEW k \in DOMAIN Config
  PROVE  /\ \A e \in DepositRows : \A d2 \in try_match_deposit_with_mint(d, e, Config[k]) :
              d2 \in Databases /\ KeepsBlocks(d, d2) /\ RowsGrow(d, d2)
         /\ \A w \in WithdrawalRows : \A d2 \in try_match_withdrawal_with_burn(d, w, Config[k]) :
              d2 \in Databases /\ KeepsBlocks(d, d2) /\ RowsGrow(d, d2)
<1>1. ASSUME NEW e \in DepositRows, NEW d2 \in try_match_deposit_with_mint(d, e, Config[k])
      PROVE  d2 \in Databases /\ KeepsBlocks(d, d2) /\ RowsGrow(d, d2)
  <2>1. CASE \E c \in FailureCounters : d2 = Inc(d, c)
    BY <2>1, CountedFailure
  <2>2. CASE \E m \in d.mint_txs : MintAttempt(d, d2, m, e)
    <3>1. PICK m \in d.mint_txs : MintAttempt(d, d2, m, e)
      BY <2>2
    <3>2. m.nonce \in Nonces /\ e.eth_tx_hash \in EthTxHashes
      BY DEF MintTxRows, Databases, DepositRows
    <3> QED
      BY <3>1, <3>2, MintPairing
  <2> QED
    BY <2>1, <2>2, DepositOutcomes
<1>2. ASSUME NEW w \in WithdrawalRows, NEW d2 \in try_match_withdrawal_with_burn(d, w, Config[k])
      PROVE  d2 \in Databases /\ KeepsBlocks(d, d2) /\ RowsGrow(d, d2)
  <2>1. CASE \E c \in FailureCounters : d2 = Inc(d, c)
    BY <2>1, CountedFailure
  <2>2. CASE \E b \in d.burn_tx_outs : BurnAttempt(d, d2, b, w)
    <3>1. PICK b \in d.burn_tx_outs : BurnAttempt(d, d2, b, w)
      BY <2>2
    <3>2. b.public_key \in PublicKeys /\ w.eth_tx_hash \in EthTxHashes
      BY DEF BurnTxOutRows, Databases, WithdrawalRows
    <3> QED
      BY <3>1, <3>2, BurnPairing
  <2> QED
    BY <2>1, <2>2, WithdrawalOutcomes
<1> QED
  BY <1>1, <1>2

----------------------------------------------------------------------------
(* Inserting rows.                                                         *)

\* Storing a deposit or a withdrawal, or marking an Ethereum transaction as
\* seen, changes that one table.
LEMMA SafeInserts ==
  ASSUME NEW d \in Databases
  PROVE  /\ \A e \in DepositRows : LET d2 == [d EXCEPT !.deposits = @ \cup {e}]
              IN  /\ d2 \in Databases /\ e \in d2.deposits
                  /\ KeepsBlocks(d, d2) /\ RowsGrow(d, d2) /\ KeepsLogs(d, d2)
         /\ \A w \in WithdrawalRows : LET d2 == [d EXCEPT !.withdrawals = @ \cup {w}]
              IN  /\ d2 \in Databases /\ w \in d2.withdrawals
                  /\ KeepsBlocks(d, d2) /\ RowsGrow(d, d2) /\ KeepsLogs(d, d2)
         /\ \A h \in EthTxHashes : LET d2 == [d EXCEPT !.gnosis_safe_txs = @ \cup {h}]
              IN  d2 \in Databases
                  /\ KeepsBlocks(d, d2) /\ RowsGrow(d, d2) /\ KeepsLogs(d, d2)
<1>1. \A s \in SUBSET DepositRows : [d EXCEPT !.deposits = s] \in Databases
  BY DEF Databases
<1>2. \A s \in SUBSET WithdrawalRows : [d EXCEPT !.withdrawals = s] \in Databases
  BY DEF Databases
<1>3. \A s \in SUBSET EthTxHashes : [d EXCEPT !.gnosis_safe_txs = s] \in Databases
  BY DEF Databases
<1>4. /\ d.deposits \in SUBSET DepositRows /\ d.withdrawals \in SUBSET WithdrawalRows
      /\ d.gnosis_safe_txs \in SUBSET EthTxHashes
  BY DEF Databases
<1> QED
  BY <1>1, <1>2, <1>3, <1>4 DEF Databases, KeepsBlocks, RowsGrow, KeepsLogs

\* Storing a mint config adds its row to mint_config_txs and changes nothing
\* else.
LEMMA MintConfigInsert ==
  ASSUME NEW d \in Databases, NEW n \in Nat, NEW tx \in CoreMintConfigTxs
  PROVE  LET d2 == insert_from_core_mint_config_tx(d, n, tx)
         IN  /\ d2 \in Databases
             /\ \E row \in MintConfigTxRows :
                  /\ row.block_index = n /\ row.token_id = tx.token_id
                  /\ d2.mint_config_txs = d.mint_config_txs \cup {row}
             /\ d2.block_audit_data = d.block_audit_data
             /\ d2.counters = d.counters
             /\ RowsGrow(d, d2) /\ KeepsLogs(d, d2)
<1> DEFINE row == [block_index |-> n, token_id |-> tx.token_id,
                   nonce |-> tx.nonce, total_mint_limit |-> tx.total_mint_limit,
                   configs |-> tx.configs]
<1> DEFINE s == d.mint_config_txs \cup {row}
<1>1. row \in MintConfigTxRows
  BY DEF CoreMintConfigTxs, MintConfigTxRows
<1>2. s \in SUBSET MintConfigTxRows
  BY <1>1 DEF Databases
<1>3. insert_from_core_mint_config_tx(d, n, tx) = [d EXCEPT !.mint_config_txs = s]
  BY DEF insert_from_core_mint_config_tx
<1>4. row.block_index = n /\ row.token_id = tx.token_id
  OBVIOUS
<1> HIDE DEF row
<1>5. s = d.mint_config_txs \cup {row}
  OBVIOUS
<1> HIDE DEF s
<1>6. /\ insert_from_core_mint_config_tx(d, n, tx) \in Databases
      /\ insert_from_core_mint_config_tx(d, n, tx).mint_config_txs = s
      /\ insert_from_core_mint_config_tx(d, n, tx).block_audit_data = d.block_audit_data
      /\ insert_from_core_mint_config_tx(d, n, tx).counters = d.counters
      /\ RowsGrow(d, insert_from_core_mint_config_tx(d, n, tx))
      /\ KeepsLogs(d, insert_from_core_mint_config_tx(d, n, tx))
  BY <1>2, <1>3 DEF Databases, RowsGrow, KeepsLogs
<1> QED
  BY <1>1, <1>4, <1>5, <1>6

\* An index set has at most one least element.
LEMMA FirstOfUnique ==
  ASSUME NEW S \in SUBSET Int
  PROVE  \A i, j \in FirstOf(S) : i = j
  BY DEF FirstOf

\* lookup_mint_config attributes a mint to at most one mint config, provided
\* (block_index, token_id) is unique in mint_config_txs.
LEMMA LookupType ==
  ASSUME NEW d \in Databases, NEW n \in Nat, NEW tx \in CoreMintTxs,
         \A c, o \in d.mint_config_txs :
           c.block_index = o.block_index /\ c.token_id = o.token_id => c = o
  PROVE  lookup_mint_config(d, n, tx) \in Option(MintConfigIds)
<1> DEFINE recent == most_recent_for_token(d, n, tx.token_id)
<1> DEFINE chosen(c) ==
      LET ids == {mint_config_id(c, i) : i \in DOMAIN c.configs}
          fits(i) ==
            /\ c.configs[i].signer_set \in tx.signed_by
            /\ FitsLimit(get_total_minted_before_block(d, {mint_config_id(c, i)}, n),
                         tx.amount, c.configs[i].mint_limit)
      IN  IF FitsLimit(get_total_minted_before_block(d, ids, n), tx.amount, c.total_mint_limit)
          THEN {mint_config_id(c, i) : i \in FirstOf({j \in DOMAIN c.configs : fits(j)})}
          ELSE {}
<1>1. lookup_mint_config(d, n, tx) = UNION {chosen(c) : c \in recent}
  BY DEF lookup_mint_config
<1>2. recent \subseteq MintConfigTxRows
  BY DEF most_recent_for_token, Databases
<1>3. \A c, o \in recent : c = o
  <2>1. SUFFICES ASSUME NEW c \in recent, NEW o \in recent PROVE c = o
    OBVIOUS
  <2>2. c \in d.mint_config_txs /\ o \in d.mint_config_txs /\ c.token_id = o.token_id
    BY DEF most_recent_for_token
  <2>3. c.block_index <= o.block_index /\ o.block_index <= c.block_index
    BY DEF most_recent_for_token
  <2>4. c.block_index \in Nat /\ o.block_index \in Nat
    BY <1>2 DEF MintConfigTxRows
  <2> QED
    BY <2>2, <2>3, <2>4
<1>4. ASSUME NEW c \in recent
      PROVE  \E S \in SUBSET Int : /\ S \subseteq DOMAIN c.configs
                                   /\ chosen(c) \subseteq {mint_config_id(c, i) : i \in FirstOf(S)}
  <2> DEFINE S == {j \in DOMAIN c.configs :
            /\ c.configs[j].signer_set \in tx.signed_by
            /\ FitsLimit(get_total_minted_before_block(d, {mint_config_id(c, j)}, n),
                         tx.amount, c.configs[j].mint_limit)}
  <2>1. c.configs \in Seq(MintConfigs)
    BY <1>2 DEF MintConfigTxRows
  <2>2. S \in SUBSET Int /\ S \subseteq DOMAIN c.configs
    BY <2>1
  <2>3. chosen(c) \subseteq {mint_config_id(c, i) : i \in FirstOf(S)}
    OBVIOUS
  <2> QED
    BY <2>2, <2>3
<1> HIDE DEF chosen, recent
<1>5. ASSUME NEW c \in recent, NEW x \in chosen(c)
      PROVE  /\ x \in MintConfigIds
             /\ \A y \in chosen(c) : x = y
  <2>1. PICK S \in SUBSET Int : /\ S \subseteq DOMAIN c.configs
                                /\ chosen(c) \subseteq {mint_config_id(c, i) : i \in FirstOf(S)}
    BY <1>4
  <2>2. PICK i \in FirstOf(S) : x = mint_config_id(c, i)
    BY <2>1
  <2>3. c \in MintConfigTxRows
    BY <1>2
  <2>4. i \in Nat
    BY <2>1, <2>3 DEF FirstOf, MintConfigTxRows
  <2>5. x \in MintConfigIds
    BY <2>2, <2>3, <2>4 DEF mint_config_id, MintConfigIds, MintConfigTxRows
  <2>6. \A y \in chosen(c) : x = y
    BY <2>1, <2>2, FirstOfUnique
  <2> QED
    BY <2>5, <2>6
<1>6. \A x \in UNION {chosen(c) : c \in recent} :
        x \in MintConfigIds /\ \A y \in UNION {chosen(c) : c \in recent} : x = y
  BY <1>3, <1>5
<1> QED
  BY <1>1, <1>6 DEF Option

\* Storing a mint adds its row and counts it if no mint config fits.
LEMMA MintInsert ==
  ASSUME NEW d \in Databases, NEW n \in Nat, NEW tx \in CoreMintTxs,
         \A c, o \in d.mint_config_txs :
           c.block_index = o.block_index /\ c.token_id = o.token_id => c = o
  PROVE  LET d2 == store_mint_tx(d, n, tx)
         IN  /\ d2 \in Databases
             /\ \E m \in MintTxRows :
                  /\ m.nonce = tx.nonce /\ m.amount = tx.amount /\ m.token_id = tx.token_id
                  /\ d2.mint_txs = d.mint_txs \cup {m}
             /\ KeepsBlocks(d, d2) /\ RowsGrow(d, d2) /\ KeepsLogs(d, d2)
<1> DEFINE row == mint_tx_row(d, n, tx)
<1> DEFINE counted == IF row.mint_config_id = {}
                      THEN Inc(d, "num_mint_txs_without_matching_mint_config") ELSE d
<1>1. row \in MintTxRows
  BY LookupType DEF mint_tx_row, CoreMintTxs, MintTxRows
<1>2. "num_mint_txs_without_matching_mint_config" \in FailureCounters
  BY DEF FailureCounters, CounterNames
<1>3. /\ counted \in Databases /\ counted.mint_txs = d.mint_txs
      /\ KeepsBlocks(d, counted) /\ RowsGrow(d, counted) /\ KeepsLogs(d, counted)
  <2>1. CASE row.mint_config_id = {}
    BY <1>2, <2>1, CountedFailure, IncFacts DEF FailureCounters
  <2>2. CASE row.mint_config_id # {}
    BY <2>2 DEF KeepsBlocks, RowsGrow, KeepsLogs
  <2> QED
    BY <2>1, <2>2
<1>4. row.nonce = tx.nonce /\ row.amount = tx.amount /\ row.token_id = tx.token_id
  BY DEF mint_tx_row
<1>5. store_mint_tx(d, n, tx) = [counted EXCEPT !.mint_txs = counted.mint_txs \cup {row}]
  BY DEF store_mint_tx
<1> HIDE DEF row, counted
<1> DEFINE s == counted.mint_txs \cup {row}
<1>6. s \in SUBSET MintTxRows
  BY <1>1, <1>3 DEF Databases
<1>7. s = d.mint_txs \cup {row}
  BY <1>3
<1> HIDE DEF s
<1>8. store_mint_tx(d, n, tx) = [counted EXCEPT !.mint_txs = s]
  BY <1>5 DEF s
<1>9. /\ store_mint_tx(d, n, tx) \in Databases
      /\ store_mint_tx(d, n, tx).mint_txs = s
      /\ KeepsBlocks(d, store_mint_tx(d, n, tx))
      /\ RowsGrow(d, store_mint_tx(d, n, tx))
      /\ KeepsLogs(d, store_mint_tx(d, n, tx))
  BY <1>3, <1>6, <1>7, <1>8 DEF Databases, KeepsBlocks, RowsGrow, KeepsLogs
<1> QED
  BY <1>1, <1>4, <1>7, <1>9

\* Storing a burn adds its row and counts it if it exceeds the balance.
LEMMA BurnInsert ==
  ASSUME NEW d \in Databases, NEW bal, NEW n \in Nat, NEW o \in TxOuts
  PROVE  LET d2 == store_burn_tx_out(d, bal, n, o)
         IN  /\ d2 \in Databases
             /\ \E b \in BurnTxOutRows :
                  /\ b.public_key = o.public_key /\ b.amount = o.amount
                  /\ b.token_id = o.token_id
                  /\ d2.burn_tx_outs = d.burn_tx_outs \cup {b}
             /\ KeepsBlocks(d, d2) /\ RowsGrow(d, d2) /\ KeepsLogs(d, d2)
<1> DEFINE row == burn_tx_out_row(n, o)
<1> DEFINE counted == IF o.amount > bal[o.token_id]
                      THEN Inc(d, "num_burns_exceeding_balance") ELSE d
<1>1. row \in BurnTxOutRows
  BY DEF burn_tx_out_row, TxOuts, BurnTxOutRows
<1>2. "num_burns_exceeding_balance" \in FailureCounters
  BY DEF FailureCounters, CounterNames
<1>3. /\ counted \in Databases /\ counted.burn_tx_outs = d.burn_tx_outs
      /\ KeepsBlocks(d, counted) /\ RowsGrow(d, counted) /\ KeepsLogs(d, counted)
  <2>1. CASE o.amount > bal[o.token_id]
    BY <1>2, <2>1, CountedFailure, IncFacts DEF FailureCounters
  <2>2. CASE ~(o.amount > bal[o.token_id])
    BY <2>2 DEF KeepsBlocks, RowsGrow, KeepsLogs
  <2> QED
    BY <2>1, <2>2
<1>4. row.public_key = o.public_key /\ row.amount = o.amount /\ row.token_id = o.token_id
  BY DEF burn_tx_out_row
<1>5. store_burn_tx_out(d, bal, n, o)
        = [counted EXCEPT !.burn_tx_outs = counted.burn_tx_outs \cup {row}]
  BY DEF store_burn_tx_out
<1> HIDE DEF row, counted
<1> DEFINE s == counted.burn_tx_outs \cup {row}
<1>6. s \in SUBSET BurnTxOutRows
  BY <1>1, <1>3 DEF Databases
<1>7. s = d.burn_tx_outs \cup {row}
  BY <1>3
<1> HIDE DEF s
<1>8. store_burn_tx_out(d, bal, n, o) = [counted EXCEPT !.burn_tx_outs = s]
  BY <1>5 DEF s
<1>9. /\ store_burn_tx_out(d, bal, n, o) \in Databases
      /\ store_burn_tx_out(d, bal, n, o).burn_tx_outs = s
      /\ KeepsBlocks(d, store_burn_tx_out(d, bal, n, o))
      /\ RowsGrow(d, store_burn_tx_out(d, bal, n, o))
      /\ KeepsLogs(d, store_burn_tx_out(d, bal, n, o))
  BY <1>3, <1>6, <1>7, <1>8 DEF Databases, KeepsBlocks, RowsGrow, KeepsLogs
<1> QED
  BY <1>1, <1>4, <1>7, <1>9

\* Finishing a block records it in block_audit_data and in the counter.
LEMMA BlockFinished ==
  ASSUME NEW d \in Databases, NEW n \in Nat, NEW bal \in BalanceMaps
  PROVE  LET d2 == finish_block(d, n, bal)
         IN  /\ d2 \in Databases
             /\ d2.block_audit_data = d.block_audit_data \cup {n}
             /\ d2.counters["num_blocks_synced"] = d.counters["num_blocks_synced"] + 1
             /\ d2.mint_config_txs = d.mint_config_txs
             /\ RowsGrow(d, d2) /\ KeepsLogs(d, d2)
<1> DEFINE one == Inc(d, "num_blocks_synced")
<1> DEFINE blocks == one.block_audit_data \cup {n}
<1> DEFINE row == [block_index |-> n, balances |-> bal]
<1> DEFINE rows == one.block_balance \cup {row}
<1>1. "num_blocks_synced" \in CounterNames
  BY DEF CounterNames
<1>2. /\ one \in Databases
      /\ one.block_audit_data = d.block_audit_data
      /\ one.mint_config_txs = d.mint_config_txs
      /\ one.counters["num_blocks_synced"] = d.counters["num_blocks_synced"] + 1
      /\ RowsGrow(d, one) /\ KeepsLogs(d, one)
  BY <1>1, IncFacts DEF RowsGrow, KeepsLogs
<1>3. finish_block(d, n, bal)
        = [one EXCEPT !.block_audit_data = blocks, !.block_balance = rows]
  BY DEF finish_block
<1> HIDE DEF one
<1>4. row \in BlockBalanceRows
  BY DEF BlockBalanceRows
<1>5. blocks \in SUBSET Nat /\ rows \in SUBSET BlockBalanceRows
  BY <1>2, <1>4 DEF Databases
<1>6. blocks = d.block_audit_data \cup {n}
  BY <1>2
<1> HIDE DEF blocks, rows, row
<1> QED
  BY <1>2, <1>3, <1>5, <1>6 DEF Databases, RowsGrow, KeepsLogs

----------------------------------------------------------------------------
(* Balances.                                                               *)

\* The stored balances of a block are u64 values for every token.
LEMMA BalancesType ==
  ASSUME NEW d \in Databases, NEW n
  PROVE  get_balances_for_block(d, n) \in BalanceMaps
<1> DEFINE rows == {r \in d.block_balance : r.block_index = n}
<1>1. rows \subseteq BlockBalanceRows
  BY DEF Databases
<1>2. [t \in Tokens |-> 0] \in BalanceMaps
  BY DbAssumption DEF BalanceMaps, U64
<1>3. CASE rows = {}
  BY <1>2, <1>3 DEF get_balances_for_block
<1>4. CASE rows # {}
  <2>1. (CHOOSE r \in rows : TRUE) \in rows
    BY <1>4
  <2>2. (CHOOSE r \in rows : TRUE).balances \in BalanceMaps
    BY <1>1, <2>1 DEF BlockBalanceRows
  <2> QED
    BY <1>4, <2>2 DEF get_balances_for_block
<1> QED
  BY <1>3, <1>4

\* Accounting a mint or a burn keeps every balance within u64.
LEMMA AccountingType ==
  ASSUME NEW bal \in BalanceMaps
  PROVE  /\ \A tx \in CoreMintTxs : mint_balance(bal, tx) \in BalanceMaps
         /\ \A o \in TxOuts : burn_balance(bal, o) \in BalanceMaps
<1>1. ASSUME NEW tx \in CoreMintTxs PROVE mint_balance(bal, tx) \in BalanceMaps
  <2>1. bal[tx.token_id] \in U64 /\ tx.amount \in U64
    BY DEF BalanceMaps, CoreMintTxs
  <2>2. bal[tx.token_id] + tx.amount \in Nat
    BY <2>1, DbAssumption DEF U64
  <2>3. WrapU64(bal[tx.token_id] + tx.amount) \in U64
    BY <2>2, WrapType
  <2> QED
    BY <2>3 DEF mint_balance, BalanceMaps
<1>2. ASSUME NEW o \in TxOuts PROVE burn_balance(bal, o) \in BalanceMaps
  <2>1. bal[o.token_id] \in U64 /\ o.amount \in U64
    BY DEF BalanceMaps, TxOuts
  <2>2. (IF o.amount > bal[o.token_id] THEN 0 ELSE bal[o.token_id] - o.amount) \in U64
    BY <2>1, DbAssumption DEF U64
  <2> QED
    BY <2>2 DEF burn_balance, BalanceMaps
<1> QED
  BY <1>1, <1>2


----------------------------------------------------------------------------
(* Threads and states.                                                     *)

\* The main thread of a process is none of the safe threads.
LEMMA ScanThreadFacts ==
  ASSUME NEW p \in Procs
  PROVE  /\ ScanThread(p) \in Threads
         /\ ScanThread(p) \notin Workers
         /\ \A q \in Procs : ScanThread(p) = ScanThread(q) => p = q
  BY DbAssumption DEF ScanThread, Threads, Workers

\* Threads that start, or that panicked, are in legal states.
LEMMA StartStates ==
  /\ \A pc \in ScanPcs : ScanAt(pc) \in ScanStates
  /\ \A pc \in WorkPcs : WorkAt(pc) \in WorkStates
<1>1. ZeroBalances \in BalanceMaps
  BY DbAssumption DEF ZeroBalances, BalanceMaps, U64
<1> QED
  BY <1>1 DEF ScanAt, ScanStates, WorkAt, WorkStates

\* IInv holds initially.
LEMMA InitInv == Init => IInv
<1> SUFFICES ASSUME Init PROVE IInv
  OBVIOUS
<1> USE DEF Init, StoreInit, LedgerInit, GnosisInit
<1>1. EmptyDb \in Databases
  BY DEF EmptyDb, Databases
<1>2. DbInv(EmptyDb)
  <2>1. EmptyDb.counters["num_blocks_synced"] = 0
    BY DEF EmptyDb, CounterNames
  <2>2. EmptyDb.block_audit_data = {} /\ EmptyDb.mint_config_txs = {}
    BY DEF EmptyDb
  <2> QED
    BY <2>1, <2>2 DEF DbInv
<1>3. StoreTypeOK
  BY <1>1, StoreAssumption DEF StoreTypeOK
<1>4. /\ scan \in [Procs -> ScanStates] /\ work \in [Workers -> WorkStates]
      /\ \A p \in Procs : scan[p] = ScanAt("poll")
      /\ \A t \in Workers : work[t] = WorkAt("poll")
  BY StartStates DEF ScanPcs, WorkPcs
<1>5. LedgerTypeOK
  BY <1>3, <1>4, LedgerAssumption DEF LedgerTypeOK
<1>6. GnosisTypeOK
  BY <1>4 DEF GnosisTypeOK, WorkStates
<1>7. LockInv
  BY <1>4 DEF LockInv, ScanAt, ScanInTx, WorkAt, WorkInTx
<1>8. \A p \in Procs : ScanInv(scan[p], wdb, ledger)
  BY <1>4 DEF ScanInv, ScanAt
<1>9. \A t \in Workers : WorkInv(work[t])
  BY <1>4 DEF WorkInv, WorkAt, WorkInTx
<1> QED
  BY <1>2, <1>5, <1>6, <1>7, <1>8, <1>9 DEF IInv, TypeOK

----------------------------------------------------------------------------
(* The four ways a step touches the lock.                                  *)

\* The type invariant, field by field.
LEMMA TypeFacts ==
  ASSUME IInv
  PROVE  /\ db \in Databases /\ wdb \in Databases
         /\ holder \subseteq Threads /\ failures \in 0 .. MaxFailures
         /\ ledger \in Seq(Blocks) /\ Len(ledger) <= MaxBlocks
         /\ scan \in [Procs -> ScanStates]
         /\ api \in [AuditedSafes -> Seq(RawGnosisTransactions)]
         /\ work \in [Workers -> WorkStates]
  BY DEF IInv, TypeOK, LedgerTypeOK, StoreTypeOK, GnosisTypeOK, WorkStates

\* A thread outside a transaction does not depend on the database.
LEMMA ScanOutside ==
  ASSUME NEW s, s.pc \in {"poll", "begin", "dead"}, NEW d, NEW d2, NEW l, ScanInv(s, d, l)
  PROVE  ScanInv(s, d2, l)
  BY DEF ScanInv

\* The main thread writes inside its transaction.
LEMMA ScanWrites ==
  ASSUME IInv, NEW p \in Procs, ScanThread(p) \in holder,
         wdb' \in Databases, DbInv(wdb'),
         scan' \in [Procs -> ScanStates],
         \A q \in Procs \ {p} : scan'[q] = scan[q],
         scan[p].pc \in ScanInTx, scan'[p].pc \in ScanInTx,
         ScanInv(scan'[p], wdb', ledger),
         UNCHANGED <<db, holder, failures, ledger, api, work>>
  PROVE  IInv'
<1> USE TypeFacts
<1>1. TypeOK'
  BY DEF TypeOK, LedgerTypeOK, StoreTypeOK, GnosisTypeOK, WorkStates
<1>2. holder = {ScanThread(p)}
  BY DEF IInv, LockInv
<1>3. \A q \in Procs \ {p} : scan[q].pc \notin ScanInTx
  BY <1>2, ScanThreadFacts DEF IInv, LockInv
<1>4. LockInv'
  BY <1>2, <1>3 DEF IInv, LockInv
<1>5. \A q \in Procs \ {p} : scan[q].pc \in {"poll", "begin", "dead"}
  BY <1>3 DEF ScanStates, ScanPcs, ScanInTx
<1>6. \A q \in Procs : ScanInv(scan'[q], wdb', ledger)
  BY <1>5, ScanOutside DEF IInv
<1> QED
  BY <1>1, <1>4, <1>6 DEF IInv

\* The main thread leaves its transaction, by a commit or a rollback.
LEMMA ScanLeaves ==
  ASSUME IInv, NEW p \in Procs, ScanThread(p) \in holder, holder' = holder \ {ScanThread(p)},
         db' \in {db, wdb}, wdb' \in {db, wdb},
         NEW pc \in {"poll", "dead"}, scan' = [scan EXCEPT ![p] = ScanAt(pc)],
         scan[p].pc \in ScanInTx,
         UNCHANGED <<failures, ledger, api, work>>
  PROVE  IInv'
<1> USE TypeFacts
<1>1. scan' \in [Procs -> ScanStates]
  BY StartStates DEF ScanPcs
<1>2. TypeOK'
  BY <1>1 DEF TypeOK, LedgerTypeOK, StoreTypeOK, GnosisTypeOK, WorkStates
<1>3. holder = {ScanThread(p)}
  BY DEF IInv, LockInv
<1>4. \A q \in Procs \ {p} : scan[q].pc \notin ScanInTx
  BY <1>3, ScanThreadFacts DEF IInv, LockInv
<1>5. \A t \in Workers : work[t].pc \notin WorkInTx
  BY <1>3, ScanThreadFacts DEF IInv, LockInv
<1>6. scan'[p].pc \notin ScanInTx
  BY DEF ScanAt, ScanInTx
<1>7. LockInv'
  BY <1>4, <1>5, <1>6 DEF LockInv
<1>8. \A q \in Procs \ {p} : scan[q].pc \in {"poll", "begin", "dead"}
  BY <1>4 DEF ScanStates, ScanPcs, ScanInTx
<1>9. \A q \in Procs \ {p} : ScanInv(scan'[q], wdb', ledger)
  BY <1>8, ScanOutside DEF IInv
<1>10. ScanInv(scan'[p], wdb', ledger)
  BY DEF ScanInv, ScanAt
<1>11. DbInv(db)' /\ DbInv(wdb)'
  BY DEF IInv
<1> QED
  BY <1>2, <1>7, <1>9, <1>10, <1>11 DEF IInv

\* The main thread moves outside a transaction, or gives up waiting for one.
LEMMA ScanMoves ==
  ASSUME IInv, NEW p \in Procs, scan' \in [Procs -> ScanStates],
         \A q \in Procs \ {p} : scan'[q] = scan[q],
         scan'[p].pc \in {"poll", "begin", "dead"}, ScanInv(scan'[p], wdb, ledger),
         failures' \in 0 .. MaxFailures,
         UNCHANGED <<db, wdb, holder, ledger, api, work>>
  PROVE  IInv'
<1> USE TypeFacts
<1>1. TypeOK'
  BY DEF TypeOK, LedgerTypeOK, StoreTypeOK, GnosisTypeOK, WorkStates
<1>2. LockInv'
  BY DEF IInv, LockInv, ScanInTx
<1> QED
  BY <1>1, <1>2 DEF IInv

\* The main thread takes the lock.
LEMMA ScanEnters ==
  ASSUME IInv, NEW p \in Procs, Begin(ScanThread(p)),
         scan' \in [Procs -> ScanStates],
         \A q \in Procs \ {p} : scan'[q] = scan[q],
         ScanInv(scan'[p], db, ledger),
         UNCHANGED <<ledger, api, work>>
  PROVE  IInv'
<1> USE TypeFacts DEF Begin
<1>1. TypeOK'
  BY ScanThreadFacts DEF TypeOK, LedgerTypeOK, StoreTypeOK, GnosisTypeOK, WorkStates
<1>2. \A q \in Procs : scan[q].pc \notin ScanInTx
  BY DEF IInv, LockInv
<1>3. \A t \in Workers : work[t].pc \notin WorkInTx
  BY DEF IInv, LockInv
<1>4. LockInv'
  BY <1>2, <1>3 DEF LockInv
<1>5. \A q \in Procs \ {p} : scan[q].pc \in {"poll", "begin", "dead"}
  BY <1>2 DEF ScanStates, ScanPcs, ScanInTx
<1>6. \A q \in Procs \ {p} : ScanInv(scan'[q], wdb', ledger)
  BY <1>5, ScanOutside DEF IInv
<1> QED
  BY <1>1, <1>4, <1>6 DEF IInv

\* A safe thread writes inside its transaction.
LEMMA WorkWrites ==
  ASSUME IInv, NEW t \in Workers, t \in holder,
         wdb' \in Databases, DbInv(wdb'),
         work' \in [Workers -> WorkStates],
         \A u \in Workers \ {t} : work'[u] = work[u],
         work[t].pc \in WorkInTx, work'[t].pc \in WorkInTx, WorkInv(work'[t]),
         UNCHANGED <<db, holder, failures, ledger, scan, api>>
  PROVE  IInv'
<1> USE TypeFacts
<1>1. TypeOK'
  BY DEF TypeOK, LedgerTypeOK, StoreTypeOK, GnosisTypeOK, WorkStates
<1>2. holder = {t}
  BY DEF IInv, LockInv
<1>3. \A q \in Procs : scan[q].pc \notin ScanInTx
  BY <1>2, ScanThreadFacts DEF IInv, LockInv
<1>4. \A u \in Workers \ {t} : work[u].pc \notin WorkInTx
  BY <1>2 DEF IInv, LockInv
<1>5. LockInv'
  BY <1>2, <1>3, <1>4 DEF LockInv
<1>6. \A q \in Procs : scan[q].pc \in {"poll", "begin", "dead"}
  BY <1>3 DEF ScanStates, ScanPcs, ScanInTx
<1>7. \A q \in Procs : ScanInv(scan'[q], wdb', ledger)
  BY <1>6, ScanOutside DEF IInv
<1>8. \A u \in Workers : WorkInv(work'[u])
  BY DEF IInv
<1> QED
  BY <1>1, <1>5, <1>7, <1>8 DEF IInv

\* A safe thread leaves its transaction, by a commit or a rollback.
LEMMA WorkLeaves ==
  ASSUME IInv, NEW t \in Workers, t \in holder, holder' = holder \ {t},
         db' \in {db, wdb}, wdb' \in {db, wdb},
         work' \in [Workers -> WorkStates],
         \A u \in Workers \ {t} : work'[u] = work[u],
         work[t].pc \in WorkInTx, work'[t].pc \in {"poll", "begin", "dead"},
         UNCHANGED <<failures, ledger, scan, api>>
  PROVE  IInv'
<1> USE TypeFacts
<1>1. TypeOK'
  BY DEF TypeOK, LedgerTypeOK, StoreTypeOK, GnosisTypeOK, WorkStates
<1>2. holder = {t}
  BY DEF IInv, LockInv
<1>3. \A q \in Procs : scan[q].pc \notin ScanInTx
  BY <1>2, ScanThreadFacts DEF IInv, LockInv
<1>4. \A u \in Workers \ {t} : work[u].pc \notin WorkInTx
  BY <1>2 DEF IInv, LockInv
<1>5. work'[t].pc \notin WorkInTx
  BY DEF WorkInTx
<1>6. LockInv'
  BY <1>3, <1>4, <1>5 DEF LockInv
<1>7. \A q \in Procs : scan[q].pc \in {"poll", "begin", "dead"}
  BY <1>3 DEF ScanStates, ScanPcs, ScanInTx
<1>8. \A q \in Procs : ScanInv(scan'[q], wdb', ledger)
  BY <1>7, ScanOutside DEF IInv
<1>9. \A u \in Workers : WorkInv(work'[u])
  BY <1>5 DEF IInv, WorkInv, WorkInTx
<1>10. DbInv(db)' /\ DbInv(wdb)'
  BY DEF IInv
<1> QED
  BY <1>1, <1>6, <1>8, <1>9, <1>10 DEF IInv

\* A safe thread moves outside a transaction, or gives up waiting for one.
LEMMA WorkMoves ==
  ASSUME IInv, NEW t \in Workers, work' \in [Workers -> WorkStates],
         \A u \in Workers \ {t} : work'[u] = work[u],
         work'[t].pc \in {"poll", "begin", "dead"},
         failures' \in 0 .. MaxFailures,
         UNCHANGED <<db, wdb, holder, ledger, scan, api>>
  PROVE  IInv'
<1> USE TypeFacts
<1>1. TypeOK'
  BY DEF TypeOK, LedgerTypeOK, StoreTypeOK, GnosisTypeOK, WorkStates
<1>2. work'[t].pc \notin WorkInTx
  BY DEF WorkInTx
<1>3. LockInv'
  BY <1>2 DEF IInv, LockInv
<1>4. \A u \in Workers : WorkInv(work'[u])
  BY <1>2 DEF IInv, WorkInv, WorkInTx
<1> QED
  BY <1>1, <1>3, <1>4 DEF IInv

\* A safe thread takes the lock.
LEMMA WorkEnters ==
  ASSUME IInv, NEW t \in Workers, Begin(t),
         work' \in [Workers -> WorkStates],
         \A u \in Workers \ {t} : work'[u] = work[u],
         WorkInv(work'[t]),
         UNCHANGED <<ledger, scan, api>>
  PROVE  IInv'
<1> USE TypeFacts DEF Begin
<1>1. TypeOK'
  BY DEF TypeOK, LedgerTypeOK, StoreTypeOK, GnosisTypeOK, WorkStates, Threads
<1>2. \A q \in Procs : scan[q].pc \notin ScanInTx
  BY DEF IInv, LockInv
<1>3. \A u \in Workers : work[u].pc \notin WorkInTx
  BY DEF IInv, LockInv
<1>4. LockInv'
  BY <1>2, <1>3 DEF LockInv
<1>5. \A q \in Procs : scan[q].pc \in {"poll", "begin", "dead"}
  BY <1>2 DEF ScanStates, ScanPcs, ScanInTx
<1>6. \A q \in Procs : ScanInv(scan'[q], wdb', ledger)
  BY <1>5, ScanOutside DEF IInv
<1>7. \A u \in Workers : WorkInv(work'[u])
  BY DEF IInv
<1> QED
  BY <1>1, <1>4, <1>6, <1>7 DEF IInv

\* A process goes down, or is started again: its transaction is rolled back.
LEMMA ProcessResets ==
  ASSUME IInv, NEW p \in Procs, NEW pc \in {"poll", "dead"},
         RollbackOf(ThreadsOf(p)),
         scan' = [scan EXCEPT ![p] = ScanAt(pc)],
         work' = [t \in Workers |-> IF t[1] = p THEN WorkAt(pc) ELSE work[t]],
         failures' \in 0 .. MaxFailures,
         UNCHANGED <<ledger, api>>
  PROVE  IInv'
<1> USE TypeFacts
<1>1. scan' \in [Procs -> ScanStates] /\ work' \in [Workers -> WorkStates]
  BY StartStates DEF ScanPcs, WorkPcs
<1>2. TypeOK'
  BY <1>1 DEF TypeOK, LedgerTypeOK, StoreTypeOK, GnosisTypeOK, WorkStates, RollbackOf
<1>3. scan'[p].pc \notin ScanInTx
  BY DEF ScanAt, ScanInTx
<1>4. ASSUME NEW q \in Procs \ {p}, scan[q].pc \in ScanInTx
      PROVE  holder' = {ScanThread(q)} /\ wdb' = wdb
  <2>1. holder = {ScanThread(q)}
    BY <1>4 DEF IInv, LockInv
  <2>2. ScanThread(q) \notin ThreadsOf(p)
    BY DEF ScanThread, ThreadsOf
  <2> QED
    BY <2>1, <2>2 DEF RollbackOf
<1>5. ASSUME NEW t \in Workers, work'[t].pc \in WorkInTx
      PROVE  holder' = {t}
  <2>1. t[1] # p /\ work[t].pc \in WorkInTx
    BY <1>5 DEF WorkAt, WorkInTx
  <2>2. holder = {t}
    BY <2>1 DEF IInv, LockInv
  <2>3. t \notin ThreadsOf(p)
    BY <2>1 DEF ThreadsOf
  <2> QED
    BY <2>2, <2>3 DEF RollbackOf
<1>6. LockInv'
  BY <1>3, <1>4, <1>5 DEF LockInv
<1>7. ASSUME NEW q \in Procs PROVE ScanInv(scan'[q], wdb', ledger)
  <2>1. CASE q = p
    BY <2>1 DEF ScanInv, ScanAt
  <2>2. CASE q # p /\ scan[q].pc \in ScanInTx
    BY <1>4, <2>2 DEF IInv
  <2>3. CASE q # p /\ scan[q].pc \notin ScanInTx
    <3>1. scan[q].pc \in {"poll", "begin", "dead"} /\ scan'[q] = scan[q]
      BY <2>3 DEF ScanStates, ScanPcs, ScanInTx
    <3> QED
      BY <3>1, ScanOutside DEF IInv
  <2> QED
    BY <2>1, <2>2, <2>3
<1>8. \A t \in Workers : WorkInv(work'[t])
  BY DEF IInv, WorkInv, WorkAt, WorkInTx
<1>9. DbInv(db)' /\ DbInv(wdb)'
  BY DEF IInv, RollbackOf
<1> QED
  BY <1>2, <1>6, <1>7, <1>8, <1>9 DEF IInv

----------------------------------------------------------------------------
(* The steps of the main thread.                                           *)

\* What Goto and NextItem do to the state of the thread.
LEMMA GotoFacts ==
  ASSUME scan \in [Procs -> ScanStates], NEW p \in Procs, NEW pc \in ScanPcs, Goto(p, pc)
  PROVE  /\ scan' \in [Procs -> ScanStates]
         /\ \A q \in Procs \ {p} : scan'[q] = scan[q]
         /\ scan'[p].pc = pc /\ scan'[p].pos = 1
         /\ scan'[p].block_index = scan[p].block_index /\ scan'[p].bal = scan[p].bal
<1>1. PICK x \in ScanStates : x = scan[p]
  OBVIOUS
<1> DEFINE s == [x EXCEPT !.pc = pc, !.pos = 1]
<1>2. s \in ScanStates
  <2>1. 1 \in Nat \ {0}
    OBVIOUS
  <2> QED
    BY <2>1 DEF ScanStates
<1>3. s.pc = pc /\ s.pos = 1 /\ s.block_index = x.block_index /\ s.bal = x.bal
  BY DEF ScanStates
<1>4. scan' = [scan EXCEPT ![p] = s]
  BY <1>1 DEF Goto
<1> HIDE DEF s
<1> QED
  BY <1>1, <1>2, <1>3, <1>4

\* What NextItem(p) does to the main threads.
LEMMA NextItemFacts ==
  ASSUME scan \in [Procs -> ScanStates], NEW p \in Procs, NextItem(p)
  PROVE  /\ scan' \in [Procs -> ScanStates]
         /\ \A q \in Procs \ {p} : scan'[q] = scan[q]
         /\ scan'[p].pc = scan[p].pc /\ scan'[p].pos = scan[p].pos + 1
         /\ scan'[p].block_index = scan[p].block_index /\ scan'[p].bal = scan[p].bal
<1>1. PICK x \in ScanStates : x = scan[p]
  OBVIOUS
<1> DEFINE s == [x EXCEPT !.pos = x.pos + 1]
<1>2. s \in ScanStates
  <2>1. x.pos + 1 \in Nat \ {0}
    BY DEF ScanStates
  <2> QED
    BY <2>1 DEF ScanStates
<1>3. s.pc = x.pc /\ s.pos = x.pos + 1 /\ s.block_index = x.block_index /\ s.bal = x.bal
  BY DEF ScanStates
<1>4. scan' = [scan EXCEPT ![p] = s]
  BY <1>1 DEF NextItem
<1> HIDE DEF s
<1> QED
  BY <1>1, <1>2, <1>3, <1>4

\* The block a thread works on exists.
LEMMA ContentsType ==
  ASSUME IInv, NEW p \in Procs, scan[p].pc \notin {"poll", "dead"}
  PROVE  /\ Contents(p) \in BlockContents
         /\ scan[p].block_index \in Nat /\ scan[p].pos \in Nat \ {0}
         /\ scan[p].bal \in BalanceMaps
<1>1. scan[p] \in ScanStates /\ ledger \in Seq(Blocks)
  BY TypeFacts
<1>2. scan[p].block_index \in Nat /\ scan[p].pos \in Nat \ {0} /\ scan[p].bal \in BalanceMaps
  BY <1>1 DEF ScanStates
<1>3. scan[p].block_index < Len(ledger)
  BY DEF IInv, ScanInv
<1>4. scan[p].block_index + 1 \in 1 .. Len(ledger)
  BY <1>1, <1>2, <1>3
<1> QED
  BY <1>1, <1>2, <1>4, LedgerAssumption DEF Contents

\* Rows that grow keep what is stored; a frame that keeps the blocks keeps
\* DbInv.
LEMMA StoredGrows ==
  ASSUME NEW d, NEW d2, RowsGrow(d, d2)
  PROVE  /\ \A txs, n : MintsStored(d, txs, n) => MintsStored(d2, txs, n)
         /\ \A outs, n : BurnsStored(d, outs, n) => BurnsStored(d2, outs, n)
  BY DEF RowsGrow, MintsStored, BurnsStored, MintStored, BurnStored

\* The part of the invariant about a database depends on its blocks and
\* mint configs only.
LEMMA DbInvKept ==
  ASSUME NEW d, NEW d2, KeepsBlocks(d, d2), DbInv(d)
  PROVE  DbInv(d2)
  BY DEF KeepsBlocks, DbInv

\* sync_loop picks a block that exists.
LEMMA SyncLoopInv ==
  ASSUME IInv, NEW p \in Procs, SyncLoop(p), UNCHANGED gnosisVars
  PROVE  IInv'
<1> DEFINE n == db.counters["num_blocks_synced"]
<1>1. n \in Nat
  BY TypeFacts DEF Databases, CounterNames
<1>2. db.block_audit_data = 0 .. n - 1
  BY DEF IInv, DbInv
<1>3. num_blocks_synced(db) = n
  <2>1. CASE n = 0
    BY <1>2, <2>1 DEF num_blocks_synced
  <2>2. CASE n # 0
    <3>1. db.block_audit_data # {}
      BY <1>1, <1>2, <2>2
    <3>2. /\ n - 1 \in db.block_audit_data
          /\ \A x \in db.block_audit_data : n - 1 >= x
      BY <1>1, <1>2, <2>2
    <3>3. \A y \in db.block_audit_data : y \in Int /\ (y >= n - 1 => y = n - 1)
      BY <1>1, <1>2
    <3>4. Max(db.block_audit_data) = n - 1
      BY <1>1, <3>2, <3>3 DEF Max
    <3> QED
      BY <1>1, <3>1, <3>4 DEF num_blocks_synced
  <2> QED
    BY <2>1, <2>2
<1>4. /\ scan' \in [Procs -> ScanStates]
      /\ \A q \in Procs \ {p} : scan'[q] = scan[q]
      /\ scan'[p].pc = "begin" /\ scan'[p].block_index = n
  BY <1>1, <1>3, TypeFacts DEF SyncLoop, ScanStates, ScanPcs
<1>5. n < Len(ledger)
  BY <1>3 DEF SyncLoop
<1>6. ScanInv(scan'[p], wdb, ledger)
  BY <1>4, <1>5 DEF ScanInv
<1>7. failures' \in 0 .. MaxFailures /\ UNCHANGED <<db, wdb, holder, ledger, api, work>>
  BY TypeFacts DEF SyncLoop, storeVars, gnosisVars
<1> HIDE DEF n
<1> QED
  BY <1>4, <1>6, <1>7, ScanMoves

\* Taking the lock, or giving up waiting for it.
LEMMA BeginBlockInv ==
  ASSUME IInv, NEW p \in Procs, BeginBlock(p) \/ BlockLockTimeout(p), UNCHANGED gnosisVars
  PROVE  IInv'
<1>1. CASE BeginBlock(p)
  <2>1. "check_index" \in ScanPcs
    BY DEF ScanPcs
  <2>2. /\ scan' \in [Procs -> ScanStates]
        /\ \A q \in Procs \ {p} : scan'[q] = scan[q]
        /\ scan'[p].pc = "check_index" /\ scan'[p].block_index = scan[p].block_index
    BY <1>1, <2>1, GotoFacts, TypeFacts DEF BeginBlock
  <2>3. ScanInv(scan'[p], db, ledger)
    BY <1>1, <2>2 DEF IInv, ScanInv, BeginBlock
  <2>4. Begin(ScanThread(p)) /\ UNCHANGED <<ledger, api, work>>
    BY <1>1 DEF BeginBlock, gnosisVars
  <2> QED
    BY <2>2, <2>3, <2>4, ScanEnters
<1>2. CASE BlockLockTimeout(p)
  <2>1. ScanAt("dead") \in ScanStates
    BY StartStates DEF ScanPcs
  <2>2. scan' = [scan EXCEPT ![p] = ScanAt("dead")]
    BY <1>2 DEF BlockLockTimeout
  <2>3. /\ scan' \in [Procs -> ScanStates] /\ scan'[p] = ScanAt("dead")
        /\ \A q \in Procs \ {p} : scan'[q] = scan[q]
    BY <2>1, <2>2, TypeFacts
  <2>4. ScanInv(scan'[p], wdb, ledger) /\ scan'[p].pc \in {"poll", "begin", "dead"}
    BY <2>3 DEF ScanInv, ScanAt
  <2>5. failures' \in 0 .. MaxFailures
    BY <1>2, StoreAssumption, TypeFacts DEF BlockLockTimeout, LockTimeout
  <2>6. UNCHANGED <<db, wdb, holder, ledger, api, work>>
    BY <1>2 DEF BlockLockTimeout, LockTimeout, gnosisVars
  <2> QED
    BY <2>3, <2>4, <2>5, <2>6, ScanMoves
<1> QED
  BY <1>1, <1>2

\* The steps of sync_block_with_conn that write nothing.
LEMMA QuietStepsInv ==
  ASSUME IInv, NEW p \in Procs, UNCHANGED gnosisVars,
         \/ CheckBlockIndex(p) \/ LoadBalances(p) \/ MintTxsDone(p) \/ SkipOutput(p)
         \/ AuditMintsDone(p) \/ AuditBurnsDone(p)
  PROVE  IInv'
<1> DEFINE s == scan'[p]
<1> USE TypeFacts DEF ScanPcs, ScanInTx
<1>1. /\ ScanThread(p) \in holder /\ wdb' = wdb
      /\ UNCHANGED <<db, holder, failures, ledger, api, work>>
  BY DEF CheckBlockIndex, LoadBalances, MintTxsDone, SkipOutput, AuditMintsDone,
         AuditBurnsDone, Write, gnosisVars
<1>2. /\ wdb' \in Databases /\ DbInv(wdb') /\ ScanInv(scan[p], wdb, ledger)
  BY <1>1 DEF IInv
<1>3. scan[p].pc \in ScanInTx
  BY DEF CheckBlockIndex, LoadBalances, MintTxsDone, SkipOutput, AuditMintsDone, AuditBurnsDone
<1>4. /\ Contents(p) \in BlockContents
      /\ scan[p].block_index \in Nat /\ scan[p].pos \in Nat \ {0}
  BY <1>3, ContentsType
<1>5. SUFFICES /\ scan' \in [Procs -> ScanStates]
               /\ \A q \in Procs \ {p} : scan'[q] = scan[q]
               /\ s.pc \in ScanInTx /\ ScanInv(s, wdb, ledger)
  BY <1>1, <1>2, <1>3, ScanWrites
<1>6. CASE CheckBlockIndex(p)
  <2>1. /\ scan' \in [Procs -> ScanStates] /\ \A q \in Procs \ {p} : scan'[q] = scan[q]
        /\ s.pc = "mint_config_txs" /\ s.block_index = scan[p].block_index
    BY <1>6, GotoFacts DEF CheckBlockIndex
  <2>2. s.block_index = wdb.counters["num_blocks_synced"]
    BY <1>6, <2>1 DEF CheckBlockIndex, IsNextBlock
  <2> QED
    BY <1>2, <1>6, <2>1, <2>2 DEF ScanInv, CheckBlockIndex
<1>7. CASE LoadBalances(p)
  <2> DEFINE bal == IF scan[p].block_index = 0 THEN ZeroBalances
                    ELSE get_balances_for_block(wdb, scan[p].block_index - 1)
  <2>1. bal \in BalanceMaps
    BY BalancesType, DbAssumption DEF ZeroBalances, BalanceMaps, U64
  <2>2. PICK x \in ScanStates : x = scan[p]
    OBVIOUS
  <2>3. PICK b \in BalanceMaps : b = bal
    BY <2>1
  <2> DEFINE y == [x EXCEPT !.pc = "mint_txs", !.pos = 1, !.bal = b]
  <2>4. y \in ScanStates
    <3>1. 1 \in Nat \ {0} /\ "mint_txs" \in ScanPcs
      OBVIOUS
    <3> QED
      BY <3>1 DEF ScanStates
  <2>5. y.pc = "mint_txs" /\ y.pos = 1 /\ y.block_index = x.block_index
    BY DEF ScanStates
  <2>6. scan' = [scan EXCEPT ![p] = y]
    BY <1>7, <2>2, <2>3 DEF LoadBalances
  <2> HIDE DEF y
  <2>7. /\ scan' \in [Procs -> ScanStates] /\ \A q \in Procs \ {p} : scan'[q] = scan[q]
        /\ s.pc = "mint_txs" /\ s.pos = 1 /\ s.block_index = scan[p].block_index
    BY <2>2, <2>4, <2>5, <2>6
  <2>8. MintsStored(wdb, Contents(p).mint_txs, 1)
    <3>1. Contents(p).mint_txs \in Seq(CoreMintTxs)
      BY <1>4 DEF BlockContents
    <3> QED
      BY <3>1 DEF MintsStored
  <2> QED
    BY <1>2, <1>7, <2>7, <2>8 DEF ScanInv, LoadBalances, Contents
<1>8. CASE MintTxsDone(p)
  <2>1. /\ scan' \in [Procs -> ScanStates] /\ \A q \in Procs \ {p} : scan'[q] = scan[q]
        /\ s.pc = "burns" /\ s.pos = 1 /\ s.block_index = scan[p].block_index
    BY <1>8, GotoFacts DEF MintTxsDone
  <2>2. /\ Contents(p).mint_txs \in Seq(CoreMintTxs) /\ Contents(p).outputs \in Seq(TxOuts)
    BY <1>4 DEF BlockContents
  <2>3. MintsStored(wdb, Contents(p).mint_txs, scan[p].pos)
    BY <1>2, <1>8 DEF ScanInv, MintTxsDone, Contents
  <2>4. MintsStored(wdb, Contents(p).mint_txs, Len(Contents(p).mint_txs) + 1)
    <3>1. \A i \in DOMAIN Contents(p).mint_txs : i < scan[p].pos
      BY <1>4, <1>8, <2>2 DEF MintTxsDone
    <3> QED
      BY <2>3, <3>1 DEF MintsStored
  <2>5. BurnsStored(wdb, Contents(p).outputs, 1)
    BY <2>2 DEF BurnsStored
  <2> QED
    BY <1>2, <1>8, <2>1, <2>4, <2>5 DEF ScanInv, MintTxsDone, Contents
<1>9. CASE SkipOutput(p)
  <2>1. /\ scan' \in [Procs -> ScanStates] /\ \A q \in Procs \ {p} : scan'[q] = scan[q]
        /\ s.pc = scan[p].pc /\ s.pos = scan[p].pos + 1 /\ s.block_index = scan[p].block_index
    BY <1>9, NextItemFacts DEF SkipOutput
  <2>2. scan[p].pc \in {"burns", "audit_burns"} /\ ~Output(p).burn
    BY <1>9 DEF SkipOutput
  <2>3. CASE scan[p].pc = "audit_burns"
    BY <1>2, <2>1, <2>3 DEF ScanInv
  <2>4. CASE scan[p].pc = "burns"
    <3>1. BurnsStored(wdb, Contents(p).outputs, scan[p].pos)
      BY <1>2, <2>4 DEF ScanInv, Contents
    <3>2. Contents(p).outputs \in Seq(TxOuts)
      BY <1>4 DEF BlockContents
    <3>3. \A i \in DOMAIN Contents(p).outputs :
            i < scan[p].pos + 1 /\ Contents(p).outputs[i].burn => i < scan[p].pos
      BY <1>4, <2>2, <3>2 DEF Output
    <3>4. BurnsStored(wdb, Contents(p).outputs, scan[p].pos + 1)
      BY <3>1, <3>3 DEF BurnsStored
    <3> QED
      BY <1>2, <2>1, <2>4, <3>4 DEF ScanInv, Contents
  <2> QED
    BY <2>2, <2>3, <2>4
<1>10. CASE AuditMintsDone(p)
  <2>1. /\ scan' \in [Procs -> ScanStates] /\ \A q \in Procs \ {p} : scan'[q] = scan[q]
        /\ s.pc = "audit_burns" /\ s.block_index = scan[p].block_index
    BY <1>10, GotoFacts DEF AuditMintsDone
  <2> QED
    BY <1>2, <1>10, <2>1 DEF ScanInv, AuditMintsDone
<1>11. CASE AuditBurnsDone(p)
  <2>1. /\ scan' \in [Procs -> ScanStates] /\ \A q \in Procs \ {p} : scan'[q] = scan[q]
        /\ s.pc = "commit" /\ s.block_index = scan[p].block_index
    BY <1>11, GotoFacts DEF AuditBurnsDone
  <2> QED
    BY <1>2, <1>11, <2>1 DEF ScanInv, AuditBurnsDone
<1> QED
  BY <1>6, <1>7, <1>8, <1>9, <1>10, <1>11

\* Storing a mint config: the UNIQUE constraints keep DbInv.
LEMMA StoreMintConfigTxInv ==
  ASSUME IInv, NEW p \in Procs, UNCHANGED gnosisVars, StoreMintConfigTx(p)
  PROVE  IInv'
<1> DEFINE n == scan[p].block_index
           tx == Contents(p).mint_config_txs[scan[p].pos]
<1> USE TypeFacts DEF ScanPcs, ScanInTx
<1>1. scan[p].pc = "mint_config_txs" /\ ScanInv(scan[p], wdb, ledger)
  BY DEF StoreMintConfigTx, IInv
<1>2. /\ Contents(p) \in BlockContents /\ n \in Nat /\ scan[p].pos \in Nat \ {0}
  BY <1>1, ContentsType
<1>3. tx \in CoreMintConfigTxs
  <2>1. Contents(p).mint_config_txs \in Seq(CoreMintConfigTxs)
    BY <1>2 DEF BlockContents
  <2>2. scan[p].pos \in 1 .. Len(Contents(p).mint_config_txs)
    BY <1>2, <2>1 DEF StoreMintConfigTx
  <2> QED
    BY <2>1, <2>2
<1>4. /\ ScanThread(p) \in holder
      /\ UNCHANGED <<db, holder, failures, ledger, api, work>>
      /\ wdb' = insert_from_core_mint_config_tx(wdb, n, tx)
      /\ ~MintConfigTxExists(wdb, n, tx)
  BY DEF StoreMintConfigTx, Write, gnosisVars
<1> HIDE DEF tx, n
<1>5. PICK k \in Nat, c \in CoreMintConfigTxs : k = n /\ c = tx
  BY <1>2, <1>3 DEF n
<1>6. wdb \in Databases /\ wdb' = insert_from_core_mint_config_tx(wdb, k, c)
  BY <1>4, <1>5
<1>7. PICK row \in MintConfigTxRows :
        /\ row.block_index = k /\ row.token_id = c.token_id
        /\ wdb'.mint_config_txs = wdb.mint_config_txs \cup {row}
  BY ONLY <1>6, MintConfigInsert
<1>8. wdb' \in Databases
  BY ONLY <1>6, MintConfigInsert
<1>9. wdb'.block_audit_data = wdb.block_audit_data /\ wdb'.counters = wdb.counters
  BY ONLY <1>6, MintConfigInsert
<1>10. DbInv(wdb')
  BY <1>4, <1>5, <1>7, <1>9 DEF IInv, DbInv, MintConfigTxExists
<1>11. /\ scan' \in [Procs -> ScanStates] /\ \A q \in Procs \ {p} : scan'[q] = scan[q]
      /\ scan'[p].pc = "mint_config_txs" /\ scan'[p].block_index = n
  BY <1>1, NextItemFacts DEF StoreMintConfigTx, n
<1>12. ScanInv(scan'[p], wdb', ledger)
  BY <1>1, <1>9, <1>11 DEF ScanInv, n
<1> QED
  BY <1>1, <1>4, <1>8, <1>10, <1>11, <1>12, ScanWrites

\* Storing a mint.
LEMMA StoreMintTxInv ==
  ASSUME IInv, NEW p \in Procs, UNCHANGED gnosisVars, StoreMintTx(p)
  PROVE  IInv'
<1> DEFINE n == scan[p].block_index
           txs == Contents(p).mint_txs
           tx == txs[scan[p].pos]
<1> USE TypeFacts DEF ScanPcs, ScanInTx
<1>1. scan[p].pc = "mint_txs" /\ ScanInv(scan[p], wdb, ledger)
  BY DEF StoreMintTx, IInv
<1>2. /\ Contents(p) \in BlockContents /\ n \in Nat /\ scan[p].pos \in Nat \ {0}
      /\ scan[p].bal \in BalanceMaps
  BY <1>1, ContentsType
<1>3. txs \in Seq(CoreMintTxs)
  BY <1>2 DEF BlockContents
<1>4. tx \in CoreMintTxs
  <2>1. scan[p].pos \in 1 .. Len(txs)
    BY <1>2, <1>3 DEF StoreMintTx
  <2> QED
    BY <1>3, <2>1
<1>5. /\ ScanThread(p) \in holder
      /\ UNCHANGED <<db, holder, failures, ledger, api, work>>
      /\ wdb' = store_mint_tx(wdb, n, tx)
      /\ scan' = [scan EXCEPT ![p].pos = @ + 1, ![p].bal = mint_balance(@, tx)]
  BY DEF StoreMintTx, Write, gnosisVars
<1>6. \A c, o \in wdb.mint_config_txs :
        c.block_index = o.block_index /\ c.token_id = o.token_id => c = o
  BY DEF IInv, DbInv
<1>7. MintsStored(wdb, txs, scan[p].pos)
  BY <1>1 DEF ScanInv, Contents
<1> HIDE DEF tx
<1>8. /\ wdb' \in Databases
      /\ KeepsBlocks(wdb, wdb') /\ RowsGrow(wdb, wdb')
  BY <1>2, <1>4, <1>5, <1>6, MintInsert
<1>9. DbInv(wdb')
  BY <1>8, DbInvKept DEF IInv
<1>10. MintStored(wdb', tx)
  <2>1. wdb \in Databases /\ n \in Nat /\ wdb' = store_mint_tx(wdb, n, tx)
    BY <1>2, <1>5
  <2>2. \E m \in MintTxRows :
          /\ m.nonce = tx.nonce /\ m.amount = tx.amount /\ m.token_id = tx.token_id
          /\ wdb'.mint_txs = wdb.mint_txs \cup {m}
    BY ONLY <1>4, <1>6, <2>1, MintInsert
  <2> QED
    BY <2>2 DEF MintStored
<1>11. MintsStored(wdb', txs, scan[p].pos + 1)
  <2>1. MintsStored(wdb', txs, scan[p].pos)
    BY <1>7, <1>8, StoredGrows
  <2>2. \A i \in DOMAIN txs : i < scan[p].pos + 1 => i < scan[p].pos \/ i = scan[p].pos
    BY <1>2, <1>3
  <2> QED
    BY <1>10, <2>1, <2>2 DEF MintsStored, tx
<1>12. PICK x \in ScanStates : x = scan[p]
  OBVIOUS
<1>13. PICK b \in BalanceMaps : b = mint_balance(scan[p].bal, tx)
  BY <1>2, <1>4, AccountingType
<1> DEFINE y == [x EXCEPT !.pos = x.pos + 1, !.bal = b]
<1>14. y \in ScanStates
  <2>1. x.pos + 1 \in Nat \ {0}
    BY DEF ScanStates
  <2> QED
    BY <2>1 DEF ScanStates
<1>15. y.pc = x.pc /\ y.pos = x.pos + 1 /\ y.block_index = x.block_index
  BY DEF ScanStates
<1>16. scan' = [scan EXCEPT ![p] = y]
  BY <1>5, <1>12, <1>13
<1> HIDE DEF y
<1>17. /\ scan' \in [Procs -> ScanStates] /\ \A q \in Procs \ {p} : scan'[q] = scan[q]
       /\ scan'[p].pc = "mint_txs" /\ scan'[p].block_index = n
       /\ scan'[p].pos = scan[p].pos + 1
  BY <1>1, <1>12, <1>14, <1>15, <1>16
<1>18. ScanInv(scan'[p], wdb', ledger)
  BY <1>1, <1>8, <1>11, <1>17 DEF ScanInv, KeepsBlocks, Contents
<1> QED
  BY <1>1, <1>5, <1>8, <1>9, <1>17, <1>18, ScanWrites

\* Storing a burn.
LEMMA StoreBurnTxOutInv ==
  ASSUME IInv, NEW p \in Procs, UNCHANGED gnosisVars, StoreBurnTxOut(p)
  PROVE  IInv'
<1> DEFINE n == scan[p].block_index
           outs == Contents(p).outputs
           o == outs[scan[p].pos]
           txs == Contents(p).mint_txs
<1> USE TypeFacts DEF ScanPcs, ScanInTx
<1>1. scan[p].pc = "burns" /\ ScanInv(scan[p], wdb, ledger)
  BY DEF StoreBurnTxOut, IInv
<1>2. /\ Contents(p) \in BlockContents /\ n \in Nat /\ scan[p].pos \in Nat \ {0}
      /\ scan[p].bal \in BalanceMaps
  BY <1>1, ContentsType
<1>3. outs \in Seq(TxOuts)
  BY <1>2 DEF BlockContents
<1>4. o \in TxOuts
  <2>1. scan[p].pos \in 1 .. Len(outs)
    BY <1>2, <1>3 DEF StoreBurnTxOut, AtOutput
  <2> QED
    BY <1>3, <2>1
<1>5. /\ ScanThread(p) \in holder
      /\ UNCHANGED <<db, holder, failures, ledger, api, work>>
      /\ wdb' = store_burn_tx_out(wdb, scan[p].bal, n, o)
      /\ scan' = [scan EXCEPT ![p].pos = @ + 1, ![p].bal = burn_balance(@, o)]
  BY DEF StoreBurnTxOut, Write, gnosisVars, Output
<1>6. BurnsStored(wdb, outs, scan[p].pos) /\ MintsStored(wdb, txs, Len(txs) + 1)
  BY <1>1 DEF ScanInv, Contents
<1> HIDE DEF o
<1>7. /\ wdb' \in Databases
      /\ KeepsBlocks(wdb, wdb') /\ RowsGrow(wdb, wdb')
  BY <1>2, <1>4, <1>5, BurnInsert
<1>8. DbInv(wdb')
  BY <1>7, DbInvKept DEF IInv
<1>9. BurnStored(wdb', o)
  BY <1>2, <1>4, <1>5, BurnInsert DEF BurnStored
<1>10. BurnsStored(wdb', outs, scan[p].pos + 1)
  <2>1. BurnsStored(wdb', outs, scan[p].pos)
    BY <1>6, <1>7, StoredGrows
  <2>2. \A i \in DOMAIN outs : i < scan[p].pos + 1 => i < scan[p].pos \/ i = scan[p].pos
    BY <1>2, <1>3
  <2> QED
    BY <1>9, <2>1, <2>2 DEF BurnsStored, o
<1>11. MintsStored(wdb', txs, Len(txs) + 1)
  BY <1>6, <1>7, StoredGrows
<1>12. PICK x \in ScanStates : x = scan[p]
  OBVIOUS
<1>13. PICK b \in BalanceMaps : b = burn_balance(scan[p].bal, o)
  BY <1>2, <1>4, AccountingType
<1> DEFINE y == [x EXCEPT !.pos = x.pos + 1, !.bal = b]
<1>14. y \in ScanStates
  <2>1. x.pos + 1 \in Nat \ {0}
    BY DEF ScanStates
  <2> QED
    BY <2>1 DEF ScanStates
<1>15. y.pc = x.pc /\ y.pos = x.pos + 1 /\ y.block_index = x.block_index
  BY DEF ScanStates
<1>16. scan' = [scan EXCEPT ![p] = y]
  BY <1>5, <1>12, <1>13
<1> HIDE DEF y
<1>17. /\ scan' \in [Procs -> ScanStates] /\ \A q \in Procs \ {p} : scan'[q] = scan[q]
       /\ scan'[p].pc = "burns" /\ scan'[p].block_index = n
       /\ scan'[p].pos = scan[p].pos + 1
  BY <1>1, <1>12, <1>14, <1>15, <1>16
<1>18. ScanInv(scan'[p], wdb', ledger)
  BY <1>1, <1>7, <1>10, <1>11, <1>17 DEF ScanInv, KeepsBlocks, Contents
<1> QED
  BY <1>1, <1>5, <1>7, <1>8, <1>17, <1>18, ScanWrites

\* Finishing a block extends the set of synced blocks by the next index.
LEMMA FinishBlockInv ==
  ASSUME IInv, NEW p \in Procs, UNCHANGED gnosisVars, FinishBlock(p)
  PROVE  IInv'
<1> DEFINE n == scan[p].block_index
           outs == Contents(p).outputs
           txs == Contents(p).mint_txs
<1>1. scan[p].pc = "burns" /\ ScanInv(scan[p], wdb, ledger) /\ ~AtOutput(p)
  BY DEF FinishBlock, IInv
<1>2. /\ Contents(p) \in BlockContents /\ n \in Nat /\ scan[p].pos \in Nat \ {0}
      /\ scan[p].bal \in BalanceMaps
  BY <1>1, ContentsType
<1>3. outs \in Seq(TxOuts)
  BY <1>2 DEF BlockContents
<1>4. /\ ScanThread(p) \in holder
      /\ UNCHANGED <<db, holder, failures, ledger, api, work>>
      /\ wdb' = finish_block(wdb, n, scan[p].bal)
      /\ Goto(p, IF AuditsGnosis THEN "audit_mints" ELSE "commit")
  BY DEF FinishBlock, Write, gnosisVars
<1>5. /\ n < Len(ledger) /\ n = wdb.counters["num_blocks_synced"]
      /\ BurnsStored(wdb, outs, scan[p].pos) /\ MintsStored(wdb, txs, Len(txs) + 1)
  BY <1>1 DEF ScanInv, Contents
<1>6. PICK k \in Nat, b \in BalanceMaps : k = n /\ b = scan[p].bal
  BY <1>2
<1>7. wdb \in Databases /\ wdb' = finish_block(wdb, k, b)
  BY <1>4, <1>6, TypeFacts
<1>8. wdb' \in Databases /\ RowsGrow(wdb, wdb')
  BY ONLY <1>7, BlockFinished
<1>9. /\ wdb'.block_audit_data = wdb.block_audit_data \cup {k}
      /\ wdb'.mint_config_txs = wdb.mint_config_txs
  BY ONLY <1>7, BlockFinished
<1>10. wdb'.counters["num_blocks_synced"] = k + 1
  <2>1. wdb'.counters["num_blocks_synced"] = wdb.counters["num_blocks_synced"] + 1
    BY ONLY <1>7, BlockFinished
  <2> QED
    BY <1>5, <1>6, <2>1
<1>11. DbInv(wdb')
  <2>1. wdb.block_audit_data = 0 .. k - 1
    BY <1>5, <1>6 DEF IInv, DbInv
  <2>2. wdb'.block_audit_data = 0 .. (k + 1) - 1
    BY <1>9, <2>1
  <2> QED
    BY <1>9, <1>10, <2>2 DEF IInv, DbInv
<1>12. MintsStored(wdb', txs, Len(txs) + 1)
  BY <1>5, <1>8, StoredGrows
<1>13. BurnsStored(wdb', outs, Len(outs) + 1)
  <2>1. \A i \in DOMAIN outs : i < scan[p].pos
    BY <1>1, <1>2, <1>3 DEF AtOutput
  <2>2. BurnsStored(wdb', outs, scan[p].pos)
    BY <1>5, <1>8, StoredGrows
  <2> QED
    BY <2>1, <2>2 DEF BurnsStored
<1>14. PICK pc \in {"audit_mints", "commit"} : Goto(p, pc)
  BY <1>4
<1>15. /\ scan' \in [Procs -> ScanStates] /\ \A q \in Procs \ {p} : scan'[q] = scan[q]
       /\ scan'[p].pc = pc /\ scan'[p].block_index = n
  BY <1>14, TypeFacts, GotoFacts DEF ScanPcs
<1>16. ScanInv(scan'[p], wdb', ledger)
  BY <1>5, <1>12, <1>13, <1>15 DEF ScanInv, Contents
<1> QED
  BY <1>1, <1>4, <1>8, <1>11, <1>15, <1>16, ScanWrites DEF ScanInTx

\* Auditing what the block stored.
LEMMA AuditInv ==
  ASSUME IInv, NEW p \in Procs, UNCHANGED gnosisVars, AuditMint(p) \/ AuditBurn(p)
  PROVE  IInv'
<1> DEFINE outs == Contents(p).outputs
           txs == Contents(p).mint_txs
<1>1. scan[p].pc \in {"audit_mints", "audit_burns"} /\ ScanInv(scan[p], wdb, ledger)
  BY DEF AuditMint, AuditBurn, IInv
<1>2. /\ Contents(p) \in BlockContents /\ scan[p].pos \in Nat \ {0}
  BY <1>1, ContentsType
<1>3. outs \in Seq(TxOuts) /\ txs \in Seq(CoreMintTxs)
  BY <1>2 DEF BlockContents
<1>4. /\ ScanThread(p) \in holder /\ NextItem(p)
      /\ UNCHANGED <<db, holder, failures, ledger, api, work>>
  BY DEF AuditMint, AuditBurn, Write, gnosisVars
<1>5. wdb \in Databases /\ scan \in [Procs -> ScanStates]
  BY TypeFacts
<1>6. wdb' \in Databases /\ KeepsBlocks(wdb, wdb') /\ RowsGrow(wdb, wdb')
  <2>1. CASE AuditMint(p)
    <3>1. scan[p].pos \in 1 .. Len(txs)
      BY <1>2, <1>3, <2>1 DEF AuditMint
    <3>2. PICK tx \in CoreMintTxs : tx = txs[scan[p].pos]
      BY <1>3, <3>1
    <3>3. wdb' \in try_match_mint_with_deposit(wdb, tx)
      BY <2>1, <3>2 DEF AuditMint, Write
    <3> QED
      BY ONLY <1>5, <3>3, LedgerAttempts
  <2>2. CASE AuditBurn(p)
    <3>1. scan[p].pos \in 1 .. Len(outs)
      BY <1>2, <1>3, <2>2 DEF AuditBurn, AtOutput
    <3>2. PICK o \in TxOuts : o = outs[scan[p].pos]
      BY <1>3, <3>1
    <3>3. wdb' \in try_match_burn_with_withdrawal(wdb, o)
      BY <2>2, <3>2 DEF AuditBurn, Write, Output
    <3> QED
      BY ONLY <1>5, <3>3, LedgerAttempts
  <2> QED
    BY <2>1, <2>2
<1>7. DbInv(wdb')
  BY <1>6, DbInvKept DEF IInv
<1>8. /\ scan' \in [Procs -> ScanStates] /\ \A q \in Procs \ {p} : scan'[q] = scan[q]
      /\ scan'[p].pc = scan[p].pc /\ scan'[p].block_index = scan[p].block_index
  BY <1>4, <1>5, NextItemFacts
<1>9. ScanInv(scan'[p], wdb', ledger)
  BY <1>1, <1>6, <1>8, StoredGrows DEF ScanInv
<1> QED
  BY <1>1, <1>4, <1>6, <1>7, <1>8, <1>9, ScanWrites DEF ScanInTx

\* Committing a block, or panicking on an error.
LEMMA ScanEndInv ==
  ASSUME IInv, NEW p \in Procs, UNCHANGED gnosisVars, CommitBlock(p) \/ SyncBlockFails(p)
  PROVE  IInv'
<1>1. CASE CommitBlock(p)
  <2>1. /\ ScanThread(p) \in holder /\ holder' = holder \ {ScanThread(p)}
        /\ db' = wdb /\ wdb' = wdb /\ scan' = [scan EXCEPT ![p] = ScanAt("poll")]
        /\ scan[p].pc \in ScanInTx /\ UNCHANGED <<failures, ledger, api, work>>
    BY <1>1 DEF CommitBlock, Commit, ScanInTx, gnosisVars
  <2> QED
    BY <2>1, ScanLeaves
<1>2. CASE SyncBlockFails(p)
  <2>1. scan[p].pc \in ScanInTx
    BY <1>2 DEF SyncBlockFails, SyncBlockError, ScanInTx
  <2>2. /\ ScanThread(p) \in holder /\ holder' = holder \ {ScanThread(p)}
        /\ db' = db /\ wdb' \in {db, wdb} /\ scan' = [scan EXCEPT ![p] = ScanAt("dead")]
        /\ UNCHANGED <<failures, ledger, api, work>>
    BY <1>2 DEF SyncBlockFails, Rollback, RollbackOf, gnosisVars
  <2> QED
    BY <2>1, <2>2, ScanLeaves
<1> QED
  BY <1>1, <1>2

\* A new block at the end of the ledger changes none of the earlier ones.
LEMMA GrowLedgerInv ==
  ASSUME IInv, GrowLedger, UNCHANGED gnosisVars
  PROVE  IInv'
<1>1. PICK blk \in Blocks : ledger' = Append(ledger, blk)
  BY DEF GrowLedger
<1>2. /\ Len(ledger) < MaxBlocks
      /\ UNCHANGED <<db, wdb, holder, failures, scan, api, work>>
  BY DEF GrowLedger, storeVars, gnosisVars
<1>3. /\ ledger' \in Seq(Blocks) /\ Len(ledger') = Len(ledger) + 1
      /\ \A i \in 1 .. Len(ledger) : ledger'[i] = ledger[i]
  BY <1>1, TypeFacts
<1>4. Len(ledger') <= MaxBlocks
  BY <1>2, <1>3, TypeFacts, LedgerAssumption
<1>5. TypeOK'
  BY <1>2, <1>3, <1>4, TypeFacts
     DEF TypeOK, LedgerTypeOK, StoreTypeOK, GnosisTypeOK, WorkStates
<1>6. ASSUME NEW p \in Procs PROVE ScanInv(scan[p], wdb, ledger')
  <2>1. ScanInv(scan[p], wdb, ledger) /\ scan[p].block_index \in Nat
    BY TypeFacts DEF IInv, ScanStates
  <2>2. CASE scan[p].pc \in {"poll", "dead"}
    BY <2>2 DEF ScanInv
  <2>3. CASE scan[p].pc \notin {"poll", "dead"}
    <3>1. scan[p].block_index < Len(ledger) /\ Len(ledger) \in Nat
      BY <2>1, <2>3, TypeFacts DEF ScanInv
    <3>2. /\ ledger'[scan[p].block_index + 1] = ledger[scan[p].block_index + 1]
          /\ scan[p].block_index < Len(ledger')
      BY <1>3, <2>1, <3>1
    <3> QED
      BY <2>1, <3>2 DEF ScanInv
  <2> QED
    BY <2>2, <2>3
<1>7. LockInv'
  BY <1>2 DEF IInv, LockInv
<1> QED
  BY <1>2, <1>5, <1>6, <1>7 DEF IInv

\* Every step of the ledger side keeps the invariant.
LEMMA LedgerNextInv ==
  ASSUME IInv, LedgerNext, UNCHANGED gnosisVars
  PROVE  IInv'
<1>1. CASE GrowLedger
  BY <1>1, GrowLedgerInv
<1>2. CASE \E p \in Procs : ScanStep(p) \/ BeginBlock(p) \/ BlockLockTimeout(p)
  <2>1. PICK p \in Procs : ScanStep(p) \/ BeginBlock(p) \/ BlockLockTimeout(p)
    BY <1>2
  <2> QED
    BY <2>1, SyncLoopInv, BeginBlockInv, QuietStepsInv, StoreMintConfigTxInv, StoreMintTxInv,
       StoreBurnTxOutInv, FinishBlockInv, AuditInv, ScanEndInv DEF ScanStep
<1> QED
  BY <1>1, <1>2 DEF LedgerNext

----------------------------------------------------------------------------
(* The steps of a safe thread.                                             *)

\* What WorkGoto does to the state of the thread.
LEMMA WorkGotoFacts ==
  ASSUME work \in [Workers -> WorkStates], NEW t \in Workers, NEW pc \in WorkPcs, WorkGoto(t, pc)
  PROVE  /\ work' \in [Workers -> WorkStates]
         /\ \A u \in Workers \ {t} : work'[u] = work[u]
         /\ work'[t].pc = pc /\ work'[t].todo = work[t].todo /\ work'[t].pos = 1
<1>1. PICK x \in WorkStates : x = work[t]
  OBVIOUS
<1> DEFINE s == [x EXCEPT !.pc = pc, !.pos = 1]
<1>2. s \in WorkStates
  <2>1. 1 \in Nat \ {0}
    OBVIOUS
  <2> QED
    BY <2>1 DEF WorkStates
<1>3. s.pc = pc /\ s.todo = x.todo /\ s.pos = 1
  BY DEF WorkStates
<1>4. work' = [work EXCEPT ![t] = s]
  BY <1>1 DEF WorkGoto
<1> HIDE DEF s
<1> QED
  BY <1>1, <1>2, <1>3, <1>4

\* What moving to the next transfer does to the state of the thread.
LEMMA NextTransferFacts ==
  ASSUME work \in [Workers -> WorkStates], NEW t \in Workers,
         work' = [work EXCEPT ![t].pos = @ + 1]
  PROVE  /\ work' \in [Workers -> WorkStates]
         /\ \A u \in Workers \ {t} : work'[u] = work[u]
         /\ work'[t].pc = work[t].pc /\ work'[t].todo = work[t].todo
         /\ work'[t].pos = work[t].pos + 1
<1>1. PICK x \in WorkStates : x = work[t]
  OBVIOUS
<1> DEFINE s == [x EXCEPT !.pos = x.pos + 1]
<1>2. s \in WorkStates
  <2>1. x.pos + 1 \in Nat \ {0}
    BY DEF WorkStates
  <2> QED
    BY <2>1 DEF WorkStates
<1>3. s.pc = x.pc /\ s.todo = x.todo /\ s.pos = x.pos + 1
  BY DEF WorkStates
<1>4. work' = [work EXCEPT ![t] = s]
  BY <1>1
<1> HIDE DEF s
<1> QED
  BY <1>1, <1>2, <1>3, <1>4

\* Inside a transaction a thread has an Ethereum transaction to work on, of
\* the kind its program point is for.
LEMMA TxType ==
  ASSUME IInv, NEW t \in Workers, work[t].pc \in WorkInTx
  PROVE  /\ Tx(t) \in RawGnosisTransactions /\ Tx(t).tx_hash \in EthTxHashes
         /\ work[t].todo \in Seq(RawGnosisTransactions) /\ work[t].todo # << >>
         /\ work[t].pc = "transfers" => Tx(t) \in EthereumTransactions
         /\ work[t].pc = "multi_sig" => Tx(t) \in MultiSigTransactions
<1>1. work[t].todo \in Seq(RawGnosisTransactions) /\ WorkInv(work[t])
  BY TypeFacts DEF IInv, WorkStates
<1>2. work[t].todo # << >>
  BY <1>1 DEF WorkInv
<1>3. Tx(t) \in RawGnosisTransactions
  BY <1>1, <1>2 DEF Tx
<1>4. Tx(t).tx_hash \in EthTxHashes
  BY <1>3 DEF RawGnosisTransactions, EthereumTransactions, MultiSigTransactions, OtherTransactions
<1>5. work[t].pc = "transfers" => Tx(t).kind = "ethereum"
  BY <1>1 DEF WorkInv, Tx
<1>6. work[t].pc = "multi_sig" => Tx(t).kind = "multi_sig"
  BY <1>1 DEF WorkInv, Tx
<1>7. Tx(t).kind = "ethereum" => Tx(t) \in EthereumTransactions
  BY <1>3 DEF RawGnosisTransactions, MultiSigTransactions, OtherTransactions
<1>8. Tx(t).kind = "multi_sig" => Tx(t) \in MultiSigTransactions
  BY <1>3 DEF RawGnosisTransactions, EthereumTransactions, OtherTransactions
<1> QED
  BY <1>1, <1>2, <1>3, <1>4, <1>5, <1>6, <1>7, <1>8

\* The configuration entry of a safe thread.
LEMMA SafeOfThread ==
  ASSUME NEW t \in Workers
  PROVE  /\ t[2] \in DOMAIN Config /\ audited_safe(t) = Config[t[2]]
         /\ audited_safe(t).safe_addr \in AuditedSafes
  BY DEF Workers, audited_safe, AuditedSafes

\* A value that does not panic is truncated to a u64.
LEMMA TruncatedType ==
  ASSUME NEW value \in Option(Nat), NEW token, NEW cfg, ~ValuePanics(value, token, cfg)
  PROVE  truncate_value(value, token, cfg) \in U64
<1>1. PICK v \in value : truncated(v, token.decimals, cfg.token_decimals_max) \in U64
  BY DEF ValuePanics
<1>2. value = {v}
  BY <1>1 DEF Option
<1>3. {truncated(w, token.decimals, cfg.token_decimals_max) : w \in value}
        = {truncated(v, token.decimals, cfg.token_decimals_max)}
  BY <1>2
<1> QED
  BY <1>1, <1>3 DEF truncate_value

\* Starting a poll, finishing one, and a new listing.
LEMMA PollInv ==
  ASSUME IInv, NEW t \in Workers, UNCHANGED ledgerVars, Poll(t) \/ PollDone(t)
  PROVE  IInv'
<1>1. work \in [Workers -> WorkStates] /\ failures \in 0 .. MaxFailures
  BY TypeFacts
<1>2. UNCHANGED <<db, wdb, holder, failures, ledger, scan, api>>
  BY DEF Poll, PollDone, storeVars, ledgerVars
<1>3. /\ work' \in [Workers -> WorkStates] /\ \A u \in Workers \ {t} : work'[u] = work[u]
      /\ work'[t].pc \in {"poll", "begin", "dead"}
  <2>1. CASE Poll(t)
    <3>1. PICK x \in WorkStates : x = work[t]
      BY <1>1
    <3>2. PICK l \in Seq(RawGnosisTransactions) : l = api[audited_safe(t).safe_addr]
      BY TypeFacts, SafeOfThread
    <3> DEFINE s == [x EXCEPT !.pc = "begin", !.todo = l]
    <3>3. s \in WorkStates /\ s.pc = "begin"
      <4>1. "begin" \in WorkPcs
        BY DEF WorkPcs
      <4> QED
        BY <4>1 DEF WorkStates
    <3>4. work' = [work EXCEPT ![t] = s]
      BY <2>1, <3>1, <3>2 DEF Poll
    <3> HIDE DEF s
    <3> QED
      BY <1>1, <3>3, <3>4
  <2>2. CASE PollDone(t)
    <3>1. "poll" \in WorkPcs /\ WorkGoto(t, "poll")
      BY <2>2 DEF WorkPcs, PollDone
    <3> QED
      BY <1>1, <3>1, WorkGotoFacts
  <2> QED
    BY <2>1, <2>2
<1> QED
  BY <1>1, <1>2, <1>3, WorkMoves

\* The transaction service lists one more transaction.
LEMMA ListTxInv ==
  ASSUME IInv, NEW a \in AuditedSafes, UNCHANGED ledgerVars, ListTx(a)
  PROVE  IInv'
<1>1. PICK x \in ApiTxs[a] : api' = [api EXCEPT ![a] = <<x>> \o api[a]]
  BY DEF ListTx
<1>2. x \in RawGnosisTransactions /\ api[a] \in Seq(RawGnosisTransactions)
  BY GnosisAssumption, TypeFacts
<1>3. <<x>> \o api[a] \in Seq(RawGnosisTransactions)
  BY <1>2
<1>4. api' \in [AuditedSafes -> Seq(RawGnosisTransactions)]
  BY <1>1, <1>3, TypeFacts
<1>5. UNCHANGED <<db, wdb, holder, failures, ledger, scan, work>>
  BY DEF ListTx, storeVars, ledgerVars
<1>6. TypeOK'
  BY <1>4, <1>5, TypeFacts DEF TypeOK, LedgerTypeOK, StoreTypeOK, GnosisTypeOK, WorkStates
<1>7. LockInv'
  BY <1>5 DEF IInv, LockInv
<1> QED
  BY <1>5, <1>6, <1>7 DEF IInv

\* Taking the lock, or giving up waiting for it.
LEMMA BeginTxInv ==
  ASSUME IInv, NEW t \in Workers, UNCHANGED ledgerVars, BeginTx(t) \/ TxLockTimeout(t)
  PROVE  IInv'
<1>1. work \in [Workers -> WorkStates]
  BY TypeFacts
<1>2. CASE BeginTx(t)
  <2>1. "insert" \in WorkPcs /\ WorkGoto(t, "insert")
    BY <1>2 DEF WorkPcs, BeginTx
  <2>2. /\ work' \in [Workers -> WorkStates] /\ \A u \in Workers \ {t} : work'[u] = work[u]
        /\ work'[t].pc = "insert" /\ work'[t].todo = work[t].todo
    BY <1>1, <2>1, WorkGotoFacts
  <2>3. WorkInv(work'[t])
    BY <1>2, <2>2 DEF WorkInv, BeginTx
  <2>4. Begin(t) /\ UNCHANGED <<ledger, scan, api>>
    BY <1>2 DEF BeginTx, ledgerVars
  <2> QED
    BY <2>2, <2>3, <2>4, WorkEnters
<1>3. CASE TxLockTimeout(t)
  <2>1. work' = [work EXCEPT ![t] = WorkAt("dead")] /\ WorkAt("dead") \in WorkStates
    BY <1>3, StartStates DEF TxLockTimeout, WorkPcs
  <2>2. /\ work' \in [Workers -> WorkStates] /\ \A u \in Workers \ {t} : work'[u] = work[u]
        /\ work'[t] = WorkAt("dead")
    BY <1>1, <2>1
  <2>3. work'[t].pc = "dead"
    BY <2>2 DEF WorkAt
  <2>4. failures' \in 0 .. MaxFailures
    BY <1>3, StoreAssumption, TypeFacts DEF TxLockTimeout, LockTimeout
  <2>5. UNCHANGED <<db, wdb, holder, ledger, scan, api>>
    BY <1>3 DEF TxLockTimeout, LockTimeout, ledgerVars
  <2> QED
    BY <2>2, <2>3, <2>4, <2>5, WorkMoves
<1> QED
  BY <1>2, <1>3

\* A write that keeps the blocks, followed by the next program point.
LEMMA WorkWritesAndGoes ==
  ASSUME IInv, NEW t \in Workers, t \in holder, work[t].pc \in WorkInTx,
         wdb' \in Databases, KeepsBlocks(wdb, wdb'),
         \/ WorkGoto(t, "commit")
         \/ WorkGoto(t, "transfers") /\ Tx(t).kind = "ethereum"
         \/ WorkGoto(t, "multi_sig") /\ Tx(t).kind = "multi_sig"
         \/ work' = [work EXCEPT ![t].pos = @ + 1],
         UNCHANGED <<db, holder, failures, ledger, scan, api>>
  PROVE  IInv'
<1>1. work \in [Workers -> WorkStates] /\ WorkInv(work[t]) /\ work[t].todo # << >>
  BY TypeFacts, TxType DEF IInv
<1>2. DbInv(wdb')
  BY DbInvKept DEF IInv
<1>3. SUFFICES /\ work' \in [Workers -> WorkStates]
               /\ \A u \in Workers \ {t} : work'[u] = work[u]
               /\ work'[t].pc \in WorkInTx /\ WorkInv(work'[t])
  BY <1>2, WorkWrites
<1>4. ASSUME NEW pc \in {"commit", "transfers", "multi_sig"}, WorkGoto(t, pc),
             pc = "transfers" => Tx(t).kind = "ethereum",
             pc = "multi_sig" => Tx(t).kind = "multi_sig"
      PROVE  /\ work' \in [Workers -> WorkStates]
             /\ \A u \in Workers \ {t} : work'[u] = work[u]
             /\ work'[t].pc \in WorkInTx /\ WorkInv(work'[t])
  <2>1. pc \in WorkPcs /\ pc \in WorkInTx
    BY DEF WorkPcs, WorkInTx
  <2>2. /\ work' \in [Workers -> WorkStates] /\ \A u \in Workers \ {t} : work'[u] = work[u]
        /\ work'[t].pc = pc /\ work'[t].todo = work[t].todo
    BY <1>1, <1>4, <2>1, WorkGotoFacts
  <2> QED
    BY <1>1, <1>4, <2>1, <2>2 DEF WorkInv, Tx
<1>5. CASE work' = [work EXCEPT ![t].pos = @ + 1]
  <2>1. /\ work' \in [Workers -> WorkStates] /\ \A u \in Workers \ {t} : work'[u] = work[u]
        /\ work'[t].pc = work[t].pc /\ work'[t].todo = work[t].todo
    BY <1>1, <1>5, NextTransferFacts
  <2> QED
    BY <1>1, <2>1 DEF WorkInv
<1> QED
  BY <1>4, <1>5

\* A frame of nothing.
LEMMA KeepsBlocksSame == \A d : KeepsBlocks(d, d)
  BY DEF KeepsBlocks

\* The steps that write nothing, or one counter, or the transaction's hash.
LEMMA SimpleTxStepsInv ==
  ASSUME IInv, NEW t \in Workers, UNCHANGED ledgerVars,
         \/ SkipTx(t) \/ InsertTx(t) \/ UnknownTransfer(t) \/ UnknownTokenTransfer(t)
         \/ TransfersDone(t) \/ OtherSafeMultiSig(t) \/ InvalidMultiSig(t)
  PROVE  IInv'
<1> USE DEF ledgerVars, Write, AtTransfer, AtMultiSig
<1>1. wdb \in Databases
  BY TypeFacts
<1>2. /\ t \in holder /\ work[t].pc \in WorkInTx
      /\ UNCHANGED <<db, holder, failures, ledger, scan, api>>
  BY DEF SkipTx, InsertTx, UnknownTransfer, UnknownTokenTransfer, TransfersDone,
         OtherSafeMultiSig, InvalidMultiSig, WorkInTx
<1>3. CASE SkipTx(t) \/ UnknownTransfer(t) \/ TransfersDone(t) \/ OtherSafeMultiSig(t)
  <2>1. wdb' = wdb
    BY <1>3 DEF SkipTx, UnknownTransfer, TransfersDone, OtherSafeMultiSig
  <2>2. WorkGoto(t, "commit") \/ work' = [work EXCEPT ![t].pos = @ + 1]
    BY <1>3 DEF SkipTx, UnknownTransfer, TransfersDone, OtherSafeMultiSig
  <2> QED
    BY <1>1, <1>2, <2>1, <2>2, KeepsBlocksSame, WorkWritesAndGoes
<1>4. CASE UnknownTokenTransfer(t) \/ InvalidMultiSig(t)
  <2>1. PICK c \in FailureCounters : wdb' = Inc(wdb, c)
    BY <1>4 DEF UnknownTokenTransfer, InvalidMultiSig, FailureCounters, CounterNames
  <2>2. wdb' \in Databases /\ KeepsBlocks(wdb, wdb')
    BY <1>1, <2>1, CountedFailure
  <2>3. WorkGoto(t, "commit")
    BY <1>4 DEF UnknownTokenTransfer, InvalidMultiSig
  <2> QED
    BY <1>2, <2>2, <2>3, WorkWritesAndGoes
<1>5. CASE InsertTx(t)
  <2>1. PICK h \in EthTxHashes : h = Tx(t).tx_hash
    BY <1>2, TxType
  <2>2. wdb' = [wdb EXCEPT !.gnosis_safe_txs = @ \cup {h}]
    BY <1>5, <2>1 DEF InsertTx
  <2>3. wdb' \in Databases /\ KeepsBlocks(wdb, wdb')
    BY <1>1, <2>2, SafeInserts
  <2>4. Tx(t).kind \in {"ethereum", "multi_sig", "module"}
    <3>1. Tx(t) \in RawGnosisTransactions
      BY <1>2, TxType
    <3> QED
      BY <1>5, <3>1 DEF InsertTx, RawGnosisTransactions, EthereumTransactions,
                        MultiSigTransactions, OtherTransactions
  <2>5. \/ WorkGoto(t, "commit")
        \/ WorkGoto(t, "transfers") /\ Tx(t).kind = "ethereum"
        \/ WorkGoto(t, "multi_sig") /\ Tx(t).kind = "multi_sig"
    BY <1>5, <2>4 DEF InsertTx
  <2> QED
    BY <1>2, <2>3, <2>5, WorkWritesAndGoes
<1> QED
  BY <1>3, <1>4, <1>5

\* A transaction ends: committed, or rolled back by a panic.
LEMMA TxEndInv ==
  ASSUME IInv, NEW t \in Workers, UNCHANGED ledgerVars,
         CommitTx(t) \/ DecodeFails(t) \/ DepositFails(t) \/ MultiSigFails(t)
  PROVE  IInv'
<1>1. work \in [Workers -> WorkStates]
  BY TypeFacts
<1>2. work[t].pc \in WorkInTx
  BY DEF CommitTx, DecodeFails, DepositFails, MultiSigFails, AtTransfer, AtMultiSig, WorkInTx
<1>3. CASE CommitTx(t)
  <2>1. Tail(work[t].todo) \in Seq(RawGnosisTransactions)
    BY <1>2, TxType
  <2>2. PICK l \in Seq(RawGnosisTransactions) : l = Tail(work[t].todo)
    BY <2>1
  <2>3. PICK x \in WorkStates : x = WorkAt("begin")
    BY StartStates DEF WorkPcs
  <2> DEFINE s == [x EXCEPT !.todo = l]
  <2>4. s \in WorkStates /\ s.pc = x.pc
    BY DEF WorkStates
  <2>5. x.pc = "begin"
    BY <2>3 DEF WorkAt
  <2>6. work' = [work EXCEPT ![t] = s]
    BY <1>3, <2>2, <2>3 DEF CommitTx
  <2> HIDE DEF s
  <2>7. /\ work' \in [Workers -> WorkStates] /\ \A u \in Workers \ {t} : work'[u] = work[u]
        /\ work'[t].pc = "begin"
    BY <1>1, <2>4, <2>5, <2>6
  <2>8. /\ t \in holder /\ holder' = holder \ {t} /\ db' = wdb /\ wdb' = wdb
        /\ UNCHANGED <<failures, ledger, scan, api>>
    BY <1>3 DEF CommitTx, Commit, ledgerVars
  <2> QED
    BY <1>2, <2>7, <2>8, WorkLeaves
<1>4. CASE DecodeFails(t) \/ DepositFails(t) \/ MultiSigFails(t)
  <2>1. WorkFails(t)
    BY <1>4 DEF DecodeFails, DepositFails, MultiSigFails
  <2>2. work' = [work EXCEPT ![t] = WorkAt("dead")] /\ WorkAt("dead") \in WorkStates
    BY <2>1, StartStates DEF WorkFails, WorkPcs
  <2>3. /\ work' \in [Workers -> WorkStates] /\ \A u \in Workers \ {t} : work'[u] = work[u]
        /\ work'[t] = WorkAt("dead")
    BY <1>1, <2>2
  <2>4. work'[t].pc = "dead"
    BY <2>3 DEF WorkAt
  <2>5. /\ t \in holder /\ holder' = holder \ {t} /\ db' = db /\ wdb' \in {db, wdb}
        /\ UNCHANGED <<failures, ledger, scan, api>>
    BY <2>1 DEF WorkFails, Rollback, RollbackOf, ledgerVars
  <2> QED
    BY <1>2, <2>3, <2>4, <2>5, WorkLeaves
<1> QED
  BY <1>3, <1>4

\* What StoreDeposit and StoreWithdrawal insert is a legal row.
LEMMA NewDepositType ==
  ASSUME IInv, NEW t \in Workers, AtTransfer(t), NEW token \in TransferToken(t),
         ~ValuePanics(Transfer(t).value, token, audited_safe(t))
  PROVE  new_deposit(t, token) \in DepositRows
<1>1. work[t].pc = "transfers" /\ work[t].pc \in WorkInTx
  BY DEF AtTransfer, WorkInTx
<1>2. Tx(t) \in EthereumTransactions /\ Tx(t).tx_hash \in EthTxHashes
  BY <1>1, TxType
<1>3. work[t].pos \in Nat \ {0}
  BY TypeFacts DEF WorkStates
<1>4. Tx(t).transfers \in Seq(EthereumTransfers)
  BY <1>2 DEF EthereumTransactions
<1>5. work[t].pos \in 1 .. Len(Tx(t).transfers)
  BY <1>3, <1>4 DEF AtTransfer
<1>6. Transfer(t) \in EthereumTransfers
  BY <1>4, <1>5 DEF Transfer
<1>7. /\ Transfer(t).to \in EthAddrs /\ Transfer(t).token_addr \in Option(EthAddrs)
      /\ Transfer(t).value \in Option(Nat) /\ Transfer(t).tx_hash \in EthTxHashes
  BY <1>6 DEF EthereumTransfers
<1>8. (CHOOSE a \in Transfer(t).token_addr : TRUE) \in EthAddrs
  <2>1. Transfer(t).token_addr # {}
    BY DEF TransferToken
  <2> QED
    BY <1>7, <2>1 DEF Option
<1>9. truncate_value(Transfer(t).value, token, audited_safe(t)) \in U64
  BY <1>7, TruncatedType
<1> QED
  BY <1>7, <1>8, <1>9 DEF new_deposit, DepositRows

\* The row process_multi_sig_transaction inserts has its type.
LEMMA NewWithdrawalType ==
  ASSUME IInv, NEW t \in Workers, AtMultiSig(t), NEW token,
         ~ValuePanics(Tx(t).amount, token, audited_safe(t))
  PROVE  new_withdrawal(t, token) \in WithdrawalRows
<1>1. work[t].pc = "multi_sig" /\ work[t].pc \in WorkInTx
  BY DEF AtMultiSig, WorkInTx
<1>2. Tx(t) \in MultiSigTransactions /\ Tx(t).tx_hash \in EthTxHashes
  BY <1>1, TxType
<1>3. /\ Tx(t).safe \in EthAddrs /\ Tx(t).to \in EthAddrs /\ Tx(t).amount \in Option(Nat)
      /\ Tx(t).public_key \in PublicKeys
  BY <1>2 DEF MultiSigTransactions
<1>4. truncate_value(Tx(t).amount, token, audited_safe(t)) \in U64
  BY <1>3, TruncatedType
<1> QED
  BY <1>2, <1>3, <1>4 DEF new_withdrawal, WithdrawalRows

\* Storing and matching a deposit.
LEMMA StoreDepositInv ==
  ASSUME IInv, NEW t \in Workers, UNCHANGED ledgerVars, StoreDeposit(t)
  PROVE  IInv'
<1>1. /\ AtTransfer(t) /\ t \in holder /\ work[t].pc \in WorkInTx
      /\ UNCHANGED <<db, holder, failures, ledger, scan, api>>
      /\ work' = [work EXCEPT ![t].pos = @ + 1]
  BY DEF StoreDeposit, Write, AtTransfer, WorkInTx, ledgerVars
<1>2. PICK token \in TransferToken(t) :
        /\ ~ValuePanics(Transfer(t).value, token, audited_safe(t))
        /\ Write(t, try_match_deposit_with_mint(
                      [wdb EXCEPT !.deposits = @ \cup {new_deposit(t, token)}],
                      new_deposit(t, token), audited_safe(t)))
  BY DEF StoreDeposit
<1>3. PICK e \in DepositRows : e = new_deposit(t, token)
  BY <1>1, <1>2, NewDepositType
<1>4. PICK k \in DOMAIN Config : audited_safe(t) = Config[k]
  BY SafeOfThread
<1>5. PICK d : d = [wdb EXCEPT !.deposits = @ \cup {e}]
  OBVIOUS
<1>6. wdb' \in try_match_deposit_with_mint(d, e, Config[k])
  BY <1>2, <1>3, <1>4, <1>5 DEF Write
<1>7. d \in Databases /\ KeepsBlocks(wdb, d)
  BY <1>5, TypeFacts, SafeInserts
<1>8. wdb' \in Databases /\ KeepsBlocks(d, wdb')
  BY ONLY <1>6, <1>7, SafeAttempts
<1>9. KeepsBlocks(wdb, wdb')
  BY <1>7, <1>8 DEF KeepsBlocks
<1> QED
  BY <1>1, <1>8, <1>9, WorkWritesAndGoes

\* Storing and matching a withdrawal.
LEMMA StoreWithdrawalInv ==
  ASSUME IInv, NEW t \in Workers, UNCHANGED ledgerVars, StoreWithdrawal(t)
  PROVE  IInv'
<1>1. /\ AtMultiSig(t) /\ t \in holder /\ work[t].pc \in WorkInTx
      /\ UNCHANGED <<db, holder, failures, ledger, scan, api>>
      /\ WorkGoto(t, "commit")
  BY DEF StoreWithdrawal, Write, AtMultiSig, WorkInTx, ledgerVars
<1>2. PICK token \in WithdrawalToken(t) :
        /\ ~ValuePanics(Tx(t).amount, token, audited_safe(t))
        /\ Write(t, try_match_withdrawal_with_burn(
                      [wdb EXCEPT !.withdrawals = @ \cup {new_withdrawal(t, token)}],
                      new_withdrawal(t, token), audited_safe(t)))
  BY DEF StoreWithdrawal
<1>3. PICK w \in WithdrawalRows : w = new_withdrawal(t, token)
  BY <1>1, <1>2, NewWithdrawalType
<1>4. PICK k \in DOMAIN Config : audited_safe(t) = Config[k]
  BY SafeOfThread
<1>5. PICK d : d = [wdb EXCEPT !.withdrawals = @ \cup {w}]
  OBVIOUS
<1>6. wdb' \in try_match_withdrawal_with_burn(d, w, Config[k])
  BY <1>2, <1>3, <1>4, <1>5 DEF Write
<1>7. d \in Databases /\ KeepsBlocks(wdb, d)
  BY <1>5, TypeFacts, SafeInserts
<1>8. wdb' \in Databases /\ KeepsBlocks(d, wdb')
  BY ONLY <1>6, <1>7, SafeAttempts
<1>9. KeepsBlocks(wdb, wdb')
  BY <1>7, <1>8 DEF KeepsBlocks
<1> QED
  BY <1>1, <1>8, <1>9, WorkWritesAndGoes

\* Every step of the safe side keeps the invariant.
LEMMA GnosisNextInv ==
  ASSUME IInv, GnosisNext, UNCHANGED ledgerVars
  PROVE  IInv'
<1>1. CASE \E a \in AuditedSafes : ListTx(a)
  BY <1>1, ListTxInv
<1>2. CASE \E t \in Workers : WorkStep(t) \/ BeginTx(t) \/ TxLockTimeout(t)
  <2>1. PICK t \in Workers : WorkStep(t) \/ BeginTx(t) \/ TxLockTimeout(t)
    BY <1>2
  <2> QED
    BY <2>1, PollInv, BeginTxInv, SimpleTxStepsInv, TxEndInv, StoreDepositInv,
       StoreWithdrawalInv DEF WorkStep
<1> QED
  BY <1>1, <1>2 DEF GnosisNext

----------------------------------------------------------------------------
(* The theorem.                                                            *)

\* Crashes and restarts keep the invariant.
LEMMA ProcessInv ==
  ASSUME IInv, NEW p \in Procs, Crash(p) \/ Restart(p)
  PROVE  IInv'
<1>1. failures \in 0 .. MaxFailures
  BY TypeFacts
<1>2. CASE Crash(p)
  <2>1. failures' \in 0 .. MaxFailures
    BY <1>1, <1>2, StoreAssumption DEF Crash, CrashStore
  <2> QED
    BY <1>2, <2>1, ProcessResets DEF Crash, CrashStore
<1>3. CASE Restart(p)
  BY <1>1, <1>3, ProcessResets DEF Restart
<1> QED
  BY <1>2, <1>3

\* A stuttering step keeps the invariant.
LEMMA StutterInv ==
  ASSUME IInv, UNCHANGED vars
  PROVE  IInv'
<1>1. UNCHANGED <<db, wdb, holder, failures, ledger, scan, api, work>>
  BY DEF vars
<1>2. TypeOK'
  BY <1>1 DEF IInv, TypeOK, LedgerTypeOK, StoreTypeOK, GnosisTypeOK
<1>3. LockInv'
  BY <1>1 DEF IInv, LockInv
<1> QED
  BY <1>1, <1>2, <1>3 DEF IInv

\* Every step of the auditor keeps the invariant.
LEMMA NextInv ==
  ASSUME IInv, [Next]_vars
  PROVE  IInv'
  BY LedgerNextInv, GnosisNextInv, ProcessInv, StutterInv DEF Next

\* The inductive invariant holds in every reachable state: whatever the order
\* of the threads' steps, crashes and restarts, one thread at a time is inside
\* an exclusive transaction, the block being stored is the next one, and the
\* synced blocks have no gap (sync_block_with_conn, exclusive_transaction).
THEOREM Invariance == Spec => []IInv
<1>1. Init => IInv
  BY InitInv
<1>2. IInv /\ [Next]_vars => IInv'
  BY NextInv
<1> QED
  BY <1>1, <1>2, PTL DEF Spec

\* Every variable keeps its type: in particular no amount and no balance leaves
\* u64, and every stored row is complete, for any configuration, ledger and
\* listing (truncate_value, lookup_mint_config, the balance map).
THEOREM TypeCorrectness == Spec => []TypeOK
<1>1. IInv => TypeOK
  BY DEF IInv
<1> QED
  BY <1>1, Invariance, PTL

----------------------------------------------------------------------------
(* The audit log is sound and one-to-one in every reachable state.  The    *)
(* argument: every step either leaves both databases among the two it      *)
(* found, or is one write of the lock holder, and a write adds at most one *)
(* pair to each log, of stored rows that match and that are both unpaired  *)
(* (LogStep).                                                              *)

\* What one write may do to audited_mints and audited_burns.
NewMintPair(d, d2) ==
  \E m \in d2.mint_txs, e \in d2.deposits :
    /\ ~MintIsAudited(d, m.nonce)
    /\ ~DepositIsAudited(d, e.eth_tx_hash)
    /\ Backs(e, m)
    /\ d2.audited_mints = Append(d.audited_mints, [mint |-> m.nonce, deposit |-> e.eth_tx_hash])

NewBurnPair(d, d2) ==
  \E b \in d2.burn_tx_outs, w \in d2.withdrawals :
    /\ ~BurnIsAudited(d, b.public_key)
    /\ ~WithdrawalIsAudited(d, w.eth_tx_hash)
    /\ Redeems(w, b)
    /\ d2.audited_burns
         = Append(d.audited_burns, [burn |-> b.public_key, withdrawal |-> w.eth_tx_hash])

LogStep(d, d2) ==
  /\ RowsGrow(d, d2)
  /\ d2.audited_mints = d.audited_mints \/ NewMintPair(d, d2)
  /\ d2.audited_burns = d.audited_burns \/ NewBurnPair(d, d2)

MintLogInv(d) == SoundMintLog(d) /\ OneToOneMints(d)

BurnLogInv(d) == SoundBurnLog(d) /\ OneToOneBurns(d)

LogInv(d) == MintLogInv(d) /\ BurnLogInv(d)

----------------------------------------------------------------------------
(* Databases.                                                              *)

\* A step of the log appends at most one entry to audited_mints, of stored rows that
\* match and are not in it yet.
LEMMA MintLogGrows ==
  ASSUME NEW d \in Databases, NEW d2 \in Databases, LogStep(d, d2), NEW n \in Nat,
         n = Len(d.audited_mints), d2.audited_mints # d.audited_mints
  PROVE  \E m \in d2.mint_txs, e \in d2.deposits :
           /\ Backs(e, m)
           /\ DOMAIN d2.audited_mints = 1 .. n + 1
           /\ d2.audited_mints[n + 1] = [mint |-> m.nonce, deposit |-> e.eth_tx_hash]
           /\ \A i \in 1 .. n : /\ d2.audited_mints[i] = d.audited_mints[i]
                               /\ d.audited_mints[i].mint # m.nonce
                               /\ d.audited_mints[i].deposit # e.eth_tx_hash
<1>1. d.audited_mints \in Seq(AuditedMintRows) /\ DOMAIN d.audited_mints = 1 .. n
  BY DEF Databases
<1>2. PICK m \in d2.mint_txs, e \in d2.deposits :
        /\ ~MintIsAudited(d, m.nonce)
        /\ ~DepositIsAudited(d, e.eth_tx_hash)
        /\ Backs(e, m)
        /\ d2.audited_mints = Append(d.audited_mints, [mint |-> m.nonce, deposit |-> e.eth_tx_hash])
  BY DEF LogStep, NewMintPair
<1>3. PICK row \in AuditedMintRows : row = [mint |-> m.nonce, deposit |-> e.eth_tx_hash]
  BY DEF AuditedMintRows, Databases, MintTxRows, DepositRows
<1>4. /\ DOMAIN d2.audited_mints = 1 .. n + 1
      /\ d2.audited_mints[n + 1] = row
      /\ \A i \in 1 .. n : d2.audited_mints[i] = d.audited_mints[i]
  BY <1>1, <1>2, <1>3
<1>5. \A i \in 1 .. n : /\ d.audited_mints[i].mint # m.nonce
                      /\ d.audited_mints[i].deposit # e.eth_tx_hash
  BY <1>1, <1>2 DEF MintIsAudited, DepositIsAudited
<1> QED
  BY <1>2, <1>3, <1>4, <1>5

\* A step of the log keeps its entries matching.
LEMMA MintEntriesKept ==
  ASSUME NEW d \in Databases, NEW d2 \in Databases, LogStep(d, d2),
         NEW k \in Nat, MintEntriesMatch(k, d)
  PROVE  MintEntriesMatch(k, d2) /\ Len(d.audited_mints) <= Len(d2.audited_mints)
<1>1. PICK n \in Nat : n = Len(d.audited_mints) /\ DOMAIN d.audited_mints = 1 .. n
  BY DEF Databases
<1>2. d.mint_txs \subseteq d2.mint_txs /\ d.deposits \subseteq d2.deposits
  BY DEF LogStep, RowsGrow
<1>3. CASE d2.audited_mints = d.audited_mints
  BY <1>1, <1>2, <1>3 DEF MintEntriesMatch
<1>4. CASE d2.audited_mints # d.audited_mints
  <2>1. PICK m \in d2.mint_txs, e \in d2.deposits :
          /\ Backs(e, m)
          /\ DOMAIN d2.audited_mints = 1 .. n + 1
          /\ d2.audited_mints[n + 1] = [mint |-> m.nonce, deposit |-> e.eth_tx_hash]
          /\ \A i \in 1 .. n : d2.audited_mints[i] = d.audited_mints[i]
    BY <1>1, <1>4, MintLogGrows
  <2>2. Len(d2.audited_mints) = n + 1
    BY <2>1 DEF Databases
  <2>3. ASSUME NEW i \in 1 .. n + 1, i > k
        PROVE  \E x \in d2.mint_txs, y \in d2.deposits :
                 /\ d2.audited_mints[i] = [mint |-> x.nonce, deposit |-> y.eth_tx_hash]
                 /\ Backs(y, x)
    <3>1. CASE i = n + 1
      BY <2>1, <3>1
    <3>2. CASE i \in 1 .. n
      <4>1. PICK x \in d.mint_txs, y \in d.deposits :
              /\ d.audited_mints[i] = [mint |-> x.nonce, deposit |-> y.eth_tx_hash]
              /\ Backs(y, x)
        BY <1>1, <2>3, <3>2 DEF MintEntriesMatch
      <4> QED
        BY <1>2, <2>1, <3>2, <4>1
    <3>3. i = n + 1 \/ i \in 1 .. n
      OBVIOUS
    <3> QED
      BY ONLY <3>1, <3>2, <3>3
  <2>4. MintEntriesMatch(k, d2)
    BY <2>1, <2>3 DEF MintEntriesMatch
  <2> QED
    BY <1>1, <2>2, <2>4
<1> QED
  BY <1>3, <1>4

\* A step of the log keeps audited_mints one-to-one.
LEMMA MintPairsKept ==
  ASSUME NEW d \in Databases, NEW d2 \in Databases, LogStep(d, d2), OneToOneMints(d)
  PROVE  OneToOneMints(d2)
<1>1. PICK n \in Nat : n = Len(d.audited_mints) /\ DOMAIN d.audited_mints = 1 .. n
  BY DEF Databases
<1>2. CASE d2.audited_mints = d.audited_mints
  BY <1>2 DEF OneToOneMints
<1>3. CASE d2.audited_mints # d.audited_mints
  <2>1. PICK m \in d2.mint_txs, e \in d2.deposits :
          /\ DOMAIN d2.audited_mints = 1 .. n + 1
          /\ d2.audited_mints[n + 1] = [mint |-> m.nonce, deposit |-> e.eth_tx_hash]
          /\ \A i \in 1 .. n : /\ d2.audited_mints[i] = d.audited_mints[i]
                              /\ d.audited_mints[i].mint # m.nonce
                              /\ d.audited_mints[i].deposit # e.eth_tx_hash
    BY <1>1, <1>3, MintLogGrows
  <2>2. d2.audited_mints[n + 1].mint = m.nonce /\ d2.audited_mints[n + 1].deposit = e.eth_tx_hash
    BY <2>1
  <2> SUFFICES ASSUME NEW i \in 1 .. n + 1, NEW j \in 1 .. n + 1,
                      \/ d2.audited_mints[i].mint = d2.audited_mints[j].mint
                      \/ d2.audited_mints[i].deposit = d2.audited_mints[j].deposit
               PROVE  i = j
    BY <2>1 DEF OneToOneMints
  <2>3. CASE i \in 1 .. n /\ j \in 1 .. n
    BY <1>1, <2>1, <2>3 DEF OneToOneMints
  <2>4. CASE i \in 1 .. n /\ j = n + 1
    BY <2>1, <2>2, <2>4
  <2>5. CASE i = n + 1 /\ j \in 1 .. n
    BY <2>1, <2>2, <2>5
  <2> QED
    BY <2>3, <2>4, <2>5
<1> QED
  BY <1>2, <1>3

\* A step of the log keeps audited_mints sound and one-to-one.
LEMMA MintLogKept ==
  ASSUME NEW d \in Databases, NEW d2 \in Databases, LogStep(d, d2), MintLogInv(d)
  PROVE  MintLogInv(d2)
<1>1. \A c \in {d, d2} : \A i \in DOMAIN c.audited_mints : i > 0
  BY DEF Databases
<1>2. MintEntriesMatch(0, d2)
  BY MintEntriesKept DEF MintLogInv, SoundMintLog, MintEntriesMatch
<1>3. SoundMintLog(d2)
  BY <1>1, <1>2 DEF SoundMintLog, MintEntriesMatch
<1> QED
  BY <1>3, MintPairsKept DEF MintLogInv

\* A step of the log appends at most one entry to audited_burns, of stored rows that
\* match and are not in it yet.
LEMMA BurnLogGrows ==
  ASSUME NEW d \in Databases, NEW d2 \in Databases, LogStep(d, d2), NEW n \in Nat,
         n = Len(d.audited_burns), d2.audited_burns # d.audited_burns
  PROVE  \E b \in d2.burn_tx_outs, w \in d2.withdrawals :
           /\ Redeems(w, b)
           /\ DOMAIN d2.audited_burns = 1 .. n + 1
           /\ d2.audited_burns[n + 1] = [burn |-> b.public_key, withdrawal |-> w.eth_tx_hash]
           /\ \A i \in 1 .. n : /\ d2.audited_burns[i] = d.audited_burns[i]
                               /\ d.audited_burns[i].burn # b.public_key
                               /\ d.audited_burns[i].withdrawal # w.eth_tx_hash
<1>1. d.audited_burns \in Seq(AuditedBurnRows) /\ DOMAIN d.audited_burns = 1 .. n
  BY DEF Databases
<1>2. PICK b \in d2.burn_tx_outs, w \in d2.withdrawals :
        /\ ~BurnIsAudited(d, b.public_key)
        /\ ~WithdrawalIsAudited(d, w.eth_tx_hash)
        /\ Redeems(w, b)
        /\ d2.audited_burns = Append(d.audited_burns, [burn |-> b.public_key, withdrawal |-> w.eth_tx_hash])
  BY DEF LogStep, NewBurnPair
<1>3. PICK row \in AuditedBurnRows : row = [burn |-> b.public_key, withdrawal |-> w.eth_tx_hash]
  BY DEF AuditedBurnRows, Databases, BurnTxOutRows, WithdrawalRows
<1>4. /\ DOMAIN d2.audited_burns = 1 .. n + 1
      /\ d2.audited_burns[n + 1] = row
      /\ \A i \in 1 .. n : d2.audited_burns[i] = d.audited_burns[i]
  BY <1>1, <1>2, <1>3
<1>5. \A i \in 1 .. n : /\ d.audited_burns[i].burn # b.public_key
                      /\ d.audited_burns[i].withdrawal # w.eth_tx_hash
  BY <1>1, <1>2 DEF BurnIsAudited, WithdrawalIsAudited
<1> QED
  BY <1>2, <1>3, <1>4, <1>5

\* A step of the log keeps its entries matching.
LEMMA BurnEntriesKept ==
  ASSUME NEW d \in Databases, NEW d2 \in Databases, LogStep(d, d2),
         NEW k \in Nat, BurnEntriesMatch(k, d)
  PROVE  BurnEntriesMatch(k, d2) /\ Len(d.audited_burns) <= Len(d2.audited_burns)
<1>1. PICK n \in Nat : n = Len(d.audited_burns) /\ DOMAIN d.audited_burns = 1 .. n
  BY DEF Databases
<1>2. d.burn_tx_outs \subseteq d2.burn_tx_outs /\ d.withdrawals \subseteq d2.withdrawals
  BY DEF LogStep, RowsGrow
<1>3. CASE d2.audited_burns = d.audited_burns
  BY <1>1, <1>2, <1>3 DEF BurnEntriesMatch
<1>4. CASE d2.audited_burns # d.audited_burns
  <2>1. PICK b \in d2.burn_tx_outs, w \in d2.withdrawals :
          /\ Redeems(w, b)
          /\ DOMAIN d2.audited_burns = 1 .. n + 1
          /\ d2.audited_burns[n + 1] = [burn |-> b.public_key, withdrawal |-> w.eth_tx_hash]
          /\ \A i \in 1 .. n : d2.audited_burns[i] = d.audited_burns[i]
    BY <1>1, <1>4, BurnLogGrows
  <2>2. Len(d2.audited_burns) = n + 1
    BY <2>1 DEF Databases
  <2>3. ASSUME NEW i \in 1 .. n + 1, i > k
        PROVE  \E x \in d2.burn_tx_outs, y \in d2.withdrawals :
                 /\ d2.audited_burns[i] = [burn |-> x.public_key, withdrawal |-> y.eth_tx_hash]
                 /\ Redeems(y, x)
    <3>1. CASE i = n + 1
      BY <2>1, <3>1
    <3>2. CASE i \in 1 .. n
      <4>1. PICK x \in d.burn_tx_outs, y \in d.withdrawals :
              /\ d.audited_burns[i] = [burn |-> x.public_key, withdrawal |-> y.eth_tx_hash]
              /\ Redeems(y, x)
        BY <1>1, <2>3, <3>2 DEF BurnEntriesMatch
      <4> QED
        BY <1>2, <2>1, <3>2, <4>1
    <3>3. i = n + 1 \/ i \in 1 .. n
      OBVIOUS
    <3> QED
      BY ONLY <3>1, <3>2, <3>3
  <2>4. BurnEntriesMatch(k, d2)
    BY <2>1, <2>3 DEF BurnEntriesMatch
  <2> QED
    BY <1>1, <2>2, <2>4
<1> QED
  BY <1>3, <1>4

\* A step of the log keeps audited_burns one-to-one.
LEMMA BurnPairsKept ==
  ASSUME NEW d \in Databases, NEW d2 \in Databases, LogStep(d, d2), OneToOneBurns(d)
  PROVE  OneToOneBurns(d2)
<1>1. PICK n \in Nat : n = Len(d.audited_burns) /\ DOMAIN d.audited_burns = 1 .. n
  BY DEF Databases
<1>2. CASE d2.audited_burns = d.audited_burns
  BY <1>2 DEF OneToOneBurns
<1>3. CASE d2.audited_burns # d.audited_burns
  <2>1. PICK b \in d2.burn_tx_outs, w \in d2.withdrawals :
          /\ DOMAIN d2.audited_burns = 1 .. n + 1
          /\ d2.audited_burns[n + 1] = [burn |-> b.public_key, withdrawal |-> w.eth_tx_hash]
          /\ \A i \in 1 .. n : /\ d2.audited_burns[i] = d.audited_burns[i]
                              /\ d.audited_burns[i].burn # b.public_key
                              /\ d.audited_burns[i].withdrawal # w.eth_tx_hash
    BY <1>1, <1>3, BurnLogGrows
  <2>2. d2.audited_burns[n + 1].burn = b.public_key /\ d2.audited_burns[n + 1].withdrawal = w.eth_tx_hash
    BY <2>1
  <2> SUFFICES ASSUME NEW i \in 1 .. n + 1, NEW j \in 1 .. n + 1,
                      \/ d2.audited_burns[i].burn = d2.audited_burns[j].burn
                      \/ d2.audited_burns[i].withdrawal = d2.audited_burns[j].withdrawal
               PROVE  i = j
    BY <2>1 DEF OneToOneBurns
  <2>3. CASE i \in 1 .. n /\ j \in 1 .. n
    BY <1>1, <2>1, <2>3 DEF OneToOneBurns
  <2>4. CASE i \in 1 .. n /\ j = n + 1
    BY <2>1, <2>2, <2>4
  <2>5. CASE i = n + 1 /\ j \in 1 .. n
    BY <2>1, <2>2, <2>5
  <2> QED
    BY <2>3, <2>4, <2>5
<1> QED
  BY <1>2, <1>3

\* A step of the log keeps audited_burns sound and one-to-one.
LEMMA BurnLogKept ==
  ASSUME NEW d \in Databases, NEW d2 \in Databases, LogStep(d, d2), BurnLogInv(d)
  PROVE  BurnLogInv(d2)
<1>1. \A c \in {d, d2} : \A i \in DOMAIN c.audited_burns : i > 0
  BY DEF Databases
<1>2. BurnEntriesMatch(0, d2)
  BY BurnEntriesKept DEF BurnLogInv, SoundBurnLog, BurnEntriesMatch
<1>3. SoundBurnLog(d2)
  BY <1>1, <1>2 DEF SoundBurnLog, BurnEntriesMatch
<1> QED
  BY <1>3, BurnPairsKept DEF BurnLogInv

\* What the two verify functions accept are matches.
LEMMA VerifiedMatch ==
  ASSUME NEW k \in DOMAIN Config
  PROVE  /\ \A m, e : verify_mint_tx_matches_deposit(m, e, Config[k]) = "Ok" => Backs(e, m)
         /\ \A b, w : verify_burn_tx_out_matches_withdrawal(b, w, Config[k]) = "Ok" => Redeems(w, b)
<1>1. ASSUME NEW m, NEW e, verify_mint_tx_matches_deposit(m, e, Config[k]) = "Ok"
      PROVE  Backs(e, m)
  <2>1. /\ e.safe_addr = Config[k].safe_addr
        /\ get_token_by_eth_contract_addr(Config[k], e.token_addr) # {}
        /\ \A t \in get_token_by_eth_contract_addr(Config[k], e.token_addr) :
             t.token_id = m.token_id
        /\ m.nonce = expected_mc_mint_tx_nonce(e) /\ m.amount = e.amount
    BY <1>1 DEF verify_mint_tx_matches_deposit
  <2> QED
    BY <2>1 DEF Backs, expected_mc_mint_tx_nonce
<1>2. ASSUME NEW b, NEW w, verify_burn_tx_out_matches_withdrawal(b, w, Config[k]) = "Ok"
      PROVE  Redeems(w, b)
  <2>1. /\ w.safe_addr = Config[k].safe_addr
        /\ get_token_by_eth_contract_addr(Config[k], w.token_addr) # {}
        /\ \A t \in get_token_by_eth_contract_addr(Config[k], w.token_addr) :
             t.token_id = b.token_id
        /\ b.public_key = w.public_key /\ b.amount = w.amount
    BY <1>2 DEF verify_burn_tx_out_matches_withdrawal
  <2> QED
    BY <2>1 DEF Redeems
<1> QED
  BY <1>1, <1>2

\* Writes that leave the logs alone are steps of the log.
LEMMA QuietLogStep ==
  ASSUME NEW d, NEW d2, RowsGrow(d, d2), KeepsLogs(d, d2)
  PROVE  LogStep(d, d2)
  BY DEF LogStep, KeepsLogs

\* A matching attempt of the main thread on a stored mint, or a stored burn,
\* is a step of the log.
LEMMA LedgerAttemptSteps ==
  ASSUME NEW d \in Databases
  PROVE  /\ \A tx \in CoreMintTxs : MintStored(d, tx) =>
              \A d2 \in try_match_mint_with_deposit(d, tx) : LogStep(d, d2)
         /\ \A o \in TxOuts : BurnStored(d, o) =>
              \A d2 \in try_match_burn_with_withdrawal(d, o) : LogStep(d, d2)
<1>1. ASSUME NEW tx \in CoreMintTxs, MintStored(d, tx),
             NEW d2 \in try_match_mint_with_deposit(d, tx)
      PROVE  LogStep(d, d2)
  <2>1. CASE \E c \in FailureCounters : d2 = Inc(d, c)
    BY <2>1, CountedFailure, QuietLogStep
  <2>2. CASE \E e \in d.deposits : MintAttempt(d, d2, tx, e)
    <3>1. PICK e \in d.deposits : MintAttempt(d, d2, tx, e)
      BY <2>2
    <3>2. PICK m \in d.mint_txs : /\ m.nonce = tx.nonce /\ m.amount = tx.amount
                                  /\ m.token_id = tx.token_id
      BY <1>1 DEF MintStored
    <3>3. tx.nonce \in Nonces /\ e.eth_tx_hash \in EthTxHashes
      BY DEF CoreMintTxs, Databases, DepositRows
    <3>4. /\ RowsGrow(d, d2) /\ d2.audited_burns = d.audited_burns
          /\ d2.audited_mints
               = Append(d.audited_mints, [mint |-> tx.nonce, deposit |-> e.eth_tx_hash])
      BY <3>1, <3>3, MintPairing
    <3>5. Backs(e, tx)
      BY <3>1, VerifiedMatch DEF MintAttempt
    <3>6. Backs(e, m)
      BY <3>2, <3>5 DEF Backs
    <3>7. m \in d2.mint_txs /\ e \in d2.deposits
      BY <3>4 DEF RowsGrow
    <3>8. NewMintPair(d, d2)
      BY <3>1, <3>2, <3>4, <3>6, <3>7 DEF NewMintPair, MintAttempt
    <3> QED
      BY <3>4, <3>8 DEF LogStep
  <2> QED
    BY <2>1, <2>2, MintOutcomes
<1>2. ASSUME NEW o \in TxOuts, BurnStored(d, o),
             NEW d2 \in try_match_burn_with_withdrawal(d, o)
      PROVE  LogStep(d, d2)
  <2>1. CASE \E c \in FailureCounters : d2 = Inc(d, c)
    BY <2>1, CountedFailure, QuietLogStep
  <2>2. CASE \E w \in d.withdrawals : BurnAttempt(d, d2, o, w)
    <3>1. PICK w \in d.withdrawals : BurnAttempt(d, d2, o, w)
      BY <2>2
    <3>2. PICK b \in d.burn_tx_outs : /\ b.public_key = o.public_key /\ b.amount = o.amount
                                      /\ b.token_id = o.token_id
      BY <1>2 DEF BurnStored
    <3>3. o.public_key \in PublicKeys /\ w.eth_tx_hash \in EthTxHashes
      BY DEF TxOuts, Databases, WithdrawalRows
    <3>4. /\ RowsGrow(d, d2) /\ d2.audited_mints = d.audited_mints
          /\ d2.audited_burns
               = Append(d.audited_burns, [burn |-> o.public_key, withdrawal |-> w.eth_tx_hash])
      BY <3>1, <3>3, BurnPairing
    <3>5. Redeems(w, o)
      BY <3>1, VerifiedMatch DEF BurnAttempt
    <3>6. Redeems(w, b)
      BY <3>2, <3>5 DEF Redeems
    <3>7. b \in d2.burn_tx_outs /\ w \in d2.withdrawals
      BY <3>4 DEF RowsGrow
    <3>8. NewBurnPair(d, d2)
      BY <3>1, <3>2, <3>4, <3>6, <3>7 DEF NewBurnPair, BurnAttempt
    <3> QED
      BY <3>4, <3>8 DEF LogStep
  <2> QED
    BY <2>1, <2>2, BurnOutcomes
<1> QED
  BY <1>1, <1>2

\* A safe thread that stores a row in d0 and then matches it takes a step of
\* the log.
LEMMA SafeAttemptSteps ==
  ASSUME NEW d0 \in Databases, NEW d \in Databases, RowsGrow(d0, d), KeepsLogs(d0, d),
         NEW k \in DOMAIN Config
  PROVE  /\ \A e \in d.deposits :
              \A d2 \in try_match_deposit_with_mint(d, e, Config[k]) : LogStep(d0, d2)
         /\ \A w \in d.withdrawals :
              \A d2 \in try_match_withdrawal_with_burn(d, w, Config[k]) : LogStep(d0, d2)
<1>1. ASSUME NEW e \in d.deposits, NEW d2 \in try_match_deposit_with_mint(d, e, Config[k])
      PROVE  LogStep(d0, d2)
  <2>1. CASE \E c \in FailureCounters : d2 = Inc(d, c)
    <3>1. RowsGrow(d, d2) /\ KeepsLogs(d, d2)
      BY <2>1, CountedFailure
    <3>2. RowsGrow(d0, d2) /\ KeepsLogs(d0, d2)
      BY <3>1 DEF RowsGrow, KeepsLogs
    <3> QED
      BY <3>2, QuietLogStep
  <2>2. CASE \E m \in d.mint_txs : MintAttempt(d, d2, m, e)
    <3>1. PICK m \in d.mint_txs : MintAttempt(d, d2, m, e)
      BY <2>2
    <3>2. m.nonce \in Nonces /\ e.eth_tx_hash \in EthTxHashes
      BY DEF MintTxRows, Databases, DepositRows
    <3>3. /\ RowsGrow(d, d2) /\ d2.audited_burns = d.audited_burns
          /\ d2.audited_mints
               = Append(d.audited_mints, [mint |-> m.nonce, deposit |-> e.eth_tx_hash])
      BY <3>1, <3>2, MintPairing
    <3>4. Backs(e, m)
      BY <3>1, VerifiedMatch DEF MintAttempt
    <3>5. m \in d2.mint_txs /\ e \in d2.deposits /\ RowsGrow(d0, d2)
      BY <3>3 DEF RowsGrow
    <3>6. ~MintIsAudited(d0, m.nonce) /\ ~DepositIsAudited(d0, e.eth_tx_hash)
      BY <3>1 DEF MintAttempt, KeepsLogs, MintIsAudited, DepositIsAudited
    <3>7. d0.audited_mints = d.audited_mints /\ d0.audited_burns = d.audited_burns
      BY DEF KeepsLogs
    <3>8. NewMintPair(d0, d2)
      BY <3>3, <3>4, <3>5, <3>6, <3>7 DEF NewMintPair
    <3> QED
      BY <3>3, <3>5, <3>7, <3>8 DEF LogStep
  <2> QED
    BY <2>1, <2>2, DepositOutcomes
<1>2. ASSUME NEW w \in d.withdrawals, NEW d2 \in try_match_withdrawal_with_burn(d, w, Config[k])
      PROVE  LogStep(d0, d2)
  <2>1. CASE \E c \in FailureCounters : d2 = Inc(d, c)
    <3>1. RowsGrow(d, d2) /\ KeepsLogs(d, d2)
      BY <2>1, CountedFailure
    <3>2. RowsGrow(d0, d2) /\ KeepsLogs(d0, d2)
      BY <3>1 DEF RowsGrow, KeepsLogs
    <3> QED
      BY <3>2, QuietLogStep
  <2>2. CASE \E b \in d.burn_tx_outs : BurnAttempt(d, d2, b, w)
    <3>1. PICK b \in d.burn_tx_outs : BurnAttempt(d, d2, b, w)
      BY <2>2
    <3>2. b.public_key \in PublicKeys /\ w.eth_tx_hash \in EthTxHashes
      BY DEF BurnTxOutRows, Databases, WithdrawalRows
    <3>3. /\ RowsGrow(d, d2) /\ d2.audited_mints = d.audited_mints
          /\ d2.audited_burns
               = Append(d.audited_burns, [burn |-> b.public_key, withdrawal |-> w.eth_tx_hash])
      BY <3>1, <3>2, BurnPairing
    <3>4. Redeems(w, b)
      BY <3>1, VerifiedMatch DEF BurnAttempt
    <3>5. b \in d2.burn_tx_outs /\ w \in d2.withdrawals /\ RowsGrow(d0, d2)
      BY <3>3 DEF RowsGrow
    <3>6. ~BurnIsAudited(d0, b.public_key) /\ ~WithdrawalIsAudited(d0, w.eth_tx_hash)
      BY <3>1 DEF BurnAttempt, KeepsLogs, BurnIsAudited, WithdrawalIsAudited
    <3>7. d0.audited_mints = d.audited_mints /\ d0.audited_burns = d.audited_burns
      BY DEF KeepsLogs
    <3>8. NewBurnPair(d0, d2)
      BY <3>3, <3>4, <3>5, <3>6, <3>7 DEF NewBurnPair
    <3> QED
      BY <3>3, <3>5, <3>7, <3>8 DEF LogStep
  <2> QED
    BY <2>1, <2>2, WithdrawalOutcomes
<1> QED
  BY <1>1, <1>2

----------------------------------------------------------------------------
(* Steps.                                                                  *)

\* What a step does to the two databases: copy one over the other, or one
\* write.
DbStep == /\ db' \in {db, wdb}
          /\ wdb' \in {db, wdb} \/ LogStep(wdb, wdb')

\* The writes of the main thread are steps of the log.
LEMMA ScanWriteSteps ==
  ASSUME IInv, NEW p \in Procs,
         \/ StoreMintConfigTx(p) \/ StoreMintTx(p) \/ StoreBurnTxOut(p) \/ FinishBlock(p)
         \/ AuditMint(p) \/ AuditBurn(p)
  PROVE  LogStep(wdb, wdb')
<1> DEFINE txs == Contents(p).mint_txs
           outs == Contents(p).outputs
           cfgs == Contents(p).mint_config_txs
<1>1. scan[p].pc \notin {"poll", "dead"} /\ ScanInv(scan[p], wdb, ledger) /\ wdb \in Databases
  BY TypeFacts DEF IInv, StoreMintConfigTx, StoreMintTx, StoreBurnTxOut, FinishBlock,
                   AuditMint, AuditBurn
<1>2. /\ Contents(p) \in BlockContents /\ scan[p].block_index \in Nat
      /\ scan[p].pos \in Nat \ {0} /\ scan[p].bal \in BalanceMaps
  BY <1>1, ContentsType
<1>3. /\ txs \in Seq(CoreMintTxs) /\ outs \in Seq(TxOuts) /\ cfgs \in Seq(CoreMintConfigTxs)
  BY <1>2 DEF BlockContents
<1>4. PICK n \in Nat, bal \in BalanceMaps : n = scan[p].block_index /\ bal = scan[p].bal
  BY <1>2
<1>5. CASE StoreMintConfigTx(p)
  <2>1. PICK tx \in CoreMintConfigTxs : tx = cfgs[scan[p].pos]
    BY <1>2, <1>3, <1>5 DEF StoreMintConfigTx
  <2>2. wdb' = insert_from_core_mint_config_tx(wdb, n, tx)
    BY <1>4, <1>5, <2>1 DEF StoreMintConfigTx, Write
  <2>3. RowsGrow(wdb, wdb') /\ KeepsLogs(wdb, wdb')
    BY ONLY <1>1, <2>2, MintConfigInsert
  <2> QED
    BY <2>3, QuietLogStep
<1>6. CASE StoreMintTx(p)
  <2>1. PICK tx \in CoreMintTxs : tx = txs[scan[p].pos]
    BY <1>2, <1>3, <1>6 DEF StoreMintTx
  <2>2. wdb' = store_mint_tx(wdb, n, tx)
    BY <1>4, <1>6, <2>1 DEF StoreMintTx, Write
  <2>3. \A c, o \in wdb.mint_config_txs :
          c.block_index = o.block_index /\ c.token_id = o.token_id => c = o
    BY DEF IInv, DbInv
  <2>4. RowsGrow(wdb, wdb') /\ KeepsLogs(wdb, wdb')
    BY ONLY <1>1, <2>2, <2>3, MintInsert
  <2> QED
    BY <2>4, QuietLogStep
<1>7. CASE StoreBurnTxOut(p)
  <2>1. PICK o \in TxOuts : o = outs[scan[p].pos]
    BY <1>2, <1>3, <1>7 DEF StoreBurnTxOut, AtOutput
  <2>2. wdb' = store_burn_tx_out(wdb, bal, n, o)
    BY <1>4, <1>7, <2>1 DEF StoreBurnTxOut, Write, Output
  <2>3. RowsGrow(wdb, wdb') /\ KeepsLogs(wdb, wdb')
    BY ONLY <1>1, <2>2, BurnInsert
  <2> QED
    BY <2>3, QuietLogStep
<1>8. CASE FinishBlock(p)
  <2>1. wdb' = finish_block(wdb, n, bal)
    BY <1>4, <1>8 DEF FinishBlock, Write
  <2>2. RowsGrow(wdb, wdb') /\ KeepsLogs(wdb, wdb')
    BY ONLY <1>1, <2>1, BlockFinished
  <2> QED
    BY <2>2, QuietLogStep
<1>9. CASE AuditMint(p)
  <2>1. scan[p].pos \in 1 .. Len(txs)
    BY <1>2, <1>3, <1>9 DEF AuditMint
  <2>2. PICK tx \in CoreMintTxs : tx = txs[scan[p].pos]
    BY <1>3, <2>1
  <2>3. wdb' \in try_match_mint_with_deposit(wdb, tx)
    BY <1>9, <2>2 DEF AuditMint, Write
  <2>4. MintsStored(wdb, txs, Len(txs) + 1)
    BY <1>1, <1>9 DEF AuditMint, ScanInv, Contents
  <2>5. MintStored(wdb, tx)
    BY <1>3, <2>1, <2>2, <2>4 DEF MintsStored
  <2> QED
    BY ONLY <1>1, <2>3, <2>5, LedgerAttemptSteps
<1>10. CASE AuditBurn(p)
  <2>1. scan[p].pos \in 1 .. Len(outs)
    BY <1>2, <1>3, <1>10 DEF AuditBurn, AtOutput
  <2>2. PICK o \in TxOuts : o = outs[scan[p].pos]
    BY <1>3, <2>1
  <2>3. wdb' \in try_match_burn_with_withdrawal(wdb, o) /\ o.burn
    BY <1>10, <2>2 DEF AuditBurn, Write, Output
  <2>4. BurnsStored(wdb, outs, Len(outs) + 1)
    BY <1>1, <1>10 DEF AuditBurn, ScanInv, Contents
  <2>5. BurnStored(wdb, o)
    BY <1>3, <2>1, <2>2, <2>3, <2>4 DEF BurnsStored
  <2> QED
    BY ONLY <1>1, <2>3, <2>5, LedgerAttemptSteps
<1> QED
  BY <1>5, <1>6, <1>7, <1>8, <1>9, <1>10

\* The writes of a safe thread are steps of the log.
LEMMA WorkWriteSteps ==
  ASSUME IInv, NEW t \in Workers,
         \/ InsertTx(t) \/ UnknownTokenTransfer(t) \/ InvalidMultiSig(t)
         \/ StoreDeposit(t) \/ StoreWithdrawal(t)
  PROVE  LogStep(wdb, wdb')
<1>1. wdb \in Databases
  BY TypeFacts
<1>2. PICK k \in DOMAIN Config : audited_safe(t) = Config[k]
  BY SafeOfThread
<1>3. CASE InsertTx(t)
  <2>1. work[t].pc \in WorkInTx
    BY <1>3 DEF InsertTx, WorkInTx
  <2>2. PICK h \in EthTxHashes : h = Tx(t).tx_hash
    BY <2>1, TxType
  <2>3. wdb' = [wdb EXCEPT !.gnosis_safe_txs = @ \cup {h}]
    BY <1>3, <2>2 DEF InsertTx, Write
  <2>4. RowsGrow(wdb, wdb') /\ KeepsLogs(wdb, wdb')
    BY <1>1, <2>3, SafeInserts
  <2> QED
    BY <2>4, QuietLogStep
<1>4. CASE UnknownTokenTransfer(t) \/ InvalidMultiSig(t)
  <2>1. PICK c \in FailureCounters : wdb' = Inc(wdb, c)
    BY <1>4 DEF UnknownTokenTransfer, InvalidMultiSig, FailureCounters, CounterNames, Write
  <2> QED
    BY <1>1, <2>1, CountedFailure, QuietLogStep
<1>5. CASE StoreDeposit(t)
  <2>1. PICK token \in TransferToken(t) :
          /\ ~ValuePanics(Transfer(t).value, token, audited_safe(t))
          /\ Write(t, try_match_deposit_with_mint(
                        [wdb EXCEPT !.deposits = @ \cup {new_deposit(t, token)}],
                        new_deposit(t, token), audited_safe(t)))
    BY <1>5 DEF StoreDeposit
  <2>2. PICK e \in DepositRows : e = new_deposit(t, token)
    BY <1>5, <2>1, NewDepositType DEF StoreDeposit
  <2>3. PICK d : d = [wdb EXCEPT !.deposits = @ \cup {e}]
    OBVIOUS
  <2>4. wdb' \in try_match_deposit_with_mint(d, e, Config[k])
    BY <1>2, <2>1, <2>2, <2>3 DEF Write
  <2>5. d \in Databases /\ e \in d.deposits /\ RowsGrow(wdb, d) /\ KeepsLogs(wdb, d)
    BY <1>1, <2>3, SafeInserts
  <2> QED
    BY ONLY <1>1, <2>4, <2>5, SafeAttemptSteps
<1>6. CASE StoreWithdrawal(t)
  <2>1. PICK token \in WithdrawalToken(t) :
          /\ ~ValuePanics(Tx(t).amount, token, audited_safe(t))
          /\ Write(t, try_match_withdrawal_with_burn(
                        [wdb EXCEPT !.withdrawals = @ \cup {new_withdrawal(t, token)}],
                        new_withdrawal(t, token), audited_safe(t)))
    BY <1>6 DEF StoreWithdrawal
  <2>2. PICK w \in WithdrawalRows : w = new_withdrawal(t, token)
    BY <1>6, <2>1, NewWithdrawalType DEF StoreWithdrawal
  <2>3. PICK d : d = [wdb EXCEPT !.withdrawals = @ \cup {w}]
    OBVIOUS
  <2>4. wdb' \in try_match_withdrawal_with_burn(d, w, Config[k])
    BY <1>2, <2>1, <2>2, <2>3 DEF Write
  <2>5. d \in Databases /\ w \in d.withdrawals /\ RowsGrow(wdb, d) /\ KeepsLogs(wdb, d)
    BY <1>1, <2>3, SafeInserts
  <2> QED
    BY ONLY <1>1, <2>4, <2>5, SafeAttemptSteps
<1> QED
  BY <1>3, <1>4, <1>5, <1>6

\* Every step of the auditor is a DbStep.
LEMMA NextDbStep ==
  ASSUME IInv, [Next]_vars
  PROVE  DbStep
<1> USE DEF DbStep
<1>1. CASE UNCHANGED vars
  BY <1>1 DEF vars
<1>2. CASE LedgerNext
  <2>1. CASE GrowLedger
    BY <2>1 DEF GrowLedger, storeVars
  <2>2. CASE \E p \in Procs : ScanStep(p) \/ BeginBlock(p) \/ BlockLockTimeout(p)
    <3>1. PICK p \in Procs : ScanStep(p) \/ BeginBlock(p) \/ BlockLockTimeout(p)
      BY <2>2
    <3>2. CASE SyncLoop(p) \/ BeginBlock(p) \/ BlockLockTimeout(p)
      BY <3>2 DEF SyncLoop, BeginBlock, BlockLockTimeout, Begin, LockTimeout, storeVars
    <3>3. CASE \/ CheckBlockIndex(p) \/ LoadBalances(p) \/ MintTxsDone(p) \/ SkipOutput(p)
               \/ AuditMintsDone(p) \/ AuditBurnsDone(p)
      BY <3>3 DEF CheckBlockIndex, LoadBalances, MintTxsDone, SkipOutput, AuditMintsDone,
                  AuditBurnsDone, Write
    <3>4. CASE CommitBlock(p) \/ SyncBlockFails(p)
      BY <3>4 DEF CommitBlock, Commit, SyncBlockFails, Rollback, RollbackOf
    <3>5. CASE \/ StoreMintConfigTx(p) \/ StoreMintTx(p) \/ StoreBurnTxOut(p) \/ FinishBlock(p)
               \/ AuditMint(p) \/ AuditBurn(p)
      <4>1. db' = db
        BY <3>5 DEF StoreMintConfigTx, StoreMintTx, StoreBurnTxOut, FinishBlock, AuditMint,
                    AuditBurn, Write
      <4> QED
        BY <3>5, <4>1, ScanWriteSteps
    <3> QED
      BY <3>1, <3>2, <3>3, <3>4, <3>5 DEF ScanStep
  <2> QED
    BY <1>2, <2>1, <2>2 DEF LedgerNext
<1>3. CASE GnosisNext
  <2>1. CASE \E a \in AuditedSafes : ListTx(a)
    BY <2>1 DEF ListTx, storeVars
  <2>2. CASE \E t \in Workers : WorkStep(t) \/ BeginTx(t) \/ TxLockTimeout(t)
    <3>1. PICK t \in Workers : WorkStep(t) \/ BeginTx(t) \/ TxLockTimeout(t)
      BY <2>2
    <3>2. CASE Poll(t) \/ PollDone(t) \/ BeginTx(t) \/ TxLockTimeout(t)
      BY <3>2 DEF Poll, PollDone, BeginTx, TxLockTimeout, Begin, LockTimeout, storeVars
    <3>3. CASE SkipTx(t) \/ UnknownTransfer(t) \/ TransfersDone(t) \/ OtherSafeMultiSig(t)
      BY <3>3 DEF SkipTx, UnknownTransfer, TransfersDone, OtherSafeMultiSig, Write
    <3>4. CASE CommitTx(t) \/ DecodeFails(t) \/ DepositFails(t) \/ MultiSigFails(t)
      BY <3>4 DEF CommitTx, Commit, DecodeFails, DepositFails, MultiSigFails, WorkFails,
                  Rollback, RollbackOf
    <3>5. CASE \/ InsertTx(t) \/ UnknownTokenTransfer(t) \/ InvalidMultiSig(t)
               \/ StoreDeposit(t) \/ StoreWithdrawal(t)
      <4>1. db' = db
        BY <3>5 DEF InsertTx, UnknownTokenTransfer, InvalidMultiSig, StoreDeposit,
                    StoreWithdrawal, Write
      <4> QED
        BY <3>5, <4>1, WorkWriteSteps
    <3> QED
      BY <3>1, <3>2, <3>3, <3>4, <3>5 DEF WorkStep
  <2> QED
    BY <1>3, <2>1, <2>2 DEF GnosisNext
<1>4. CASE \E p \in Procs : Crash(p) \/ Restart(p)
  BY <1>4 DEF Crash, CrashStore, Restart, RollbackOf
<1> QED
  BY <1>1, <1>2, <1>3, <1>4 DEF Next

----------------------------------------------------------------------------
(* The theorems.                                                           *)

\* The logs of both databases, the committed one and the one the lock holder
\* sees, are sound and one-to-one.
LEMMA LogsInvariance == Spec => [](LogInv(db) /\ LogInv(wdb))
<1>1. Init => LogInv(db) /\ LogInv(wdb)
  BY DEF Init, StoreInit, EmptyDb, LogInv, MintLogInv, BurnLogInv, SoundMintLog, SoundBurnLog,
         OneToOneMints, OneToOneBurns
<1>2. /\ IInv /\ IInv' /\ [Next]_vars
      /\ LogInv(db) /\ LogInv(wdb)
      => LogInv(db)' /\ LogInv(wdb)'
  <2> SUFFICES ASSUME IInv, IInv', [Next]_vars, LogInv(db), LogInv(wdb)
               PROVE  LogInv(db') /\ LogInv(wdb')
    OBVIOUS
  <2>1. DbStep
    BY NextDbStep
  <2>2. LogInv(db')
    BY <2>1 DEF DbStep
  <2>3. wdb \in Databases /\ wdb' \in Databases
    BY DEF IInv, TypeOK, LedgerTypeOK, StoreTypeOK
  <2>4. LogStep(wdb, wdb') => LogInv(wdb')
    BY <2>3, MintLogKept, BurnLogKept DEF LogInv
  <2>5. LogInv(wdb')
    BY <2>1, <2>4 DEF DbStep
  <2> QED
    BY <2>2, <2>5
<1> QED
  BY <1>1, <1>2, Invariance, PTL DEF Spec

\* Every row of audited_mints joins a stored mint with a stored deposit that
\* backs it, whichever thread wrote it (try_match_mint_with_deposit,
\* try_match_deposit_with_mint), for any number of processes and safes.
THEOREM MintSoundness == Spec => []AuditedMintsAreSound
<1>1. LogInv(db) => AuditedMintsAreSound
  BY DEF LogInv, MintLogInv, AuditedMintsAreSound
<1> QED
  BY <1>1, LogsInvariance, PTL

\* No mint and no deposit is paired twice, although audited_mints has no UNIQUE
\* column and both sides insert into it.
THEOREM MintPairsAreUnique == Spec => []AuditedMintsAreOneToOne
<1>1. LogInv(db) => AuditedMintsAreOneToOne
  BY DEF LogInv, MintLogInv, AuditedMintsAreOneToOne
<1> QED
  BY <1>1, LogsInvariance, PTL

\* Every row of audited_burns joins a stored burn with a stored withdrawal that
\* redeems it (try_match_burn_with_withdrawal, try_match_withdrawal_with_burn).
THEOREM BurnSoundness == Spec => []AuditedBurnsAreSound
<1>1. LogInv(db) => AuditedBurnsAreSound
  BY DEF LogInv, BurnLogInv, AuditedBurnsAreSound
<1> QED
  BY <1>1, LogsInvariance, PTL

\* No burn and no withdrawal is paired twice, even when several withdrawals
\* name the public key of one burn.
THEOREM BurnPairsAreUnique == Spec => []AuditedBurnsAreOneToOne
<1>1. LogInv(db) => AuditedBurnsAreOneToOne
  BY DEF LogInv, BurnLogInv, AuditedBurnsAreOneToOne
<1> QED
  BY <1>1, LogsInvariance, PTL

----------------------------------------------------------------------------
(* The steps of the auditor without its variables.  Inside an exclusive    *)
(* transaction a thread in state s sees a database d; each of its steps    *)
(* takes it to a state s2 and a database d2, and says which tables changed *)
(* and how.  StepCases reduces every step of the system to that: a thread  *)
(* begins, moves inside its transaction, or commits, and everything else   *)
(* leaves both databases alone or rolls one back.                          *)

----------------------------------------------------------------------------
(* What a write changes.                                                   *)

Fields == {"block_audit_data", "block_balance", "mint_config_txs", "mint_txs",
           "burn_tx_outs", "gnosis_safe_txs", "deposits", "withdrawals",
           "audited_mints", "audited_burns", "counters"}

AllBut(F) == Fields \ F

\* Counter c goes up by one and no other counter changes.
CountsOne(d, d2, c) ==
  \A k \in CounterNames :
    d2.counters[k] = IF k = c THEN d.counters[k] + 1 ELSE d.counters[k]

Counted(d, d2, c) == Keeps(d, d2, AllBut({"counters"})) /\ CountsOne(d, d2, c)

StoresConfig(d, d2, n, tx) ==
  /\ ~MintConfigTxExists(d, n, tx)
  /\ Keeps(d, d2, AllBut({"mint_config_txs"}))
  /\ \E c \in MintConfigTxRows :
       /\ c.block_index = n /\ c.token_id = tx.token_id /\ c.nonce = tx.nonce
       /\ d2.mint_config_txs = d.mint_config_txs \cup {c}

StoresMint(d, d2, n, tx) ==
  /\ ~MintTxExists(d, tx)
  /\ Keeps(d, d2, AllBut({"mint_txs", "counters"}))
  /\ \E m \in MintTxRows :
       /\ m.block_index = n /\ m.token_id = tx.token_id
       /\ m.amount = tx.amount /\ m.nonce = tx.nonce
       /\ m.mint_config_id = lookup_mint_config(d, n, tx)
       /\ d2.mint_txs = d.mint_txs \cup {m}
       /\ IF m.mint_config_id = {}
          THEN CountsOne(d, d2, "num_mint_txs_without_matching_mint_config")
          ELSE d2.counters = d.counters

StoresBurn(d, d2, n, o) ==
  /\ ~BurnTxOutExists(d, o)
  /\ Keeps(d, d2, AllBut({"burn_tx_outs", "counters"}))
  /\ burn_tx_out_row(n, o) \in BurnTxOutRows
  /\ d2.burn_tx_outs = d.burn_tx_outs \cup {burn_tx_out_row(n, o)}
  /\ d2.counters = d.counters \/ CountsOne(d, d2, "num_burns_exceeding_balance")

\* A burn above the balance is counted.
CountsOverdraft(d, d2, bal, o) ==
  IF o.amount > bal[o.token_id] THEN CountsOne(d, d2, "num_burns_exceeding_balance")
                                ELSE d2.counters = d.counters

RecordsBalances(d, d2, n, bal) ==
  d2.block_balance = d.block_balance \cup {[block_index |-> n, balances |-> bal]}

FinishesBlock(d, d2, n) ==
  /\ Keeps(d, d2, AllBut({"block_audit_data", "block_balance", "counters"}))
  /\ d2.block_audit_data = d.block_audit_data \cup {n}
  /\ \E bal \in BalanceMaps :
       d2.block_balance = d.block_balance \cup {[block_index |-> n, balances |-> bal]}
  /\ CountsOne(d, d2, "num_blocks_synced")

----------------------------------------------------------------------------
(* The writes of the main thread.                                          *)

\* Counters::inc changes the counters row only.
LEMMA IncCounts ==
  ASSUME NEW d \in Databases, NEW c \in CounterNames
  PROVE  Inc(d, c) \in Databases /\ Counted(d, Inc(d, c), c)
  BY IncFacts DEF Counted, CountsOne, Keeps, AllBut, Fields

\* insert_from_core_mint_config_tx adds one row to mint_config_txs.
LEMMA ConfigWrite ==
  ASSUME NEW d \in Databases, NEW n \in Nat, NEW tx \in CoreMintConfigTxs,
         ~MintConfigTxExists(d, n, tx),
         NEW d2, d2 = insert_from_core_mint_config_tx(d, n, tx)
  PROVE  StoresConfig(d, d2, n, tx)
<1> DEFINE row == [block_index |-> n, token_id |-> tx.token_id,
                   nonce |-> tx.nonce, total_mint_limit |-> tx.total_mint_limit,
                   configs |-> tx.configs]
           s == d.mint_config_txs \cup {row}
<1>1. row \in MintConfigTxRows
  BY DEF CoreMintConfigTxs, MintConfigTxRows
<1>2. d2 = [d EXCEPT !.mint_config_txs = s]
  BY DEF insert_from_core_mint_config_tx
<1>3. row.block_index = n /\ row.token_id = tx.token_id /\ row.nonce = tx.nonce
  OBVIOUS
<1>4. PICK v : v = s
  OBVIOUS
<1>5. d2 = [d EXCEPT !.mint_config_txs = v]
  BY <1>2, <1>4
<1> HIDE DEF row
<1>6. Keeps(d, d2, AllBut({"mint_config_txs"})) /\ d2.mint_config_txs = v
  BY ONLY <1>5, d \in Databases DEF Databases, Keeps, AllBut, Fields
<1> QED
  BY <1>1, <1>3, <1>4, <1>6 DEF StoresConfig

\* insert_from_core_mint_tx adds one row to mint_txs; a mint that no config
\* allows is counted.
LEMMA MintWrite ==
  ASSUME NEW d \in Databases, NEW n \in Nat, NEW tx \in CoreMintTxs,
         \A c, o \in d.mint_config_txs :
           c.block_index = o.block_index /\ c.token_id = o.token_id => c = o,
         ~MintTxExists(d, tx),
         NEW d2, d2 = store_mint_tx(d, n, tx)
  PROVE  StoresMint(d, d2, n, tx)
<1> DEFINE none == "num_mint_txs_without_matching_mint_config"
<1>1. PICK row \in MintTxRows : row = mint_tx_row(d, n, tx)
  BY LookupType DEF mint_tx_row, CoreMintTxs, MintTxRows
<1>2. /\ row.block_index = n /\ row.token_id = tx.token_id
      /\ row.amount = tx.amount /\ row.nonce = tx.nonce
      /\ row.mint_config_id = lookup_mint_config(d, n, tx)
  BY <1>1 DEF mint_tx_row
<1>3. PICK e : e = IF row.mint_config_id = {} THEN Inc(d, none) ELSE d
  OBVIOUS
<1>4. none \in CounterNames
  BY DEF CounterNames
<1>5. /\ e \in Databases /\ Keeps(d, e, AllBut({"counters"}))
      /\ IF row.mint_config_id = {} THEN CountsOne(d, e, none) ELSE e.counters = d.counters
  BY <1>3, <1>4, IncCounts DEF Counted, Keeps
<1>6. d2 = [e EXCEPT !.mint_txs = @ \cup {row}]
  BY <1>1, <1>3 DEF store_mint_tx
<1>7. PICK v : v = e.mint_txs \cup {row}
  OBVIOUS
<1>8. d2 = [e EXCEPT !.mint_txs = v]
  BY <1>6, <1>7
<1>9. Keeps(e, d2, AllBut({"mint_txs"})) /\ d2.mint_txs = v
  BY ONLY <1>5, <1>8 DEF Databases, Keeps, AllBut, Fields
<1>10. /\ d2.mint_txs = d.mint_txs \cup {row} /\ d2.counters = e.counters
       /\ Keeps(d, d2, AllBut({"mint_txs", "counters"}))
  BY <1>5, <1>7, <1>9 DEF Keeps, AllBut, Fields
<1> QED
  BY <1>2, <1>5, <1>10 DEF StoresMint, CountsOne

\* insert_from_core_burn_tx_out adds one row to burn_tx_outs.
LEMMA BurnWrite ==
  ASSUME NEW d \in Databases, NEW bal, NEW n \in Nat, NEW o \in TxOuts,
         ~BurnTxOutExists(d, o),
         NEW d2, d2 = store_burn_tx_out(d, bal, n, o)
  PROVE  StoresBurn(d, d2, n, o) /\ CountsOverdraft(d, d2, bal, o)
<1> DEFINE above == "num_burns_exceeding_balance"
<1>1. PICK row \in BurnTxOutRows : row = burn_tx_out_row(n, o)
  BY DEF burn_tx_out_row, TxOuts, BurnTxOutRows
<1>2. PICK e : e = IF o.amount > bal[o.token_id] THEN Inc(d, above) ELSE d
  OBVIOUS
<1>3. above \in CounterNames
  BY DEF CounterNames
<1>4. /\ e \in Databases /\ Keeps(d, e, AllBut({"counters"}))
      /\ IF o.amount > bal[o.token_id] THEN CountsOne(d, e, above) ELSE e.counters = d.counters
  BY <1>2, <1>3, IncCounts DEF Counted, Keeps
<1>5. d2 = [e EXCEPT !.burn_tx_outs = @ \cup {row}]
  BY <1>1, <1>2 DEF store_burn_tx_out
<1>6. PICK v : v = e.burn_tx_outs \cup {row}
  OBVIOUS
<1>7. d2 = [e EXCEPT !.burn_tx_outs = v]
  BY <1>5, <1>6
<1>8. Keeps(e, d2, AllBut({"burn_tx_outs"})) /\ d2.burn_tx_outs = v
  BY ONLY <1>4, <1>7 DEF Databases, Keeps, AllBut, Fields
<1>9. /\ d2.burn_tx_outs = d.burn_tx_outs \cup {row} /\ d2.counters = e.counters
      /\ Keeps(d, d2, AllBut({"burn_tx_outs", "counters"}))
  BY <1>4, <1>6, <1>8 DEF Keeps, AllBut, Fields
<1> QED
  BY <1>1, <1>4, <1>9 DEF StoresBurn, CountsOne, CountsOverdraft

\* The end of sync_block_with_conn records the block.
LEMMA FinishWrite ==
  ASSUME NEW d \in Databases, NEW n \in Nat, NEW bal \in BalanceMaps,
         NEW d2, d2 = finish_block(d, n, bal)
  PROVE  FinishesBlock(d, d2, n) /\ RecordsBalances(d, d2, n, bal)
<1>1. PICK e : e = Inc(d, "num_blocks_synced")
  OBVIOUS
<1>2. "num_blocks_synced" \in CounterNames
  BY DEF CounterNames
<1>3. e \in Databases /\ Counted(d, e, "num_blocks_synced")
  BY <1>1, <1>2, IncCounts
<1>4. PICK row : row = [block_index |-> n, balances |-> bal]
  OBVIOUS
<1>5. PICK u, v : u = e.block_audit_data \cup {n} /\ v = e.block_balance \cup {row}
  OBVIOUS
<1>6. d2 = [e EXCEPT !.block_audit_data = u, !.block_balance = v]
  BY <1>1, <1>4, <1>5 DEF finish_block
<1>7. /\ Keeps(e, d2, AllBut({"block_audit_data", "block_balance"}))
      /\ d2.block_audit_data = u /\ d2.block_balance = v
  BY ONLY <1>3, <1>6 DEF Databases, Keeps, AllBut, Fields
<1>8. /\ d2.block_audit_data = d.block_audit_data \cup {n}
      /\ d2.block_balance = d.block_balance \cup {row}
      /\ Keeps(d, d2, AllBut({"block_audit_data", "block_balance", "counters"}))
      /\ CountsOne(d, d2, "num_blocks_synced")
  BY <1>3, <1>5, <1>7 DEF Counted, CountsOne, Keeps, AllBut, Fields
<1> QED
  BY <1>4, <1>8 DEF FinishesBlock, RecordsBalances

----------------------------------------------------------------------------
(* Matching attempts.                                                      *)

\* The counters of failed attempts, on the two sides.
MintErrors == {"num_mismatching_mints_and_deposits", "num_unknown_ethereum_token_deposits",
               "num_mints_to_unknown_safe",
               "num_unexpected_errors_matching_deposits_to_mints",
               "num_unexpected_errors_matching_mints_to_deposits"}

BurnErrors == {"num_mismatching_burns_and_withdrawals",
               "num_unknown_ethereum_token_withdrawals", "num_burns_from_unknown_safe",
               "num_unexpected_errors_matching_withdrawals_to_burns",
               "num_unexpected_errors_matching_burns_to_withdrawals"}

\* An attempt leaves exactly one trace: one more error, or one more pair.
TriesMint(d, d2) ==
  \/ \E c \in MintErrors : Counted(d, d2, c)
  \/ /\ Keeps(d, d2, AllBut({"audited_mints"}))
     /\ \E row \in AuditedMintRows : d2.audited_mints = Append(d.audited_mints, row)

TriesBurn(d, d2) ==
  \/ \E c \in BurnErrors : Counted(d, d2, c)
  \/ /\ Keeps(d, d2, AllBut({"audited_burns"}))
     /\ \E row \in AuditedBurnRows : d2.audited_burns = Append(d.audited_burns, row)

\* Pairing appends one row to the log and changes nothing else.
LEMMA PairingWrites ==
  ASSUME NEW d \in Databases
  PROVE  /\ \A m, e, d2 : /\ m.nonce \in Nonces /\ e.eth_tx_hash \in EthTxHashes
                          /\ d2 = associate_deposit_with_mint(d, m, e)
                          => TriesMint(d, d2) /\ MintPaired(d2, m, e)
         /\ \A b, w, d2 : /\ b.public_key \in PublicKeys /\ w.eth_tx_hash \in EthTxHashes
                          /\ d2 = associate_withdrawal_with_burn(d, b, w)
                          => TriesBurn(d, d2) /\ BurnPaired(d2, b, w)
<1>1. ASSUME NEW m, NEW e, NEW d2, m.nonce \in Nonces, e.eth_tx_hash \in EthTxHashes,
             d2 = associate_deposit_with_mint(d, m, e)
      PROVE  TriesMint(d, d2) /\ MintPaired(d2, m, e)
  <2>1. PICK row : row = [mint |-> m.nonce, deposit |-> e.eth_tx_hash]
    OBVIOUS
  <2>2. row \in AuditedMintRows
    BY <1>1, <2>1 DEF AuditedMintRows
  <2>3. d.audited_mints \in Seq(AuditedMintRows)
    BY DEF Databases
  <2>4. PICK log : log = Append(d.audited_mints, row)
    OBVIOUS
  <2>5. d2 = [d EXCEPT !.audited_mints = log]
    BY <1>1, <2>1, <2>4 DEF associate_deposit_with_mint
  <2>6. Keeps(d, d2, AllBut({"audited_mints"})) /\ d2.audited_mints = log
    BY ONLY <2>5, d \in Databases DEF Databases, Keeps, AllBut, Fields
  <2>7. Len(log) \in DOMAIN log /\ log[Len(log)] = row
    BY <2>2, <2>3, <2>4
  <2> QED
    BY <2>1, <2>2, <2>4, <2>6, <2>7 DEF TriesMint, MintPaired
<1>2. ASSUME NEW b, NEW w, NEW d2, b.public_key \in PublicKeys, w.eth_tx_hash \in EthTxHashes,
             d2 = associate_withdrawal_with_burn(d, b, w)
      PROVE  TriesBurn(d, d2) /\ BurnPaired(d2, b, w)
  <2>1. PICK row : row = [burn |-> b.public_key, withdrawal |-> w.eth_tx_hash]
    OBVIOUS
  <2>2. row \in AuditedBurnRows
    BY <1>2, <2>1 DEF AuditedBurnRows
  <2>3. d.audited_burns \in Seq(AuditedBurnRows)
    BY DEF Databases
  <2>4. PICK log : log = Append(d.audited_burns, row)
    OBVIOUS
  <2>5. d2 = [d EXCEPT !.audited_burns = log]
    BY <1>2, <2>1, <2>4 DEF associate_withdrawal_with_burn
  <2>6. Keeps(d, d2, AllBut({"audited_burns"})) /\ d2.audited_burns = log
    BY ONLY <2>5, d \in Databases DEF Databases, Keeps, AllBut, Fields
  <2>7. Len(log) \in DOMAIN log /\ log[Len(log)] = row
    BY <2>2, <2>3, <2>4
  <2> QED
    BY <2>1, <2>2, <2>4, <2>6, <2>7 DEF TriesBurn, BurnPaired
<1> QED
  BY <1>1, <1>2

\* Every error has its counter, on its own side.
LEMMA ErrorSides ==
  ASSUME NEW res
  PROVE  /\ deposit_error_counter(res) \in MintErrors
         /\ mint_error_counter(res) \in MintErrors
         /\ withdrawal_error_counter(res) \in BurnErrors
         /\ burn_error_counter(res) \in BurnErrors
<1>1. deposit_error_counter(res) \in MintErrors
  BY DEF deposit_error_counter, MintErrors
<1>2. mint_error_counter(res) \in MintErrors
  BY DEF mint_error_counter, MintErrors
<1>3. withdrawal_error_counter(res) \in BurnErrors
  BY DEF withdrawal_error_counter, BurnErrors
<1>4. burn_error_counter(res) \in BurnErrors
  BY DEF burn_error_counter, BurnErrors
<1> QED
  BY <1>1, <1>2, <1>3, <1>4

\* A counted error is an attempt.
LEMMA ErrorTries ==
  ASSUME NEW d \in Databases
  PROVE  /\ \A c \in MintErrors : TriesMint(d, Inc(d, c))
         /\ \A c \in BurnErrors : TriesBurn(d, Inc(d, c))
<1>1. MintErrors \subseteq CounterNames /\ BurnErrors \subseteq CounterNames
  BY DEF MintErrors, BurnErrors, CounterNames
<1> QED
  BY <1>1, IncCounts DEF TriesMint, TriesBurn

\* What try_match_mint_with_deposit and try_match_deposit_with_mint leave is one
\* trace.
LEMMA MintTries ==
  ASSUME NEW d \in Databases, NEW d2
  PROVE  /\ \A tx \in CoreMintTxs : d2 \in try_match_mint_with_deposit(d, tx) => TriesMint(d, d2)
         /\ \A e \in DepositRows, k \in DOMAIN Config :
              d2 \in try_match_deposit_with_mint(d, e, Config[k]) => TriesMint(d, d2)
<1>1. ASSUME NEW tx \in CoreMintTxs, d2 \in try_match_mint_with_deposit(d, tx)
      PROVE  TriesMint(d, d2)
  <2>1. PICK r \in mint_match_results(d, tx) :
          d2 \in IF r.res = "Ok"
                 THEN {associate_deposit_with_mint(d, tx, e) : e \in r.deposit}
                 ELSE {Inc(d, mint_error_counter(r.res))}
    BY <1>1 DEF try_match_mint_with_deposit
  <2>2. r.deposit \subseteq d.deposits
    BY DEF mint_match_results, find_unaudited_deposit_by_nonce
  <2>3. tx.nonce \in Nonces /\ \A e \in r.deposit : e.eth_tx_hash \in EthTxHashes
    BY <2>2 DEF CoreMintTxs, Databases, DepositRows
  <2> QED
    BY <2>1, <2>3, PairingWrites, ErrorSides, ErrorTries
<1>2. ASSUME NEW e \in DepositRows, NEW k \in DOMAIN Config,
             d2 \in try_match_deposit_with_mint(d, e, Config[k])
      PROVE  TriesMint(d, d2)
  <2>1. PICK r \in deposit_match_results(d, e, Config[k]) :
          d2 \in IF r.res = "Ok"
                 THEN {associate_deposit_with_mint(d, m, e) : m \in r.mint}
                 ELSE {Inc(d, deposit_error_counter(r.res))}
    BY <1>2 DEF try_match_deposit_with_mint
  <2>2. r.mint \subseteq d.mint_txs
    BY DEF deposit_match_results, find_unaudited_mint_tx_by_nonce
  <2>3. e.eth_tx_hash \in EthTxHashes /\ \A m \in r.mint : m.nonce \in Nonces
    BY <2>2 DEF MintTxRows, Databases, DepositRows
  <2> QED
    BY <2>1, <2>3, PairingWrites, ErrorSides, ErrorTries
<1> QED
  BY <1>1, <1>2

\* What try_match_burn_with_withdrawal and try_match_withdrawal_with_burn leave
\* is one trace.
LEMMA BurnTries ==
  ASSUME NEW d \in Databases, NEW d2
  PROVE  /\ \A o \in TxOuts : d2 \in try_match_burn_with_withdrawal(d, o) => TriesBurn(d, d2)
         /\ \A w \in WithdrawalRows, k \in DOMAIN Config :
              d2 \in try_match_withdrawal_with_burn(d, w, Config[k]) => TriesBurn(d, d2)
<1>1. ASSUME NEW o \in TxOuts, d2 \in try_match_burn_with_withdrawal(d, o)
      PROVE  TriesBurn(d, d2)
  <2>1. PICK r \in burn_match_results(d, o) :
          d2 \in IF r.res = "Ok"
                 THEN {associate_withdrawal_with_burn(d, o, w) : w \in r.withdrawal}
                 ELSE {Inc(d, burn_error_counter(r.res))}
    BY <1>1 DEF try_match_burn_with_withdrawal
  <2>2. r.withdrawal \subseteq d.withdrawals
    BY DEF burn_match_results, find_unaudited_withdrawal_by_public_key
  <2>3. o.public_key \in PublicKeys /\ \A w \in r.withdrawal : w.eth_tx_hash \in EthTxHashes
    BY <2>2 DEF TxOuts, Databases, WithdrawalRows
  <2> QED
    BY <2>1, <2>3, PairingWrites, ErrorSides, ErrorTries
<1>2. ASSUME NEW w \in WithdrawalRows, NEW k \in DOMAIN Config,
             d2 \in try_match_withdrawal_with_burn(d, w, Config[k])
      PROVE  TriesBurn(d, d2)
  <2>1. PICK r \in withdrawal_match_results(d, w, Config[k]) :
          d2 \in IF r.res = "Ok"
                 THEN {associate_withdrawal_with_burn(d, b, w) : b \in r.burn}
                 ELSE {Inc(d, withdrawal_error_counter(r.res))}
    BY <1>2 DEF try_match_withdrawal_with_burn
  <2>2. r.burn \subseteq d.burn_tx_outs
    BY DEF withdrawal_match_results, find_unaudited_burn_tx_out_by_public_key
  <2>3. w.eth_tx_hash \in EthTxHashes /\ \A b \in r.burn : b.public_key \in PublicKeys
    BY <2>2 DEF BurnTxOutRows, Databases, WithdrawalRows
  <2> QED
    BY <2>1, <2>3, PairingWrites, ErrorSides, ErrorTries
<1> QED
  BY <1>1, <1>2

----------------------------------------------------------------------------
(* The moves of the main thread in state s over the block c.               *)

ScanGoes(s, s2, pc, pos) == s2.pc = pc /\ s2.pos = pos /\ s2.block_index = s.block_index

LoadsBalances(s, s2, d) ==
  s2.bal = IF s.block_index = 0 THEN ZeroBalances
           ELSE get_balances_for_block(d, s.block_index - 1)

CheckMove(s, s2, d, d2) ==
  /\ s.pc = "check_index" /\ s.block_index = d.counters["num_blocks_synced"]
  /\ d2 = d /\ ScanGoes(s, s2, "mint_config_txs", 1)

ConfigMove(s, s2, d, d2, c) ==
  /\ s.pc = "mint_config_txs" /\ s.pos \in DOMAIN c.mint_config_txs
  /\ StoresConfig(d, d2, s.block_index, c.mint_config_txs[s.pos])
  /\ ScanGoes(s, s2, s.pc, s.pos + 1)

ConfigsDone(s, s2, d, d2, c) ==
  /\ s.pc = "mint_config_txs" /\ \A i \in DOMAIN c.mint_config_txs : i < s.pos
  /\ d2 = d /\ ScanGoes(s, s2, "mint_txs", 1) /\ LoadsBalances(s, s2, d)

MintMove(s, s2, d, d2, c) ==
  /\ s.pc = "mint_txs" /\ s.pos \in DOMAIN c.mint_txs
  /\ StoresMint(d, d2, s.block_index, c.mint_txs[s.pos])
  /\ ScanGoes(s, s2, s.pc, s.pos + 1) /\ s2.bal = mint_balance(s.bal, c.mint_txs[s.pos])

MintsDone(s, s2, d, d2, c) ==
  /\ s.pc = "mint_txs" /\ \A i \in DOMAIN c.mint_txs : i < s.pos
  /\ d2 = d /\ ScanGoes(s, s2, "burns", 1) /\ s2.bal = s.bal

SkipMove(s, s2, d, d2, c) ==
  /\ s.pc \in {"burns", "audit_burns"} /\ s.pos \in DOMAIN c.outputs
  /\ ~c.outputs[s.pos].burn
  /\ d2 = d /\ ScanGoes(s, s2, s.pc, s.pos + 1) /\ s2.bal = s.bal

BurnMove(s, s2, d, d2, c) ==
  /\ s.pc = "burns" /\ s.pos \in DOMAIN c.outputs /\ c.outputs[s.pos].burn
  /\ StoresBurn(d, d2, s.block_index, c.outputs[s.pos])
  /\ CountsOverdraft(d, d2, s.bal, c.outputs[s.pos])
  /\ ScanGoes(s, s2, s.pc, s.pos + 1) /\ s2.bal = burn_balance(s.bal, c.outputs[s.pos])

FinishMove(s, s2, d, d2, c) ==
  /\ s.pc = "burns" /\ \A i \in DOMAIN c.outputs : i < s.pos
  /\ FinishesBlock(d, d2, s.block_index) /\ RecordsBalances(d, d2, s.block_index, s.bal)
  /\ ScanGoes(s, s2, IF AuditsGnosis THEN "audit_mints" ELSE "commit", 1)

AuditMintMove(s, s2, d, d2, c) ==
  /\ s.pc = "audit_mints" /\ s.pos \in DOMAIN c.mint_txs
  /\ MintStored(d, c.mint_txs[s.pos])
  /\ d2 \in try_match_mint_with_deposit(d, c.mint_txs[s.pos])
  /\ ScanGoes(s, s2, s.pc, s.pos + 1)

AuditMintsEnd(s, s2, d, d2, c) ==
  /\ s.pc = "audit_mints" /\ \A i \in DOMAIN c.mint_txs : i < s.pos
  /\ d2 = d /\ ScanGoes(s, s2, "audit_burns", 1)

AuditBurnMove(s, s2, d, d2, c) ==
  /\ s.pc = "audit_burns" /\ s.pos \in DOMAIN c.outputs /\ c.outputs[s.pos].burn
  /\ BurnStored(d, c.outputs[s.pos])
  /\ d2 \in try_match_burn_with_withdrawal(d, c.outputs[s.pos])
  /\ ScanGoes(s, s2, s.pc, s.pos + 1)

AuditBurnsEnd(s, s2, d, d2, c) ==
  /\ s.pc = "audit_burns" /\ \A i \in DOMAIN c.outputs : i < s.pos
  /\ d2 = d /\ ScanGoes(s, s2, "commit", 1)

ScanMove(s, s2, d, d2, c) ==
  \/ CheckMove(s, s2, d, d2)
  \/ ConfigMove(s, s2, d, d2, c) \/ ConfigsDone(s, s2, d, d2, c)
  \/ MintMove(s, s2, d, d2, c) \/ MintsDone(s, s2, d, d2, c)
  \/ SkipMove(s, s2, d, d2, c) \/ BurnMove(s, s2, d, d2, c) \/ FinishMove(s, s2, d, d2, c)
  \/ AuditMintMove(s, s2, d, d2, c) \/ AuditMintsEnd(s, s2, d, d2, c)
  \/ AuditBurnMove(s, s2, d, d2, c) \/ AuditBurnsEnd(s, s2, d, d2, c)

\* What assigning pc, pos and the balances does to the main threads.
LEMMA ScanUpdate ==
  ASSUME scan \in [Procs -> ScanStates], NEW p \in Procs, NEW pc, NEW pos, NEW bal,
         scan' = [scan EXCEPT ![p].pc = pc, ![p].pos = pos, ![p].bal = bal]
  PROVE  ScanGoes(scan[p], scan'[p], pc, pos) /\ scan'[p].bal = bal
<1>1. PICK x \in ScanStates : x = scan[p]
  OBVIOUS
<1> DEFINE y == [x EXCEPT !.pc = pc, !.pos = pos, !.bal = bal]
<1>2. y.pc = pc /\ y.pos = pos /\ y.block_index = x.block_index /\ y.bal = bal
  BY DEF ScanStates
<1>3. scan' = [scan EXCEPT ![p] = y]
  BY <1>1
<1> HIDE DEF y
<1> QED
  BY <1>1, <1>2, <1>3 DEF ScanGoes

\* The same, when pc stays.
LEMMA ScanAdvance ==
  ASSUME scan \in [Procs -> ScanStates], NEW p \in Procs, NEW bal,
         scan' = [scan EXCEPT ![p].pos = @ + 1, ![p].bal = bal]
  PROVE  ScanGoes(scan[p], scan'[p], scan[p].pc, scan[p].pos + 1) /\ scan'[p].bal = bal
<1>1. PICK x \in ScanStates : x = scan[p]
  OBVIOUS
<1> DEFINE y == [x EXCEPT !.pos = x.pos + 1, !.bal = bal]
<1>2. y.pc = x.pc /\ y.pos = x.pos + 1 /\ y.block_index = x.block_index /\ y.bal = bal
  BY DEF ScanStates
<1>3. scan' = [scan EXCEPT ![p] = y]
  BY <1>1
<1> HIDE DEF y
<1> QED
  BY <1>1, <1>2, <1>3 DEF ScanGoes

\* Positions and domains.
LEMMA PosInDomain ==
  ASSUME NEW S, NEW q \in Seq(S), NEW pos \in Nat \ {0}
  PROVE  /\ pos <= Len(q) <=> pos \in DOMAIN q
         /\ ~(pos <= Len(q)) <=> \A i \in DOMAIN q : i < pos
         /\ pos > Len(q) <=> \A i \in DOMAIN q : i < pos
         /\ \A i \in DOMAIN q : i \in Nat /\ q[i] \in S
<1>1. Len(q) \in Nat /\ DOMAIN q = 1 .. Len(q) /\ \A i \in 1 .. Len(q) : q[i] \in S
  OBVIOUS
<1>2. (\A i \in 1 .. Len(q) : i < pos) => pos > Len(q)
  BY <1>1
<1> QED
  BY <1>1, <1>2

\* The actions of the main thread inside a transaction are its moves.
LEMMA ScanActionMoves ==
  ASSUME IInv, NEW p \in Procs, scan[p].pc \in ScanInTx,
         ScanStep(p), ~CommitBlock(p), ~SyncBlockFails(p)
  PROVE  ScanMove(scan[p], scan'[p], wdb, wdb', Contents(p))
<1> DEFINE s == scan[p]
           txs == Contents(p).mint_txs
           outs == Contents(p).outputs
           cfgs == Contents(p).mint_config_txs
<1>1. /\ scan \in [Procs -> ScanStates] /\ wdb \in Databases
      /\ ScanInv(scan[p], wdb, ledger) /\ scan[p].pc \notin {"poll", "dead"}
  BY TypeFacts DEF IInv, ScanInTx
<1>2. /\ Contents(p) \in BlockContents /\ s.block_index \in Nat
      /\ s.pos \in Nat \ {0} /\ s.bal \in BalanceMaps
  BY <1>1, ContentsType
<1>3. /\ txs \in Seq(CoreMintTxs) /\ outs \in Seq(TxOuts) /\ cfgs \in Seq(CoreMintConfigTxs)
  BY <1>2 DEF BlockContents
<1>4. ~SyncLoop(p)
  BY DEF SyncLoop, ScanInTx
<1>5. \A pc \in ScanPcs : Goto(p, pc) => ScanGoes(s, scan'[p], pc, 1) /\ scan'[p].bal = s.bal
  BY <1>1, GotoFacts DEF ScanGoes
<1>6. NextItem(p) => ScanGoes(s, scan'[p], s.pc, s.pos + 1) /\ scan'[p].bal = s.bal
  BY <1>1, NextItemFacts DEF ScanGoes
<1>7. PICK n \in Nat, pos \in Nat \ {0}, bal \in BalanceMaps :
        n = s.block_index /\ pos = s.pos /\ bal = s.bal
  BY <1>2
<1> HIDE DEF s
<1>8. s.pos = scan[p].pos /\ s.pc = scan[p].pc /\ s.bal = scan[p].bal
      /\ s.block_index = scan[p].block_index
  BY DEF s
<1> USE DEF ScanPcs
<1>9. CASE CheckBlockIndex(p)
  BY <1>5, <1>8, <1>9 DEF CheckBlockIndex, IsNextBlock, Write, ScanMove, CheckMove, s
<1>10. CASE StoreMintConfigTx(p)
  <2>1. s.pos \in DOMAIN cfgs
    BY <1>3, <1>7, <1>8, <1>10, PosInDomain DEF StoreMintConfigTx
  <2>2. PICK tx \in CoreMintConfigTxs : tx = cfgs[s.pos]
    BY <1>3, <2>1
  <2>3. ~MintConfigTxExists(wdb, n, tx) /\ wdb' = insert_from_core_mint_config_tx(wdb, n, tx)
    BY <1>7, <1>8, <1>10, <2>2 DEF StoreMintConfigTx, Write
  <2>4. StoresConfig(wdb, wdb', n, tx)
    BY ONLY <1>1, <2>3, ConfigWrite
  <2>5. ConfigMove(s, scan'[p], wdb, wdb', Contents(p))
    BY <1>6, <1>7, <1>8, <1>10, <2>1, <2>2, <2>4 DEF StoreMintConfigTx, ConfigMove
  <2> QED
    BY <2>5 DEF ScanMove, s
<1>11. CASE LoadBalances(p)
  <2>1. \A i \in DOMAIN cfgs : i < s.pos
    BY <1>3, <1>7, <1>8, <1>11, PosInDomain DEF LoadBalances
  <2>2. ScanGoes(s, scan'[p], "mint_txs", 1) /\ LoadsBalances(s, scan'[p], wdb)
    <3>1. PICK b : b = IF scan[p].block_index = 0 THEN ZeroBalances
                       ELSE get_balances_for_block(wdb, scan[p].block_index - 1)
      OBVIOUS
    <3>2. scan' = [scan EXCEPT ![p].pc = "mint_txs", ![p].pos = 1, ![p].bal = b]
      BY <1>11, <3>1 DEF LoadBalances
    <3>3. ScanGoes(scan[p], scan'[p], "mint_txs", 1) /\ scan'[p].bal = b
      <4>1. PICK pc, one : pc = "mint_txs" /\ one = 1
        OBVIOUS
      <4>2. scan' = [scan EXCEPT ![p].pc = pc, ![p].pos = one, ![p].bal = b]
        BY <3>2, <4>1
      <4>3. ScanGoes(scan[p], scan'[p], pc, one) /\ scan'[p].bal = b
        BY <1>1, <4>2, ScanUpdate
      <4> QED
        BY <4>1, <4>3
    <3> QED
      BY <3>1, <3>3 DEF s, LoadsBalances
  <2>3. ConfigsDone(s, scan'[p], wdb, wdb', Contents(p))
    BY <1>8, <1>11, <2>1, <2>2 DEF LoadBalances, Write, ConfigsDone
  <2> QED
    BY <2>3 DEF ScanMove, s
<1>12. CASE StoreMintTx(p)
  <2>1. s.pos \in DOMAIN txs
    BY <1>3, <1>7, <1>8, <1>12, PosInDomain DEF StoreMintTx
  <2>2. PICK tx \in CoreMintTxs : tx = txs[s.pos]
    BY <1>3, <2>1
  <2>3. ~MintTxExists(wdb, tx) /\ wdb' = store_mint_tx(wdb, n, tx)
    BY <1>7, <1>8, <1>12, <2>2 DEF StoreMintTx, Write
  <2>4. \A c, o \in wdb.mint_config_txs :
          c.block_index = o.block_index /\ c.token_id = o.token_id => c = o
    BY DEF IInv, DbInv
  <2>5. StoresMint(wdb, wdb', n, tx)
    BY ONLY <1>1, <2>3, <2>4, MintWrite
  <2>6. ScanGoes(s, scan'[p], s.pc, s.pos + 1) /\ scan'[p].bal = mint_balance(s.bal, tx)
    <3>1. PICK b : b = mint_balance(scan[p].bal, tx)
      OBVIOUS
    <3>2. scan' = [scan EXCEPT ![p].pos = @ + 1, ![p].bal = b]
      BY <1>8, <1>12, <2>2, <3>1 DEF StoreMintTx
    <3>3. ScanGoes(scan[p], scan'[p], scan[p].pc, scan[p].pos + 1) /\ scan'[p].bal = b
      BY <1>1, <3>2, ScanAdvance
    <3> QED
      BY <3>1, <3>3 DEF s
  <2>7. MintMove(s, scan'[p], wdb, wdb', Contents(p))
    BY <1>7, <1>8, <1>12, <2>1, <2>2, <2>5, <2>6 DEF StoreMintTx, MintMove
  <2> QED
    BY <2>7 DEF ScanMove, s
<1>13. CASE MintTxsDone(p)
  <2>1. \A i \in DOMAIN txs : i < s.pos
    BY <1>3, <1>7, <1>8, <1>13, PosInDomain DEF MintTxsDone
  <2>2. MintsDone(s, scan'[p], wdb, wdb', Contents(p))
    BY <1>5, <1>8, <1>13, <2>1 DEF MintTxsDone, Write, MintsDone
  <2> QED
    BY <2>2 DEF ScanMove, s
<1>14. CASE SkipOutput(p)
  <2>1. s.pos \in DOMAIN outs
    BY <1>3, <1>7, <1>8, <1>14, PosInDomain DEF SkipOutput, AtOutput
  <2>2. SkipMove(s, scan'[p], wdb, wdb', Contents(p))
    BY <1>6, <1>8, <1>14, <2>1 DEF SkipOutput, Output, Write, SkipMove
  <2> QED
    BY <2>2 DEF ScanMove, s
<1>15. CASE StoreBurnTxOut(p)
  <2>1. s.pos \in DOMAIN outs
    BY <1>3, <1>7, <1>8, <1>15, PosInDomain DEF StoreBurnTxOut, AtOutput
  <2>2. PICK o \in TxOuts : o = outs[s.pos]
    BY <1>3, <2>1
  <2>3. ~BurnTxOutExists(wdb, o) /\ wdb' = store_burn_tx_out(wdb, bal, n, o) /\ o.burn
    BY <1>7, <1>8, <1>15, <2>2 DEF StoreBurnTxOut, Output, Write
  <2>4. StoresBurn(wdb, wdb', n, o) /\ CountsOverdraft(wdb, wdb', bal, o)
    BY ONLY <1>1, <2>3, BurnWrite
  <2>5. ScanGoes(s, scan'[p], s.pc, s.pos + 1) /\ scan'[p].bal = burn_balance(s.bal, o)
    <3>1. PICK b : b = burn_balance(scan[p].bal, o)
      OBVIOUS
    <3>2. scan' = [scan EXCEPT ![p].pos = @ + 1, ![p].bal = b]
      BY <1>8, <1>15, <2>2, <3>1 DEF StoreBurnTxOut, Output
    <3>3. ScanGoes(scan[p], scan'[p], scan[p].pc, scan[p].pos + 1) /\ scan'[p].bal = b
      BY <1>1, <3>2, ScanAdvance
    <3> QED
      BY <3>1, <3>3 DEF s
  <2>6. BurnMove(s, scan'[p], wdb, wdb', Contents(p))
    BY <1>7, <1>8, <1>15, <2>1, <2>2, <2>3, <2>4, <2>5 DEF StoreBurnTxOut, BurnMove
  <2> QED
    BY <2>6 DEF ScanMove, s
<1>16. CASE FinishBlock(p)
  <2>1. \A i \in DOMAIN outs : i < s.pos
    BY <1>3, <1>7, <1>8, <1>16, PosInDomain DEF FinishBlock, AtOutput
  <2>2. wdb' = finish_block(wdb, n, bal)
    BY <1>7, <1>8, <1>16 DEF FinishBlock, Write
  <2>3. FinishesBlock(wdb, wdb', n) /\ RecordsBalances(wdb, wdb', n, bal)
    BY ONLY <1>1, <2>2, FinishWrite
  <2>4. FinishMove(s, scan'[p], wdb, wdb', Contents(p))
    BY <1>5, <1>7, <1>8, <1>16, <2>1, <2>3 DEF FinishBlock, FinishMove
  <2> QED
    BY <2>4 DEF ScanMove, s
<1>17. CASE AuditMint(p)
  <2>1. s.pos \in DOMAIN txs
    BY <1>3, <1>7, <1>8, <1>17, PosInDomain DEF AuditMint
  <2>2. MintsStored(wdb, txs, Len(txs) + 1)
    BY <1>1, <1>17 DEF AuditMint, ScanInv, Contents
  <2>3. MintStored(wdb, txs[s.pos])
    BY <1>3, <2>1, <2>2 DEF MintsStored
  <2>4. AuditMintMove(s, scan'[p], wdb, wdb', Contents(p))
    BY <1>6, <1>8, <1>17, <2>1, <2>3 DEF AuditMint, Write, AuditMintMove
  <2> QED
    BY <2>4 DEF ScanMove, s
<1>18. CASE AuditMintsDone(p)
  <2>1. \A i \in DOMAIN txs : i < s.pos
    BY <1>3, <1>7, <1>8, <1>18, PosInDomain DEF AuditMintsDone
  <2>2. AuditMintsEnd(s, scan'[p], wdb, wdb', Contents(p))
    BY <1>5, <1>8, <1>18, <2>1 DEF AuditMintsDone, Write, AuditMintsEnd
  <2> QED
    BY <2>2 DEF ScanMove, s
<1>19. CASE AuditBurn(p)
  <2>1. s.pos \in DOMAIN outs
    BY <1>3, <1>7, <1>8, <1>19, PosInDomain DEF AuditBurn, AtOutput
  <2>2. BurnsStored(wdb, outs, Len(outs) + 1)
    BY <1>1, <1>19 DEF AuditBurn, ScanInv, Contents
  <2>3. outs[s.pos].burn /\ BurnStored(wdb, outs[s.pos])
    BY <1>3, <1>8, <1>19, <2>1, <2>2 DEF BurnsStored, AuditBurn, Output
  <2>4. AuditBurnMove(s, scan'[p], wdb, wdb', Contents(p))
    BY <1>6, <1>8, <1>19, <2>1, <2>3 DEF AuditBurn, Output, Write, AuditBurnMove
  <2> QED
    BY <2>4 DEF ScanMove, s
<1>20. CASE AuditBurnsDone(p)
  <2>1. \A i \in DOMAIN outs : i < s.pos
    BY <1>3, <1>7, <1>8, <1>20, PosInDomain DEF AuditBurnsDone, AtOutput
  <2>2. AuditBurnsEnd(s, scan'[p], wdb, wdb', Contents(p))
    BY <1>5, <1>8, <1>20, <2>1 DEF AuditBurnsDone, Write, AuditBurnsEnd
  <2> QED
    BY <2>2 DEF ScanMove, s
<1> QED
  BY <1>4, <1>9, <1>10, <1>11, <1>12, <1>13, <1>14, <1>15, <1>16, <1>17, <1>18, <1>19, <1>20
     DEF ScanStep

----------------------------------------------------------------------------
(* The moves of the thread of the safe cfg in state s, over the Ethereum   *)
(* transaction x.                                                          *)

WorkGoes(s, s2, pc, pos) == s2.pc = pc /\ s2.pos = pos /\ s2.todo = s.todo

AtTransferOf(s, x) == s.pc = "transfers" /\ s.pos \in DOMAIN x.transfers

SkipTxMove(s, s2, d, d2, x) ==
  /\ s.pc = "insert" /\ x.tx_hash \in d.gnosis_safe_txs
  /\ d2 = d /\ WorkGoes(s, s2, "commit", 1)

InsertMove(s, s2, d, d2, x) ==
  /\ s.pc = "insert" /\ x.tx_hash \notin d.gnosis_safe_txs
  /\ Keeps(d, d2, AllBut({"gnosis_safe_txs"}))
  /\ d2.gnosis_safe_txs = d.gnosis_safe_txs \cup {x.tx_hash}
  /\ \/ x.kind = "ethereum" /\ WorkGoes(s, s2, "transfers", 1)
     \/ x.kind = "multi_sig" /\ WorkGoes(s, s2, "multi_sig", 1)
     \/ x.kind = "module" /\ WorkGoes(s, s2, "commit", 1)

ForeignTransferMove(s, s2, d, d2, x, cfg) ==
  /\ AtTransferOf(s, x) /\ x.transfers[s.pos].to # cfg.safe_addr
  /\ d2 = d /\ WorkGoes(s, s2, s.pc, s.pos + 1)

UnknownTokenMove(s, s2, d, d2, x, cfg) ==
  /\ AtTransferOf(s, x) /\ x.transfers[s.pos].to = cfg.safe_addr
  /\ x.transfers[s.pos].token_addr # {} /\ TokensOf(cfg, x.transfers[s.pos]) = {}
  /\ Counted(d, d2, "num_invalid_ethereum_transactions")
  /\ WorkGoes(s, s2, "commit", 1)

\* e is stored, which leaves d1, and then matched.
StoresDeposit(d, d2, e, cfg) ==
  /\ ~DepositExists(d, e.eth_tx_hash)
  /\ \E d1 \in Databases :
       /\ Keeps(d, d1, AllBut({"deposits"})) /\ d1.deposits = d.deposits \cup {e}
       /\ d2 \in try_match_deposit_with_mint(d1, e, cfg)

DepositMove(s, s2, d, d2, x, cfg) ==
  /\ AtTransferOf(s, x) /\ x.transfers[s.pos].to = cfg.safe_addr
  /\ \E e \in DepositRows :
       /\ TransferRows(x, x.transfers[s.pos], cfg) = {e}
       /\ e.eth_tx_hash = x.tx_hash /\ e.safe_addr = cfg.safe_addr
       /\ StoresDeposit(d, d2, e, cfg)
  /\ WorkGoes(s, s2, s.pc, s.pos + 1)

TransfersEnd(s, s2, d, d2, x) ==
  /\ s.pc = "transfers" /\ \A i \in DOMAIN x.transfers : i < s.pos
  /\ d2 = d /\ WorkGoes(s, s2, "commit", 1)

NoWithdrawalMove(s, s2, d, d2, x, cfg) ==
  /\ s.pc = "multi_sig" /\ WithdrawalsOf(x, cfg) = {}
  /\ d2 = d \/ Counted(d, d2, "num_invalid_multi_sig_transactions")
  /\ WorkGoes(s, s2, "commit", 1)

StoresWithdrawal(d, d2, w, cfg) ==
  /\ ~WithdrawalExists(d, w.eth_tx_hash)
  /\ \E d1 \in Databases :
       /\ Keeps(d, d1, AllBut({"withdrawals"})) /\ d1.withdrawals = d.withdrawals \cup {w}
       /\ d2 \in try_match_withdrawal_with_burn(d1, w, cfg)

WithdrawalMove(s, s2, d, d2, x, cfg) ==
  /\ s.pc = "multi_sig"
  /\ \E w \in WithdrawalRows :
       /\ WithdrawalsOf(x, cfg) = {w}
       /\ w.eth_tx_hash = x.tx_hash /\ w.safe_addr = cfg.safe_addr
       /\ StoresWithdrawal(d, d2, w, cfg)
  /\ WorkGoes(s, s2, "commit", 1)

WorkMove(s, s2, d, d2, x, cfg) ==
  \/ SkipTxMove(s, s2, d, d2, x) \/ InsertMove(s, s2, d, d2, x)
  \/ ForeignTransferMove(s, s2, d, d2, x, cfg) \/ UnknownTokenMove(s, s2, d, d2, x, cfg)
  \/ DepositMove(s, s2, d, d2, x, cfg) \/ TransfersEnd(s, s2, d, d2, x)
  \/ NoWithdrawalMove(s, s2, d, d2, x, cfg) \/ WithdrawalMove(s, s2, d, d2, x, cfg)

\* A contract address has at most one token in a safe's configuration
\* (Iterator::find).
LEMMA OneTokenPerContract ==
  ASSUME NEW cfg \in AuditedSafeConfigs, NEW a
  PROVE  \A t, u \in get_token_by_eth_contract_addr(cfg, a) : t = u
<1>1. cfg.tokens \in Seq(AuditedTokens)
  BY DEF AuditedSafeConfigs
<1>2. DOMAIN cfg.tokens \subseteq Int
  BY <1>1
<1>3. PICK S : S = {j \in DOMAIN cfg.tokens : a \in cfg.tokens[j].eth_token_contract_addrs}
  OBVIOUS
<1>4. \A i, j \in FirstOf(S) : i = j
  BY <1>2, <1>3, FirstOfUnique
<1> QED
  BY <1>3, <1>4 DEF get_token_by_eth_contract_addr

\* truncate_value of a value that is there is its truncation.
LEMMA TruncateValue ==
  ASSUME NEW value \in Option(Nat), NEW v \in value, NEW token, NEW cfg
  PROVE  truncate_value(value, token, cfg)
           = truncated(v, token.decimals, cfg.token_decimals_max)
<1>1. value = {v}
  BY DEF Option
<1>2. PICK u : u = truncated(v, token.decimals, cfg.token_decimals_max)
  OBVIOUS
<1>3. {truncated(y, token.decimals, cfg.token_decimals_max) : y \in value} = {u}
  BY <1>1, <1>2
<1>4. (CHOOSE y \in {u} : TRUE) = u
  OBVIOUS
<1> QED
  BY <1>2, <1>3, <1>4 DEF truncate_value

\* The row StoreDeposit inserts is the one the transfer implies.
LEMMA NewDepositRow ==
  ASSUME IInv, NEW t \in Workers, AtTransfer(t), IsDeposit(t), NEW token \in TransferToken(t),
         ~ValuePanics(Transfer(t).value, token, audited_safe(t))
  PROVE  /\ TransferRows(Tx(t), Transfer(t), audited_safe(t)) = {new_deposit(t, token)}
         /\ new_deposit(t, token).eth_tx_hash = Tx(t).tx_hash
         /\ new_deposit(t, token).safe_addr = audited_safe(t).safe_addr
<1> DEFINE f == Transfer(t)
           cfg == audited_safe(t)
<1>1. Tx(t) \in EthereumTransactions /\ work[t].pos \in Nat \ {0}
  BY TxType, TypeFacts DEF AtTransfer, WorkInTx, WorkStates
<1>2. Tx(t).transfers \in Seq(EthereumTransfers)
  BY <1>1 DEF EthereumTransactions
<1>3. work[t].pos \in DOMAIN Tx(t).transfers
  BY <1>1, <1>2, PosInDomain DEF AtTransfer
<1>4. f \in EthereumTransfers
  BY <1>2, <1>3 DEF Transfer
<1>5. f.token_addr \in Option(EthAddrs) /\ f.value \in Option(Nat)
  BY <1>4 DEF EthereumTransfers
<1>6. PICK a \in f.token_addr : token \in get_token_by_eth_contract_addr(cfg, a)
  BY DEF TransferToken
<1>7. f.token_addr = {a}
  BY <1>5, <1>6 DEF Option
<1>8. PICK v \in f.value : TRUE
  BY DEF ValuePanics
<1>9. f.value = {v}
  BY <1>5, <1>8 DEF Option
<1>10. cfg \in AuditedSafeConfigs
  BY SafeOfThread, ConfigEntries
<1>11. \A u \in get_token_by_eth_contract_addr(cfg, a) : u = token
  BY <1>6, <1>10, OneTokenPerContract
<1>12. TokensOf(cfg, f) = get_token_by_eth_contract_addr(cfg, a)
  BY <1>7 DEF TokensOf
<1>13. TokensOf(cfg, f) = {token}
  BY <1>6, <1>11, <1>12
<1>14. PICK u : u = truncated(v, token.decimals, cfg.token_decimals_max)
  OBVIOUS
<1>15. truncate_value(f.value, token, cfg) = u
  BY <1>5, <1>8, <1>14, TruncateValue
<1>16. (CHOOSE y \in f.token_addr : TRUE) = a
  BY <1>7
<1>17. f.to = cfg.safe_addr /\ f.tx_hash = Tx(t).tx_hash
  BY <1>1, <1>3 DEF IsDeposit, Transfer, EthereumTransactions
<1>18. new_deposit(t, token) = [eth_tx_hash |-> Tx(t).tx_hash, safe_addr |-> cfg.safe_addr,
                               token_addr |-> a, amount |-> u]
  BY <1>15, <1>16, <1>17 DEF new_deposit
<1> HIDE DEF f, cfg
<1>19. TransferRows(Tx(t), f, cfg)
         = {[eth_tx_hash |-> Tx(t).tx_hash, safe_addr |-> cfg.safe_addr,
             token_addr |-> a, amount |-> u]}
  BY <1>7, <1>9, <1>13, <1>14 DEF TransferRows
<1> QED
  BY <1>18, <1>19 DEF f, cfg

\* The row StoreWithdrawal inserts is the one the transaction implies.
LEMMA NewWithdrawalRow ==
  ASSUME IInv, NEW t \in Workers, AtMultiSig(t), IsWithdrawal(t),
         HeaderParses(t), Tx(t).aux_ok, NEW token \in WithdrawalToken(t),
         ~ValuePanics(Tx(t).amount, token, audited_safe(t))
  PROVE  /\ WithdrawalsOf(Tx(t), audited_safe(t)) = {new_withdrawal(t, token)}
         /\ new_withdrawal(t, token).eth_tx_hash = Tx(t).tx_hash
         /\ new_withdrawal(t, token).safe_addr = audited_safe(t).safe_addr
<1> DEFINE cfg == audited_safe(t)
<1>1. Tx(t) \in MultiSigTransactions
  BY TxType DEF AtMultiSig, WorkInTx
<1>2. PICK x \in MultiSigTransactions : x = Tx(t)
  BY <1>1
<1>3. x.amount \in Option(Nat)
  BY DEF MultiSigTransactions
<1>4. PICK v \in x.amount : TRUE
  BY <1>2 DEF ValuePanics
<1>5. x.amount = {v}
  BY <1>3, <1>4 DEF Option
<1>6. cfg \in AuditedSafeConfigs
  BY SafeOfThread, ConfigEntries
<1>7. get_token_by_eth_contract_addr(cfg, x.to) = {token}
  BY <1>2, <1>6, OneTokenPerContract DEF WithdrawalToken
<1>8. PICK u : u = truncated(v, token.decimals, cfg.token_decimals_max)
  OBVIOUS
<1>9. truncate_value(x.amount, token, cfg) = u
  BY <1>3, <1>4, <1>8, TruncateValue
<1>10. x.safe = cfg.safe_addr /\ x.multi_send /\ x.transfer_ok /\ x.aux_ok
  BY <1>2 DEF IsWithdrawal, HeaderParses
<1>11. new_withdrawal(t, token)
         = [eth_tx_hash |-> x.tx_hash, safe_addr |-> cfg.safe_addr, token_addr |-> x.to,
            amount |-> u, public_key |-> x.public_key]
  BY <1>2, <1>9, <1>10 DEF new_withdrawal
<1> HIDE DEF cfg
<1>12. {k \in get_token_by_eth_contract_addr(cfg, x.to) :
          x.safe = cfg.safe_addr /\ x.multi_send /\ x.transfer_ok /\ x.aux_ok} = {token}
  BY <1>7, <1>10
<1>13. WithdrawalsOf(x, cfg)
         = {[eth_tx_hash |-> x.tx_hash, safe_addr |-> cfg.safe_addr, token_addr |-> x.to,
             amount |-> u, public_key |-> x.public_key]}
  BY <1>5, <1>8, <1>12 DEF WithdrawalsOf
<1> QED
  BY <1>2, <1>11, <1>13 DEF cfg

\* The actions of a safe thread inside a transaction are its moves.
LEMMA WorkActionMoves ==
  ASSUME IInv, NEW t \in Workers, work[t].pc \in WorkInTx, WorkStep(t), ~CommitTx(t),
         ~DecodeFails(t), ~DepositFails(t), ~MultiSigFails(t)
  PROVE  WorkMove(work[t], work'[t], wdb, wdb', Tx(t), audited_safe(t))
<1>1. work \in [Workers -> WorkStates] /\ wdb \in Databases
  BY TypeFacts
<1>2. PICK s : s = work[t]
  OBVIOUS
<1>3. /\ s.pos = work[t].pos /\ s.pc = work[t].pc /\ s.todo = work[t].todo
      /\ s.pos \in Nat \ {0}
  BY <1>1, <1>2 DEF WorkStates
<1>4. PICK x : x = Tx(t)
  OBVIOUS
<1>5. PICK k \in DOMAIN Config : audited_safe(t) = Config[k]
  BY SafeOfThread
<1>6. PICK cfg : cfg = audited_safe(t)
  OBVIOUS
<1>7. \A pc \in WorkPcs : WorkGoto(t, pc) => WorkGoes(s, work'[t], pc, 1)
  BY <1>1, <1>3, WorkGotoFacts DEF WorkGoes
<1>8. work' = [work EXCEPT ![t].pos = @ + 1] => WorkGoes(s, work'[t], s.pc, s.pos + 1)
  BY <1>1, <1>3, NextTransferFacts DEF WorkGoes
<1>9. ~Poll(t) /\ ~PollDone(t)
  BY DEF Poll, PollDone, WorkInTx
<1>10. s.pc = "transfers" => x.transfers \in Seq(EthereumTransfers)
  BY <1>3, <1>4, TxType DEF EthereumTransactions
<1>11. AtTransfer(t) => AtTransferOf(s, x) /\ Transfer(t) = x.transfers[s.pos]
  BY <1>3, <1>4, <1>10, PosInDomain DEF AtTransfer, AtTransferOf, Transfer
<1>12. TransferToken(t) = TokensOf(cfg, Transfer(t))
  BY <1>6 DEF TransferToken, TokensOf
<1> SUFFICES WorkMove(s, work'[t], wdb, wdb', x, cfg)
  BY <1>2, <1>4, <1>6
<1> USE DEF WorkPcs
<1>13. CASE SkipTx(t)
  <2>1. SkipTxMove(s, work'[t], wdb, wdb', x)
    BY <1>3, <1>4, <1>7, <1>13 DEF SkipTx, GnosisSafeTxExists, Write, SkipTxMove
  <2> QED
    BY <2>1 DEF WorkMove
<1>14. CASE InsertTx(t)
  <2>1. PICK h : h = x.tx_hash
    OBVIOUS
  <2>2. PICK v : v = wdb.gnosis_safe_txs \cup {h}
    OBVIOUS
  <2>3. wdb' = [wdb EXCEPT !.gnosis_safe_txs = v]
    BY <1>4, <1>14, <2>1, <2>2 DEF InsertTx, Write
  <2>4. Keeps(wdb, wdb', AllBut({"gnosis_safe_txs"})) /\ wdb'.gnosis_safe_txs = v
    BY ONLY <1>1, <2>3 DEF Databases, Keeps, AllBut, Fields
  <2>5. x.kind \in {"ethereum", "multi_sig", "module"}
    BY <1>4, <1>14, TxType
       DEF InsertTx, RawGnosisTransactions, EthereumTransactions, MultiSigTransactions,
           OtherTransactions
  <2>6. \/ x.kind = "ethereum" /\ WorkGoto(t, "transfers")
        \/ x.kind = "multi_sig" /\ WorkGoto(t, "multi_sig")
        \/ x.kind = "module" /\ WorkGoto(t, "commit")
    BY <1>4, <1>14, <2>5 DEF InsertTx
  <2>7. InsertMove(s, work'[t], wdb, wdb', x)
    BY <1>3, <1>4, <1>7, <1>14, <2>1, <2>2, <2>4, <2>6
       DEF InsertTx, GnosisSafeTxExists, InsertMove
  <2> QED
    BY <2>7 DEF WorkMove
<1>15. CASE UnknownTransfer(t)
  <2>1. ForeignTransferMove(s, work'[t], wdb, wdb', x, cfg)
    BY <1>6, <1>8, <1>11, <1>15 DEF UnknownTransfer, IsDeposit, Write, ForeignTransferMove
  <2> QED
    BY <2>1 DEF WorkMove
<1>16. CASE UnknownTokenTransfer(t)
  <2>1. Counted(wdb, wdb', "num_invalid_ethereum_transactions")
    BY <1>1, <1>16, IncCounts DEF UnknownTokenTransfer, Write, CounterNames
  <2>2. UnknownTokenMove(s, work'[t], wdb, wdb', x, cfg)
    BY <1>6, <1>7, <1>11, <1>12, <1>16, <2>1
       DEF UnknownTokenTransfer, IsDeposit, UnknownTokenMove
  <2> QED
    BY <2>2 DEF WorkMove
<1>17. CASE StoreDeposit(t)
  <2>1. PICK token \in TransferToken(t) :
          /\ ~ValuePanics(Transfer(t).value, token, audited_safe(t))
          /\ ~DepositRefused(wdb, new_deposit(t, token).eth_tx_hash)
          /\ Write(t, try_match_deposit_with_mint(
                        [wdb EXCEPT !.deposits = @ \cup {new_deposit(t, token)}],
                        new_deposit(t, token), audited_safe(t)))
    BY <1>17 DEF StoreDeposit
  <2>2. PICK e \in DepositRows : e = new_deposit(t, token)
    BY <1>17, <2>1, NewDepositType DEF StoreDeposit
  <2>3. /\ TransferRows(x, x.transfers[s.pos], cfg) = {e}
        /\ e.eth_tx_hash = x.tx_hash /\ e.safe_addr = cfg.safe_addr
    BY <1>4, <1>6, <1>11, <1>17, <2>1, <2>2, NewDepositRow DEF StoreDeposit
  <2>4. PICK v : v = wdb.deposits \cup {e}
    OBVIOUS
  <2>5. PICK d1 : d1 = [wdb EXCEPT !.deposits = v]
    OBVIOUS
  <2>6. Keeps(wdb, d1, AllBut({"deposits"})) /\ d1.deposits = v
    BY ONLY <1>1, <2>5 DEF Databases, Keeps, AllBut, Fields
  <2>7. d1 \in Databases
    BY <1>1, <2>4, <2>5, SafeInserts
  <2>8. wdb' \in try_match_deposit_with_mint(d1, e, cfg)
    BY <1>6, <2>1, <2>2, <2>4, <2>5 DEF Write
  <2>9. StoresDeposit(wdb, wdb', e, cfg)
    BY <2>1, <2>2, <2>4, <2>6, <2>7, <2>8 DEF StoresDeposit, DepositRefused
  <2>10. DepositMove(s, work'[t], wdb, wdb', x, cfg)
    BY <1>6, <1>8, <1>11, <1>17, <2>3, <2>9 DEF StoreDeposit, IsDeposit, DepositMove
  <2> QED
    BY <2>10 DEF WorkMove
<1>18. CASE TransfersDone(t)
  <2>1. \A i \in DOMAIN x.transfers : i < s.pos
    BY <1>3, <1>4, <1>10, <1>18, PosInDomain DEF TransfersDone
  <2>2. TransfersEnd(s, work'[t], wdb, wdb', x)
    BY <1>3, <1>7, <1>18, <2>1 DEF TransfersDone, Write, TransfersEnd
  <2> QED
    BY <2>2 DEF WorkMove
<1>19. CASE OtherSafeMultiSig(t)
  <2>1. x.safe # cfg.safe_addr
    BY <1>4, <1>6, <1>19 DEF OtherSafeMultiSig, IsWithdrawal
  <2>2. WithdrawalsOf(x, cfg) = {}
    BY <2>1 DEF WithdrawalsOf
  <2>3. NoWithdrawalMove(s, work'[t], wdb, wdb', x, cfg)
    BY <1>3, <1>7, <1>19, <2>2 DEF OtherSafeMultiSig, AtMultiSig, Write, NoWithdrawalMove
  <2> QED
    BY <2>3 DEF WorkMove
<1>20. CASE InvalidMultiSig(t)
  <2>1. ~(x.multi_send /\ get_token_by_eth_contract_addr(cfg, x.to) # {} /\ x.transfer_ok)
        \/ ~x.aux_ok
    BY <1>4, <1>6, <1>20 DEF InvalidMultiSig, HeaderParses, WithdrawalToken
  <2>2. WithdrawalsOf(x, cfg) = {}
    BY <2>1 DEF WithdrawalsOf
  <2>3. Counted(wdb, wdb', "num_invalid_multi_sig_transactions")
    BY <1>1, <1>20, IncCounts DEF InvalidMultiSig, Write, CounterNames
  <2>4. NoWithdrawalMove(s, work'[t], wdb, wdb', x, cfg)
    BY <1>3, <1>7, <1>20, <2>2, <2>3 DEF InvalidMultiSig, AtMultiSig, NoWithdrawalMove
  <2> QED
    BY <2>4 DEF WorkMove
<1>21. CASE StoreWithdrawal(t)
  <2>1. PICK token \in WithdrawalToken(t) :
          /\ ~ValuePanics(Tx(t).amount, token, audited_safe(t))
          /\ ~WithdrawalExists(wdb, new_withdrawal(t, token).eth_tx_hash)
          /\ Write(t, try_match_withdrawal_with_burn(
                        [wdb EXCEPT !.withdrawals = @ \cup {new_withdrawal(t, token)}],
                        new_withdrawal(t, token), audited_safe(t)))
    BY <1>21 DEF StoreWithdrawal
  <2>2. PICK w \in WithdrawalRows : w = new_withdrawal(t, token)
    BY <1>21, <2>1, NewWithdrawalType DEF StoreWithdrawal
  <2>3. /\ WithdrawalsOf(x, cfg) = {w}
        /\ w.eth_tx_hash = x.tx_hash /\ w.safe_addr = cfg.safe_addr
    BY <1>4, <1>6, <1>21, <2>1, <2>2, NewWithdrawalRow DEF StoreWithdrawal
  <2>4. PICK v : v = wdb.withdrawals \cup {w}
    OBVIOUS
  <2>5. PICK d1 : d1 = [wdb EXCEPT !.withdrawals = v]
    OBVIOUS
  <2>6. Keeps(wdb, d1, AllBut({"withdrawals"})) /\ d1.withdrawals = v
    BY ONLY <1>1, <2>5 DEF Databases, Keeps, AllBut, Fields
  <2>7. d1 \in Databases
    BY <1>1, <2>4, <2>5, SafeInserts
  <2>8. wdb' \in try_match_withdrawal_with_burn(d1, w, cfg)
    BY <1>6, <2>1, <2>2, <2>4, <2>5 DEF Write
  <2>9. StoresWithdrawal(wdb, wdb', w, cfg)
    BY <2>1, <2>2, <2>4, <2>6, <2>7, <2>8 DEF StoresWithdrawal
  <2>10. WithdrawalMove(s, work'[t], wdb, wdb', x, cfg)
    BY <1>3, <1>7, <1>21, <2>3, <2>9 DEF StoreWithdrawal, AtMultiSig, WithdrawalMove
  <2> QED
    BY <2>10 DEF WorkMove
<1> QED
  BY <1>9, <1>13, <1>14, <1>15, <1>16, <1>17, <1>18, <1>19, <1>20, <1>21 DEF WorkStep

----------------------------------------------------------------------------
(* Every step of the system.                                               *)

\* Whoever is inside a transaction after the step was there before it, over the
\* same database.
Idles ==
  /\ db' = db /\ wdb' \in {db, wdb}
  /\ \A p \in Procs : scan'[p].pc \in ScanInTx =>
       scan'[p] = scan[p] /\ wdb' = wdb /\ Contents(p)' = Contents(p)
  /\ \A t \in Workers : work'[t].pc \in WorkInTx => work'[t] = work[t] /\ wdb' = wdb

\* A thread takes the lock; its transaction starts from the committed database.
Begins ==
  /\ db' = db /\ wdb' = db
  /\ \A p \in Procs : scan'[p].pc \in ScanInTx => scan'[p].pc = "check_index"
  /\ \A t \in Workers : work'[t].pc \in WorkInTx => work'[t].pc = "insert"

ScanProceeds(p) ==
  /\ db' = db /\ scan[p].pc \in ScanInTx
  /\ ScanMove(scan[p], scan'[p], wdb, wdb', Contents(p)) /\ Contents(p)' = Contents(p)
  /\ \A q \in Procs : scan'[q].pc \in ScanInTx => q = p
  /\ \A t \in Workers : work'[t].pc \notin WorkInTx

WorkProceeds(t) ==
  /\ db' = db /\ work[t].pc \in WorkInTx
  /\ WorkMove(work[t], work'[t], wdb, wdb', Tx(t), audited_safe(t))
  /\ Tx(t)' = Tx(t)
  /\ \A p \in Procs : scan'[p].pc \notin ScanInTx
  /\ \A u \in Workers : work'[u].pc \in WorkInTx => u = t

Commits ==
  /\ db' = wdb /\ wdb' = wdb
  /\ \/ \E p \in Procs : scan[p].pc = "commit"
     \/ \E t \in Workers : work[t].pc = "commit"
  /\ \A p \in Procs : scan'[p].pc \notin ScanInTx
  /\ \A t \in Workers : work'[t].pc \notin WorkInTx

\* Who is inside a transaction after a step, from who holds the lock.
LEMMA WhoIsInside ==
  ASSUME IInv'
  PROVE  /\ holder' = {} => /\ \A q \in Procs : scan'[q].pc \notin ScanInTx
                            /\ \A t \in Workers : work'[t].pc \notin WorkInTx
         /\ \A p \in Procs : holder' = {ScanThread(p)} =>
              /\ \A q \in Procs : scan'[q].pc \in ScanInTx => q = p
              /\ \A t \in Workers : work'[t].pc \notin WorkInTx
         /\ \A t \in Workers : holder' = {t} =>
              /\ \A q \in Procs : scan'[q].pc \notin ScanInTx
              /\ \A u \in Workers : work'[u].pc \in WorkInTx => u = t
<1>1. /\ \A p \in Procs : scan'[p].pc \in ScanInTx => holder' = {ScanThread(p)}
      /\ \A t \in Workers : work'[t].pc \in WorkInTx => holder' = {t}
  BY DEF IInv, LockInv
<1>2. \A p \in Procs : /\ ScanThread(p) \notin Workers
                       /\ \A q \in Procs : ScanThread(p) = ScanThread(q) => p = q
  BY ScanThreadFacts
<1>3. \A x, y : {x} = {y} => x = y
  OBVIOUS
<1>4. holder' = {} => /\ \A q \in Procs : scan'[q].pc \notin ScanInTx
                      /\ \A t \in Workers : work'[t].pc \notin WorkInTx
  BY <1>1
<1>5. \A p \in Procs : holder' = {ScanThread(p)} =>
        /\ \A q \in Procs : scan'[q].pc \in ScanInTx => q = p
        /\ \A t \in Workers : work'[t].pc \notin WorkInTx
  BY <1>1, <1>2, <1>3
<1>6. \A t \in Workers : holder' = {t} =>
        /\ \A q \in Procs : scan'[q].pc \notin ScanInTx
        /\ \A u \in Workers : work'[u].pc \in WorkInTx => u = t
  BY <1>1, <1>2, <1>3
<1> QED
  BY <1>4, <1>5, <1>6

\* Who holds the lock when a thread is inside a transaction.
LEMMA LockHolder ==
  ASSUME IInv
  PROVE  /\ \A p \in Procs : scan[p].pc \in ScanInTx => holder = {ScanThread(p)}
         /\ \A t \in Workers : work[t].pc \in WorkInTx => holder = {t}
  BY DEF IInv, LockInv

\* A step of the main thread.
LEMMA ScanCases ==
  ASSUME IInv, IInv', NEW p \in Procs, UNCHANGED gnosisVars,
         ScanStep(p) \/ BeginBlock(p) \/ BlockLockTimeout(p)
  PROVE  Idles \/ Begins \/ ScanProceeds(p) \/ Commits
<1>1. scan \in [Procs -> ScanStates] /\ api' = api /\ work' = work
  BY TypeFacts DEF gnosisVars
<1>2. CASE SyncLoop(p) \/ BlockLockTimeout(p)
  <2>1. /\ db' = db /\ wdb' = wdb /\ ledger' = ledger
        /\ \A q \in Procs \ {p} : scan'[q] = scan[q]
        /\ scan'[p].pc \notin ScanInTx
    <3>1. CASE SyncLoop(p)
      <4>1. PICK n : n = num_blocks_synced(db)
        OBVIOUS
      <4>2. scan' = [scan EXCEPT ![p].pc = "begin", ![p].block_index = n]
        BY <3>1, <4>1 DEF SyncLoop
      <4>3. (\A q \in Procs \ {p} : scan'[q] = scan[q]) /\ scan'[p].pc = "begin"
        BY <1>1, <4>2 DEF ScanStates
      <4> QED
        BY <3>1, <4>3 DEF SyncLoop, storeVars, ScanInTx
    <3>2. CASE BlockLockTimeout(p)
      BY <1>1, <3>2 DEF BlockLockTimeout, LockTimeout, ScanAt, ScanInTx
    <3> QED
      BY <1>2, <3>1, <3>2
  <2>2. \A q \in Procs : scan'[q] = scan[q] => Contents(q)' = Contents(q)
    BY <2>1 DEF Contents
  <2> QED
    BY <1>1, <2>1, <2>2 DEF Idles
<1>3. CASE BeginBlock(p)
  <2>1. db' = db /\ wdb' = db /\ holder' = {ScanThread(p)}
    BY <1>3 DEF BeginBlock, Begin
  <2>2. scan'[p].pc = "check_index"
    BY <1>1, <1>3, GotoFacts DEF BeginBlock, ScanPcs
  <2> QED
    BY <2>1, <2>2, WhoIsInside DEF Begins
<1>4. CASE CommitBlock(p)
  <2>1. holder = {ScanThread(p)}
    BY <1>4, LockHolder DEF CommitBlock, ScanInTx
  <2>2. db' = wdb /\ wdb' = wdb /\ holder' = {}
    BY <1>4, <2>1 DEF CommitBlock, Commit
  <2> QED
    BY <1>4, <2>2, WhoIsInside DEF Commits, CommitBlock
<1>5. CASE SyncBlockFails(p)
  <2>1. scan[p].pc \in ScanInTx
    BY <1>5 DEF SyncBlockFails, SyncBlockError, ScanInTx
  <2>2. holder = {ScanThread(p)}
    BY <2>1, LockHolder
  <2>3. db' = db /\ wdb' \in {db, wdb} /\ holder' = {}
    BY <1>5, <2>2 DEF SyncBlockFails, Rollback, RollbackOf
  <2> QED
    BY <2>3, WhoIsInside DEF Idles
<1>6. CASE ScanStep(p) /\ ~SyncLoop(p) /\ ~CommitBlock(p) /\ ~SyncBlockFails(p)
  <2>1. /\ scan[p].pc \in ScanInTx /\ db' = db /\ holder' = holder /\ ledger' = ledger
    BY <1>6 DEF ScanStep, CheckBlockIndex, StoreMintConfigTx, LoadBalances, StoreMintTx,
                MintTxsDone, SkipOutput, StoreBurnTxOut, FinishBlock, AuditMint,
                AuditMintsDone, AuditBurn, AuditBurnsDone, Write, ScanInTx
  <2>2. ScanMove(scan[p], scan'[p], wdb, wdb', Contents(p))
    BY <1>6, <2>1, ScanActionMoves
  <2>3. scan'[p].block_index = scan[p].block_index
    BY <2>2 DEF ScanMove, CheckMove, ConfigMove, ConfigsDone, MintMove, MintsDone, SkipMove,
                BurnMove, FinishMove, AuditMintMove, AuditMintsEnd, AuditBurnMove,
                AuditBurnsEnd, ScanGoes
  <2>4. Contents(p)' = Contents(p)
    BY <2>1, <2>3 DEF Contents
  <2>5. holder' = {ScanThread(p)}
    BY <2>1, LockHolder
  <2> QED
    BY <2>1, <2>2, <2>4, <2>5, WhoIsInside DEF ScanProceeds
<1> QED
  BY <1>2, <1>3, <1>4, <1>5, <1>6

\* A step of a safe thread.
LEMMA WorkCases ==
  ASSUME IInv, IInv', NEW t \in Workers, UNCHANGED ledgerVars,
         WorkStep(t) \/ BeginTx(t) \/ TxLockTimeout(t)
  PROVE  Idles \/ Begins \/ WorkProceeds(t) \/ Commits
<1>1. work \in [Workers -> WorkStates] /\ ledger' = ledger /\ scan' = scan
  BY TypeFacts DEF ledgerVars
<1>2. CASE Poll(t) \/ PollDone(t) \/ TxLockTimeout(t)
  <2>1. db' = db /\ wdb' = wdb
    BY <1>2 DEF Poll, PollDone, TxLockTimeout, LockTimeout, storeVars
  <2>2. \A u \in Workers \ {t} : work'[u] = work[u]
    <3>1. CASE Poll(t)
      BY <1>1, <3>1 DEF Poll
    <3>2. CASE PollDone(t)
      BY <1>1, <3>2 DEF PollDone, WorkGoto
    <3>3. CASE TxLockTimeout(t)
      BY <1>1, <3>3 DEF TxLockTimeout
    <3> QED
      BY <1>2, <3>1, <3>2, <3>3
  <2>3. work'[t].pc \notin WorkInTx
    <3>1. CASE Poll(t)
      <4>1. PICK l : l = api[audited_safe(t).safe_addr]
        OBVIOUS
      <4>2. work' = [work EXCEPT ![t].pc = "begin", ![t].todo = l]
        BY <3>1, <4>1 DEF Poll
      <4> QED
        BY <1>1, <4>2 DEF WorkStates, WorkInTx
    <3>2. CASE PollDone(t)
      BY <1>1, <3>2, WorkGotoFacts DEF PollDone, WorkPcs, WorkInTx
    <3>3. CASE TxLockTimeout(t)
      BY <1>1, <3>3 DEF TxLockTimeout, WorkAt, WorkInTx
    <3> QED
      BY <1>2, <3>1, <3>2, <3>3
  <2>4. \A q \in Procs : Contents(q)' = Contents(q)
    BY <1>1 DEF Contents
  <2> QED
    BY <1>1, <2>1, <2>2, <2>3, <2>4 DEF Idles
<1>3. CASE BeginTx(t)
  <2>1. db' = db /\ wdb' = db /\ holder' = {t}
    BY <1>3 DEF BeginTx, Begin
  <2>2. work'[t].pc = "insert"
    BY <1>1, <1>3, WorkGotoFacts DEF BeginTx, WorkPcs
  <2> QED
    BY <2>1, <2>2, WhoIsInside DEF Begins
<1>4. CASE CommitTx(t)
  <2>1. holder = {t}
    BY <1>4, LockHolder DEF CommitTx, WorkInTx
  <2>2. db' = wdb /\ wdb' = wdb /\ holder' = {}
    BY <1>4, <2>1 DEF CommitTx, Commit
  <2> QED
    BY <1>4, <2>2, WhoIsInside DEF Commits, CommitTx
<1>5. CASE DecodeFails(t) \/ DepositFails(t) \/ MultiSigFails(t)
  <2>1. work[t].pc \in WorkInTx /\ WorkFails(t)
    BY <1>5 DEF DecodeFails, DepositFails, MultiSigFails, AtTransfer, AtMultiSig, WorkInTx
  <2>2. holder = {t}
    BY <2>1, LockHolder
  <2>3. db' = db /\ wdb' \in {db, wdb} /\ holder' = {}
    BY <2>1, <2>2 DEF WorkFails, Rollback, RollbackOf
  <2> QED
    BY <2>3, WhoIsInside DEF Idles
<1>6. CASE /\ WorkStep(t) /\ ~Poll(t) /\ ~PollDone(t) /\ ~CommitTx(t)
           /\ ~DecodeFails(t) /\ ~DepositFails(t) /\ ~MultiSigFails(t)
  <2>1. work[t].pc \in WorkInTx /\ db' = db /\ holder' = holder
    BY <1>6 DEF WorkStep, SkipTx, InsertTx, UnknownTransfer, UnknownTokenTransfer, StoreDeposit,
                TransfersDone, OtherSafeMultiSig, InvalidMultiSig, StoreWithdrawal,
                AtTransfer, AtMultiSig, Write, WorkInTx
  <2>2. WorkMove(work[t], work'[t], wdb, wdb', Tx(t), audited_safe(t))
    BY <1>6, <2>1, WorkActionMoves
  <2>3. work'[t].todo = work[t].todo
    BY <2>2 DEF WorkMove, SkipTxMove, InsertMove, ForeignTransferMove, UnknownTokenMove,
                DepositMove, TransfersEnd, NoWithdrawalMove, WithdrawalMove, WorkGoes
  <2>4. Tx(t)' = Tx(t)
    BY <2>3 DEF Tx
  <2>5. holder' = {t}
    BY <2>1, LockHolder
  <2> QED
    BY <2>1, <2>2, <2>4, <2>5, WhoIsInside DEF WorkProceeds
<1> QED
  BY <1>2, <1>3, <1>4, <1>5, <1>6

\* A new block at the end of the ledger leaves the blocks in work alone.
LEMMA GrowLedgerIdles ==
  ASSUME IInv, GrowLedger, UNCHANGED gnosisVars
  PROVE  Idles
<1>1. db' = db /\ wdb' = wdb /\ scan' = scan /\ work' = work
  BY DEF GrowLedger, storeVars, gnosisVars
<1>2. ASSUME NEW p \in Procs, scan[p].pc \in ScanInTx
      PROVE  Contents(p)' = Contents(p)
  <2>1. scan[p].block_index \in Nat /\ scan[p].block_index < Len(ledger)
    BY <1>2, TypeFacts DEF IInv, ScanInv, ScanInTx, ScanStates
  <2>2. ledger \in Seq(Blocks)
    BY TypeFacts
  <2>3. PICK b \in Blocks : ledger' = Append(ledger, b)
    BY DEF GrowLedger
  <2>4. PICK i : i = scan[p].block_index + 1
    OBVIOUS
  <2>5. ledger'[i] = ledger[i]
    BY <2>1, <2>2, <2>3, <2>4
  <2> QED
    BY <1>1, <2>4, <2>5 DEF Contents
<1> QED
  BY <1>1, <1>2 DEF Idles

\* A crash or a restart takes the threads of one process out of their
\* transactions.
LEMMA ProcessIdles ==
  ASSUME IInv, NEW p \in Procs, Crash(p) \/ Restart(p)
  PROVE  Idles
<1>1. /\ scan \in [Procs -> ScanStates] /\ ledger' = ledger
      /\ RollbackOf(ThreadsOf(p))
  BY TypeFacts DEF Crash, Restart, CrashStore
<1>2. /\ \A q \in Procs \ {p} : scan'[q] = scan[q]
      /\ scan'[p].pc \notin ScanInTx
      /\ \A t \in Workers : t[1] # p => work'[t] = work[t]
      /\ \A t \in Workers : t[1] = p => work'[t].pc \notin WorkInTx
  <2>1. CASE Crash(p)
    BY <1>1, <2>1 DEF Crash, ScanAt, WorkAt, ScanInTx, WorkInTx
  <2>2. CASE Restart(p)
    BY <1>1, <2>2 DEF Restart, ScanAt, WorkAt, ScanInTx, WorkInTx
  <2> QED
    BY <2>1, <2>2
<1>3. \A u : u[1] # p /\ holder = {u} => wdb' = wdb
  BY <1>1 DEF RollbackOf, ThreadsOf
<1>4. ASSUME NEW q \in Procs, scan'[q].pc \in ScanInTx
      PROVE  scan'[q] = scan[q] /\ wdb' = wdb /\ Contents(q)' = Contents(q)
  <2>1. q # p /\ scan'[q] = scan[q]
    BY <1>2, <1>4
  <2>2. holder = {ScanThread(q)}
    BY <1>4, <2>1, LockHolder
  <2>3. ScanThread(q)[1] = q
    BY DEF ScanThread
  <2> QED
    BY <1>1, <1>3, <2>1, <2>2, <2>3 DEF Contents
<1>5. ASSUME NEW t \in Workers, work'[t].pc \in WorkInTx
      PROVE  work'[t] = work[t] /\ wdb' = wdb
  <2>1. t[1] # p /\ work'[t] = work[t]
    BY <1>2, <1>5
  <2>2. holder = {t}
    BY <1>5, <2>1, LockHolder
  <2> QED
    BY <1>3, <2>1, <2>2
<1>6. db' = db /\ wdb' \in {db, wdb}
  BY <1>1 DEF RollbackOf
<1> QED
  BY <1>4, <1>5, <1>6 DEF Idles

\* Every step of the auditor, seen from the two databases.
LEMMA StepCases ==
  ASSUME IInv, IInv', [Next]_vars
  PROVE  \/ Idles \/ Begins \/ Commits
         \/ \E p \in Procs : ScanProceeds(p)
         \/ \E t \in Workers : WorkProceeds(t)
<1>1. CASE UNCHANGED vars
  <2>1. db' = db /\ wdb' = wdb /\ scan' = scan /\ work' = work /\ ledger' = ledger
    BY <1>1 DEF vars
  <2>2. \A p \in Procs : Contents(p)' = Contents(p)
    BY <2>1 DEF Contents
  <2> QED
    BY <2>1, <2>2 DEF Idles
<1>2. CASE LedgerNext /\ UNCHANGED gnosisVars
  BY <1>2, GrowLedgerIdles, ScanCases DEF LedgerNext
<1>3. CASE GnosisNext /\ UNCHANGED ledgerVars
  <2>1. CASE \E a \in AuditedSafes : ListTx(a)
    <3>1. db' = db /\ wdb' = wdb /\ scan' = scan /\ work' = work /\ ledger' = ledger
      BY <1>3, <2>1 DEF ListTx, storeVars, ledgerVars
    <3>2. \A p \in Procs : Contents(p)' = Contents(p)
      BY <3>1 DEF Contents
    <3> QED
      BY <3>1, <3>2 DEF Idles
  <2> QED
    BY <1>3, <2>1, WorkCases DEF GnosisNext
<1>4. CASE \E p \in Procs : Crash(p) \/ Restart(p)
  BY <1>4, ProcessIdles
<1> QED
  BY <1>1, <1>2, <1>3, <1>4 DEF Next

----------------------------------------------------------------------------
(* Unique columns.                                                         *)

\* A matching attempt changes nothing but the log and the counters.
LEMMA TriesKeep ==
  ASSUME NEW d, NEW d2
  PROVE  /\ TriesMint(d, d2) => Keeps(d, d2, AllBut({"audited_mints", "counters"}))
         /\ TriesBurn(d, d2) => Keeps(d, d2, AllBut({"audited_burns", "counters"}))
<1>1. \A c : Counted(d, d2, c) => Keeps(d, d2, AllBut({"counters"}))
  BY DEF Counted
<1>2. Keeps(d, d2, AllBut({"counters"})) =>
        /\ Keeps(d, d2, AllBut({"audited_mints", "counters"}))
        /\ Keeps(d, d2, AllBut({"audited_burns", "counters"}))
  BY DEF Keeps, AllBut
<1>3. Keeps(d, d2, AllBut({"audited_mints"})) =>
        Keeps(d, d2, AllBut({"audited_mints", "counters"}))
  BY DEF Keeps, AllBut
<1>4. Keeps(d, d2, AllBut({"audited_burns"})) =>
        Keeps(d, d2, AllBut({"audited_burns", "counters"}))
  BY DEF Keeps, AllBut
<1> QED
  BY <1>1, <1>2, <1>3, <1>4 DEF TriesMint, TriesBurn

\* Storing and matching a deposit or a withdrawal adds that row, and one trace.
LEMMA SafeStores ==
  ASSUME NEW d, NEW d2, NEW k \in DOMAIN Config
  PROVE  /\ \A e \in DepositRows : StoresDeposit(d, d2, e, Config[k]) =>
              /\ d2.deposits = d.deposits \cup {e}
              /\ Keeps(d, d2, AllBut({"deposits", "audited_mints", "counters"}))
         /\ \A w \in WithdrawalRows : StoresWithdrawal(d, d2, w, Config[k]) =>
              /\ d2.withdrawals = d.withdrawals \cup {w}
              /\ Keeps(d, d2, AllBut({"withdrawals", "audited_burns", "counters"}))
<1>1. ASSUME NEW e \in DepositRows, StoresDeposit(d, d2, e, Config[k])
      PROVE  /\ d2.deposits = d.deposits \cup {e}
             /\ Keeps(d, d2, AllBut({"deposits", "audited_mints", "counters"}))
  <2>1. PICK d1 \in Databases :
          /\ Keeps(d, d1, AllBut({"deposits"})) /\ d1.deposits = d.deposits \cup {e}
          /\ d2 \in try_match_deposit_with_mint(d1, e, Config[k])
    BY <1>1 DEF StoresDeposit
  <2>2. Keeps(d1, d2, AllBut({"audited_mints", "counters"}))
    BY <2>1, MintTries, TriesKeep
  <2> QED
    BY <2>1, <2>2 DEF Keeps, AllBut, Fields
<1>2. ASSUME NEW w \in WithdrawalRows, StoresWithdrawal(d, d2, w, Config[k])
      PROVE  /\ d2.withdrawals = d.withdrawals \cup {w}
             /\ Keeps(d, d2, AllBut({"withdrawals", "audited_burns", "counters"}))
  <2>1. PICK d1 \in Databases :
          /\ Keeps(d, d1, AllBut({"withdrawals"})) /\ d1.withdrawals = d.withdrawals \cup {w}
          /\ d2 \in try_match_withdrawal_with_burn(d1, w, Config[k])
    BY <1>2 DEF StoresWithdrawal
  <2>2. Keeps(d1, d2, AllBut({"audited_burns", "counters"}))
    BY <2>1, BurnTries, TriesKeep
  <2> QED
    BY <2>1, <2>2 DEF Keeps, AllBut, Fields
<1> QED
  BY <1>1, <1>2

RowTables == {"mint_txs", "burn_tx_outs", "deposits", "withdrawals"}

\* A write that leaves the four tables alone keeps the rows unique.
LEMMA UniqueFrame ==
  ASSUME NEW d, NEW d2, Keeps(d, d2, RowTables), UniqueRows(d)
  PROVE  UniqueRows(d2)
  BY DEF Keeps, RowTables, UniqueRows

\* The moves of the main thread keep the rows unique: an insert is preceded by
\* the check of the UNIQUE constraint.
LEMMA ScanMoveUnique ==
  ASSUME NEW s, NEW s2, NEW d \in Databases, NEW d2, NEW c \in BlockContents,
         ScanMove(s, s2, d, d2, c), UniqueRows(d)
  PROVE  UniqueRows(d2)
<1>1. CASE d2 = d
  BY <1>1
<1>2. CASE ConfigMove(s, s2, d, d2, c) \/ FinishMove(s, s2, d, d2, c)
  <2>1. Keeps(d, d2, RowTables)
    BY <1>2 DEF ConfigMove, StoresConfig, FinishMove, FinishesBlock, Keeps, AllBut, Fields,
                RowTables
  <2> QED
    BY <2>1, UniqueFrame
<1>3. CASE MintMove(s, s2, d, d2, c)
  <2>1. PICK tx : StoresMint(d, d2, s.block_index, tx)
    BY <1>3 DEF MintMove
  <2>2. PICK m : m.nonce = tx.nonce /\ d2.mint_txs = d.mint_txs \cup {m}
    BY <2>1 DEF StoresMint
  <2>3. \A o \in d.mint_txs : o.nonce # m.nonce
    BY <2>1, <2>2 DEF StoresMint, MintTxExists
  <2>4. Keeps(d, d2, {"burn_tx_outs", "deposits", "withdrawals"})
    BY <2>1 DEF StoresMint, Keeps, AllBut, Fields
  <2>5. /\ d2.burn_tx_outs = d.burn_tx_outs /\ d2.deposits = d.deposits
        /\ d2.withdrawals = d.withdrawals
    BY <2>4 DEF Keeps
  <2> QED
    BY <2>2, <2>3, <2>5 DEF UniqueRows
<1>4. CASE BurnMove(s, s2, d, d2, c)
  <2>1. PICK o : StoresBurn(d, d2, s.block_index, o)
    BY <1>4 DEF BurnMove
  <2>2. PICK b : b.public_key = o.public_key /\ d2.burn_tx_outs = d.burn_tx_outs \cup {b}
    BY <2>1 DEF StoresBurn, burn_tx_out_row
  <2>3. \A x \in d.burn_tx_outs : x.public_key # b.public_key
    BY <2>1, <2>2 DEF StoresBurn, BurnTxOutExists
  <2>4. Keeps(d, d2, {"mint_txs", "deposits", "withdrawals"})
    BY <2>1 DEF StoresBurn, Keeps, AllBut, Fields
  <2>5. /\ d2.mint_txs = d.mint_txs /\ d2.deposits = d.deposits
        /\ d2.withdrawals = d.withdrawals
    BY <2>4 DEF Keeps
  <2> QED
    BY <2>2, <2>3, <2>5 DEF UniqueRows
<1>5. CASE AuditMintMove(s, s2, d, d2, c) \/ AuditBurnMove(s, s2, d, d2, c)
  <2>1. c.mint_txs \in Seq(CoreMintTxs) /\ c.outputs \in Seq(TxOuts)
    BY DEF BlockContents
  <2>2. TriesMint(d, d2) \/ TriesBurn(d, d2)
    BY <1>5, <2>1, MintTries, BurnTries DEF AuditMintMove, AuditBurnMove
  <2>3. Keeps(d, d2, RowTables)
    BY <2>2, TriesKeep DEF Keeps, AllBut, Fields, RowTables
  <2> QED
    BY <2>3, UniqueFrame
<1> QED
  BY <1>1, <1>2, <1>3, <1>4, <1>5
     DEF ScanMove, CheckMove, ConfigsDone, MintsDone, SkipMove, AuditMintsEnd, AuditBurnsEnd

\* So do the moves of a safe thread.
LEMMA WorkMoveUnique ==
  ASSUME NEW s, NEW s2, NEW d, NEW d2, NEW x, NEW k \in DOMAIN Config,
         WorkMove(s, s2, d, d2, x, Config[k]), UniqueRows(d)
  PROVE  UniqueRows(d2)
<1>1. CASE d2 = d
  BY <1>1
<1>2. CASE InsertMove(s, s2, d, d2, x) \/ UnknownTokenMove(s, s2, d, d2, x, Config[k])
           \/ (NoWithdrawalMove(s, s2, d, d2, x, Config[k]) /\ d2 # d)
  <2>1. Keeps(d, d2, RowTables)
    BY <1>2 DEF InsertMove, UnknownTokenMove, NoWithdrawalMove, Counted, Keeps, AllBut, Fields,
                RowTables
  <2> QED
    BY <2>1, UniqueFrame
<1>3. CASE DepositMove(s, s2, d, d2, x, Config[k])
  <2>1. PICK e \in DepositRows : StoresDeposit(d, d2, e, Config[k])
    BY <1>3 DEF DepositMove
  <2>2. /\ d2.deposits = d.deposits \cup {e}
        /\ Keeps(d, d2, AllBut({"deposits", "audited_mints", "counters"}))
    BY <2>1, SafeStores
  <2>3. \A o \in d.deposits : o.eth_tx_hash # e.eth_tx_hash
    BY <2>1 DEF StoresDeposit, DepositExists
  <2>4. /\ d2.mint_txs = d.mint_txs /\ d2.burn_tx_outs = d.burn_tx_outs
        /\ d2.withdrawals = d.withdrawals
    BY <2>2 DEF Keeps, AllBut, Fields
  <2> QED
    BY <2>2, <2>3, <2>4 DEF UniqueRows
<1>4. CASE WithdrawalMove(s, s2, d, d2, x, Config[k])
  <2>1. PICK w \in WithdrawalRows : StoresWithdrawal(d, d2, w, Config[k])
    BY <1>4 DEF WithdrawalMove
  <2>2. /\ d2.withdrawals = d.withdrawals \cup {w}
        /\ Keeps(d, d2, AllBut({"withdrawals", "audited_burns", "counters"}))
    BY <2>1, SafeStores
  <2>3. \A o \in d.withdrawals : o.eth_tx_hash # w.eth_tx_hash
    BY <2>1 DEF StoresWithdrawal, WithdrawalExists
  <2>4. /\ d2.mint_txs = d.mint_txs /\ d2.burn_tx_outs = d.burn_tx_outs
        /\ d2.deposits = d.deposits
    BY <2>2 DEF Keeps, AllBut, Fields
  <2> QED
    BY <2>2, <2>3, <2>4 DEF UniqueRows
<1> QED
  BY <1>1, <1>2, <1>3, <1>4
     DEF WorkMove, SkipTxMove, ForeignTransferMove, TransfersEnd, NoWithdrawalMove

\* A step keeps the UNIQUE columns unique, in the committed database and in the
\* one the lock holder sees.
LEMMA NextUniqueRows ==
  ASSUME IInv, IInv', [Next]_vars, UniqueRows(db), UniqueRows(wdb)
  PROVE  UniqueRows(db') /\ UniqueRows(wdb')
<1>1. CASE Idles \/ Begins \/ Commits
  BY <1>1 DEF Idles, Begins, Commits
<1>2. CASE \E p \in Procs : ScanProceeds(p)
  <2>1. PICK p \in Procs : ScanProceeds(p)
    BY <1>2
  <2>2. Contents(p) \in BlockContents /\ wdb \in Databases
    BY <2>1, ContentsType, TypeFacts DEF ScanProceeds, ScanInTx
  <2> QED
    BY <2>1, <2>2, ScanMoveUnique DEF ScanProceeds
<1>3. CASE \E t \in Workers : WorkProceeds(t)
  BY <1>3, SafeOfThread, WorkMoveUnique DEF WorkProceeds
<1> QED
  BY <1>1, <1>2, <1>3, StepCases

\* The UNIQUE columns stay unique.
LEMMA RowsStayUnique == Spec => [](UniqueRows(db) /\ UniqueRows(wdb))
<1>1. Init => UniqueRows(db) /\ UniqueRows(wdb)
  BY DEF Init, StoreInit, EmptyDb, UniqueRows
<1>2. /\ IInv /\ IInv' /\ [Next]_vars /\ UniqueRows(db) /\ UniqueRows(wdb)
      => (UniqueRows(db) /\ UniqueRows(wdb))'
  BY NextUniqueRows DEF UniqueRows
<1> QED
  BY <1>1, <1>2, Invariance, PTL DEF Spec

=============================================================================
