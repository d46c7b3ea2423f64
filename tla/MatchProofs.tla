------------------------------ MODULE MatchProofs ------------------------------
(***************************************************************************)
(* No pair is missed: a mint and the deposit that backs it are matched     *)
(* with each other once both are committed, and so are a burn and the      *)
(* withdrawal that redeems it, for every value of the constants.           *)
(*                                                                         *)
(* The argument: whichever row of a pair is stored second starts a search, *)
(* and the search finds the first one, because the columns it looks at are *)
(* unique and because a row the log already holds is held with the only    *)
(* row it can be paired with.  Between storing a block's rows and auditing *)
(* them the main thread owes them a search: those are the open rows.       *)
(***************************************************************************)
EXTENDS InvariantProofs

\* What the searches rely on.
Searchable(d) == d \in Databases /\ LogInv(d) /\ UniqueRows(d)

----------------------------------------------------------------------------
(* The configuration.                                                      *)

\* With one configuration per safe, the lookup by address returns that one.
LEMMA SafeConfigOf ==
  ASSUME UniqueSafes, NEW k \in DOMAIN Config
  PROVE  get_audited_safe_config_by_safe_addr(Config[k].safe_addr) = {Config[k]}
<1>1. PICK S : S = {j \in DOMAIN Config : Config[j].safe_addr = Config[k].safe_addr}
  OBVIOUS
<1>2. S = {k}
  BY <1>1 DEF UniqueSafes
<1>3. DOMAIN Config \subseteq Int
  BY DbAssumption
<1>4. FirstOf(S) = {k}
  BY <1>2, <1>3 DEF FirstOf
<1> QED
  BY <1>1, <1>4 DEF get_audited_safe_config_by_safe_addr

\* With one configuration per safe the two verify functions accept every match:
\* the converse of VerifiedMatch.
LEMMA MatchVerifies ==
  ASSUME UniqueSafes, NEW k \in DOMAIN Config
  PROVE  /\ \A m, e : e.safe_addr = Config[k].safe_addr /\ Backs(e, m) =>
              verify_mint_tx_matches_deposit(m, e, Config[k]) = "Ok"
         /\ \A b, w : w.safe_addr = Config[k].safe_addr /\ Redeems(w, b) =>
              verify_burn_tx_out_matches_withdrawal(b, w, Config[k]) = "Ok"
<1>1. Config[k] \in AuditedSafeConfigs
  BY ConfigEntries
<1>2. ASSUME NEW m, NEW e, e.safe_addr = Config[k].safe_addr, Backs(e, m)
      PROVE  verify_mint_tx_matches_deposit(m, e, Config[k]) = "Ok"
  <2>1. PICK i \in DOMAIN Config :
          /\ Config[i].safe_addr = e.safe_addr
          /\ \E token \in get_token_by_eth_contract_addr(Config[i], e.token_addr) :
               token.token_id = m.token_id
    BY <1>2 DEF Backs
  <2>2. i = k
    BY <1>2, <2>1 DEF UniqueSafes
  <2>3. /\ get_token_by_eth_contract_addr(Config[k], e.token_addr) # {}
        /\ \A t \in get_token_by_eth_contract_addr(Config[k], e.token_addr) :
             t.token_id = m.token_id
    BY <1>1, <2>1, <2>2, OneTokenPerContract
  <2>4. m.nonce = expected_mc_mint_tx_nonce(e) /\ m.amount = e.amount
    BY <1>2 DEF Backs, expected_mc_mint_tx_nonce
  <2> QED
    BY <1>2, <2>3, <2>4 DEF verify_mint_tx_matches_deposit
<1>3. ASSUME NEW b, NEW w, w.safe_addr = Config[k].safe_addr, Redeems(w, b)
      PROVE  verify_burn_tx_out_matches_withdrawal(b, w, Config[k]) = "Ok"
  <2>1. PICK i \in DOMAIN Config :
          /\ Config[i].safe_addr = w.safe_addr
          /\ \E token \in get_token_by_eth_contract_addr(Config[i], w.token_addr) :
               token.token_id = b.token_id
    BY <1>3 DEF Redeems
  <2>2. i = k
    BY <1>3, <2>1 DEF UniqueSafes
  <2>3. /\ get_token_by_eth_contract_addr(Config[k], w.token_addr) # {}
        /\ \A t \in get_token_by_eth_contract_addr(Config[k], w.token_addr) :
             t.token_id = b.token_id
    BY <1>1, <2>1, <2>2, OneTokenPerContract
  <2>4. b.public_key = w.public_key /\ b.amount = w.amount
    BY <1>3 DEF Redeems
  <2> QED
    BY <1>3, <2>3, <2>4 DEF verify_burn_tx_out_matches_withdrawal
<1> QED
  BY <1>2, <1>3

\* Both rows of a match belong to a configured safe.
LEMMA MatchOfASafe ==
  /\ \A m, e : Backs(e, m) => \E k \in DOMAIN Config : e.safe_addr = Config[k].safe_addr
  /\ \A b, w : Redeems(w, b) => \E k \in DOMAIN Config : w.safe_addr = Config[k].safe_addr
<1>1. ASSUME NEW m, NEW e, Backs(e, m)
      PROVE  \E k \in DOMAIN Config : e.safe_addr = Config[k].safe_addr
  BY <1>1 DEF Backs
<1>2. ASSUME NEW b, NEW w, Redeems(w, b)
      PROVE  \E k \in DOMAIN Config : w.safe_addr = Config[k].safe_addr
  BY <1>2 DEF Redeems
<1> QED
  BY <1>1, <1>2

----------------------------------------------------------------------------
(* Mints and deposits.                                                     *)

\* A nonce names one Ethereum transaction.
LEMMA NonceNamesHash ==
  \A g, h : EthereumGnosisDeposit(g) = EthereumGnosisDeposit(h) => g = h
<1> SUFFICES ASSUME NEW g, NEW h, EthereumGnosisDeposit(g) = EthereumGnosisDeposit(h)
             PROVE  g = h
  OBVIOUS
<1>1. EthereumGnosisDeposit(g).eth_tx_hash = g /\ EthereumGnosisDeposit(h).eth_tx_hash = h
  BY DEF EthereumGnosisDeposit
<1> QED
  BY <1>1

\* A row of a sound log pairs a mint with the one deposit its nonce names.
LEMMA MintLogRow ==
  ASSUME NEW d, SoundMintLog(d), NEW i \in DOMAIN d.audited_mints
  PROVE  \E e \in d.deposits :
           /\ d.audited_mints[i].deposit = e.eth_tx_hash
           /\ d.audited_mints[i].mint = EthereumGnosisDeposit(e.eth_tx_hash)
           /\ d.audited_mints[i] = [mint |-> EthereumGnosisDeposit(e.eth_tx_hash),
                                    deposit |-> e.eth_tx_hash]
<1>1. PICK m \in d.mint_txs, e \in d.deposits :
        /\ d.audited_mints[i] = [mint |-> m.nonce, deposit |-> e.eth_tx_hash]
        /\ Backs(e, m)
  BY DEF SoundMintLog
<1>2. m.nonce = EthereumGnosisDeposit(e.eth_tx_hash)
  BY <1>1 DEF Backs
<1> QED
  BY <1>1, <1>2

\* The search of a stored mint pairs it with the deposit that backs it, or it
\* was paired with that deposit before (try_match_mint_with_deposit).
LEMMA MintFindsDeposit ==
  ASSUME UniqueSafes, NEW d, Searchable(d), NEW tx \in CoreMintTxs,
         NEW d2 \in try_match_mint_with_deposit(d, tx),
         NEW e \in d.deposits, Backs(e, tx)
  PROVE  MintPaired(d, tx, e) \/ MintPaired(d2, tx, e)
<1>1. d \in Databases /\ SoundMintLog(d) /\ tx.nonce = EthereumGnosisDeposit(e.eth_tx_hash)
  BY DEF Searchable, LogInv, MintLogInv, Backs
<1>2. CASE MintIsAudited(d, tx.nonce)
  <2>1. PICK i \in DOMAIN d.audited_mints : d.audited_mints[i].mint = tx.nonce
    BY <1>2 DEF MintIsAudited
  <2>2. PICK f \in d.deposits :
          /\ d.audited_mints[i].mint = EthereumGnosisDeposit(f.eth_tx_hash)
          /\ d.audited_mints[i] = [mint |-> EthereumGnosisDeposit(f.eth_tx_hash),
                                   deposit |-> f.eth_tx_hash]
    BY <1>1, <2>1, MintLogRow
  <2>3. f.eth_tx_hash = e.eth_tx_hash
    BY <1>1, <2>1, <2>2, NonceNamesHash
  <2> QED
    BY <1>1, <2>2, <2>3 DEF MintPaired
<1>3. CASE ~MintIsAudited(d, tx.nonce)
  <2>1. ~DepositIsAudited(d, e.eth_tx_hash)
    <3> SUFFICES ASSUME NEW i \in DOMAIN d.audited_mints,
                        d.audited_mints[i].deposit = e.eth_tx_hash
                 PROVE  FALSE
      BY DEF DepositIsAudited
    <3>1. PICK f \in d.deposits :
            /\ d.audited_mints[i].deposit = f.eth_tx_hash
            /\ d.audited_mints[i].mint = EthereumGnosisDeposit(f.eth_tx_hash)
      BY <1>1, MintLogRow
    <3> QED
      BY <1>1, <1>3, <3>1 DEF MintIsAudited
  <2>2. PICK found : found = find_unaudited_deposit_by_nonce(d, tx.nonce)
    OBVIOUS
  <2>3. e \in found
    BY <1>1, <2>1, <2>2 DEF find_unaudited_deposit_by_nonce, expected_mc_mint_tx_nonce
  <2>4. \A f \in found : f = e
    <3> SUFFICES ASSUME NEW f \in found
                 PROVE  f = e
      OBVIOUS
    <3>1. f \in d.deposits /\ EthereumGnosisDeposit(f.eth_tx_hash) = tx.nonce
      BY <2>2 DEF find_unaudited_deposit_by_nonce, expected_mc_mint_tx_nonce
    <3> QED
      BY <1>1, <3>1, NonceNamesHash DEF Searchable, UniqueRows
  <2>5. PICK k \in DOMAIN Config : e.safe_addr = Config[k].safe_addr
    BY MatchOfASafe
  <2>6. get_audited_safe_config_by_safe_addr(e.safe_addr) = {Config[k]}
    BY <2>5, SafeConfigOf
  <2>7. verify_mint_tx_matches_deposit(tx, e, Config[k]) = "Ok"
    BY <2>5, MatchVerifies
  <2>8. found = {e}
    BY <2>3, <2>4
  <2>9. mint_match_results(d, tx) = {[res |-> "Ok", deposit |-> {e}]}
    BY ONLY <1>3, <2>2, <2>6, <2>7, <2>8 DEF mint_match_results
  <2>10. d2 = associate_deposit_with_mint(d, tx, e)
    BY ONLY <2>9, d2 \in try_match_mint_with_deposit(d, tx) DEF try_match_mint_with_deposit
  <2>11. tx.nonce \in Nonces /\ e.eth_tx_hash \in EthTxHashes
    BY <1>1 DEF CoreMintTxs, Databases, DepositRows
  <2> QED
    BY <1>1, <2>10, <2>11, PairingWrites
<1> QED
  BY <1>2, <1>3

\* The search of a deposit that has just been stored pairs it with the mint it
\* backs (try_match_deposit_with_mint).
LEMMA DepositFindsMint ==
  ASSUME UniqueSafes, NEW d, Searchable(d), NEW d1 \in Databases,
         NEW e \in DepositRows, ~DepositExists(d, e.eth_tx_hash),
         Keeps(d, d1, AllBut({"deposits"})),
         NEW k \in DOMAIN Config, e.safe_addr = Config[k].safe_addr,
         NEW d2 \in try_match_deposit_with_mint(d1, e, Config[k]),
         NEW m \in d.mint_txs, Backs(e, m)
  PROVE  MintPaired(d2, m, e)
<1>1. d \in Databases /\ SoundMintLog(d) /\ m.nonce = EthereumGnosisDeposit(e.eth_tx_hash)
  BY DEF Searchable, LogInv, MintLogInv, Backs
<1>2. d1.mint_txs = d.mint_txs /\ d1.audited_mints = d.audited_mints
  BY DEF Keeps, AllBut, Fields
<1>3. ASSUME NEW i \in DOMAIN d.audited_mints
      PROVE  d.audited_mints[i].deposit # e.eth_tx_hash /\ d.audited_mints[i].mint # m.nonce
  <2>1. PICK f \in d.deposits :
          /\ d.audited_mints[i].deposit = f.eth_tx_hash
          /\ d.audited_mints[i].mint = EthereumGnosisDeposit(f.eth_tx_hash)
    BY <1>1, MintLogRow
  <2>2. f.eth_tx_hash # e.eth_tx_hash
    BY DEF DepositExists
  <2> QED
    BY <1>1, <2>1, <2>2, NonceNamesHash
<1>4. ~DepositIsAudited(d1, e.eth_tx_hash) /\ ~MintIsAudited(d1, m.nonce)
  BY <1>2, <1>3 DEF DepositIsAudited, MintIsAudited
<1>5. PICK found : found = find_unaudited_mint_tx_by_nonce(d1, expected_mc_mint_tx_nonce(e))
  OBVIOUS
<1>6. m \in found
  BY <1>1, <1>2, <1>4, <1>5 DEF find_unaudited_mint_tx_by_nonce, expected_mc_mint_tx_nonce
<1>7. \A o \in found : o \in d.mint_txs /\ o.nonce = m.nonce
  BY <1>1, <1>2, <1>5 DEF find_unaudited_mint_tx_by_nonce, expected_mc_mint_tx_nonce
<1>8. found = {m}
  BY <1>6, <1>7 DEF Searchable, UniqueRows
<1>9. verify_mint_tx_matches_deposit(m, e, Config[k]) = "Ok"
  BY MatchVerifies
<1>10. deposit_match_results(d1, e, Config[k]) = {[res |-> "Ok", mint |-> {m}]}
  BY ONLY <1>4, <1>5, <1>8, <1>9, e.safe_addr = Config[k].safe_addr DEF deposit_match_results
<1>11. d2 = associate_deposit_with_mint(d1, m, e)
  BY ONLY <1>10, d2 \in try_match_deposit_with_mint(d1, e, Config[k])
     DEF try_match_deposit_with_mint
<1>12. m.nonce \in Nonces /\ e.eth_tx_hash \in EthTxHashes
  BY <1>1 DEF Databases, MintTxRows, DepositRows
<1> QED
  BY <1>11, <1>12, PairingWrites

----------------------------------------------------------------------------
(* Burns and withdrawals.                                                  *)

\* A row of a sound log pairs a burn with a withdrawal of its public key.
LEMMA BurnLogRow ==
  ASSUME NEW d, SoundBurnLog(d), NEW i \in DOMAIN d.audited_burns
  PROVE  \E w \in d.withdrawals :
           /\ d.audited_burns[i].withdrawal = w.eth_tx_hash
           /\ d.audited_burns[i].burn = w.public_key
           /\ d.audited_burns[i] = [burn |-> w.public_key, withdrawal |-> w.eth_tx_hash]
<1>1. PICK b \in d.burn_tx_outs, w \in d.withdrawals :
        /\ d.audited_burns[i] = [burn |-> b.public_key, withdrawal |-> w.eth_tx_hash]
        /\ Redeems(w, b)
  BY DEF SoundBurnLog
<1>2. b.public_key = w.public_key
  BY <1>1 DEF Redeems
<1> QED
  BY <1>1, <1>2

\* The search of a stored burn pairs it with the only withdrawal that names it,
\* if that one redeems it, or it was paired with it before
\* (try_match_burn_with_withdrawal).
LEMMA BurnFindsWithdrawal ==
  ASSUME UniqueSafes, NEW d, Searchable(d), NEW o \in TxOuts,
         NEW d2 \in try_match_burn_with_withdrawal(d, o),
         NEW w \in d.withdrawals, Redeems(w, o), HasNoRival(d, w)
  PROVE  BurnPaired(d, o, w) \/ BurnPaired(d2, o, w)
<1>1. d \in Databases /\ SoundBurnLog(d) /\ o.public_key = w.public_key
  BY DEF Searchable, LogInv, BurnLogInv, Redeems
<1>2. CASE BurnIsAudited(d, o.public_key)
  <2>1. PICK i \in DOMAIN d.audited_burns : d.audited_burns[i].burn = o.public_key
    BY <1>2 DEF BurnIsAudited
  <2>2. PICK v \in d.withdrawals :
          /\ d.audited_burns[i].burn = v.public_key
          /\ d.audited_burns[i] = [burn |-> v.public_key, withdrawal |-> v.eth_tx_hash]
    BY <1>1, <2>1, BurnLogRow
  <2>3. v = w
    BY <1>1, <2>1, <2>2 DEF HasNoRival
  <2> QED
    BY <1>1, <2>2, <2>3 DEF BurnPaired
<1>3. CASE ~BurnIsAudited(d, o.public_key)
  <2>1. ~WithdrawalIsAudited(d, w.eth_tx_hash)
    <3> SUFFICES ASSUME NEW i \in DOMAIN d.audited_burns,
                        d.audited_burns[i].withdrawal = w.eth_tx_hash
                 PROVE  FALSE
      BY DEF WithdrawalIsAudited
    <3>1. PICK v \in d.withdrawals : /\ d.audited_burns[i].withdrawal = v.eth_tx_hash
                                     /\ d.audited_burns[i].burn = v.public_key
      BY <1>1, BurnLogRow
    <3>2. v = w
      BY <3>1 DEF Searchable, UniqueRows
    <3> QED
      BY <1>1, <1>3, <3>1, <3>2 DEF BurnIsAudited
  <2>2. PICK found : found = find_unaudited_withdrawal_by_public_key(d, o.public_key)
    OBVIOUS
  <2>3. w \in found
    BY <1>1, <2>1, <2>2 DEF find_unaudited_withdrawal_by_public_key
  <2>4. \A v \in found : v = w
    BY <1>1, <2>2 DEF find_unaudited_withdrawal_by_public_key, HasNoRival
  <2>5. PICK k \in DOMAIN Config : w.safe_addr = Config[k].safe_addr
    BY MatchOfASafe
  <2>6. get_audited_safe_config_by_safe_addr(w.safe_addr) = {Config[k]}
    BY <2>5, SafeConfigOf
  <2>7. verify_burn_tx_out_matches_withdrawal(o, w, Config[k]) = "Ok"
    BY <2>5, MatchVerifies
  <2>8. found = {w}
    BY <2>3, <2>4
  <2>9. burn_match_results(d, o) = {[res |-> "Ok", withdrawal |-> {w}]}
    BY ONLY <1>3, <2>2, <2>6, <2>7, <2>8 DEF burn_match_results
  <2>10. d2 = associate_withdrawal_with_burn(d, o, w)
    BY ONLY <2>9, d2 \in try_match_burn_with_withdrawal(d, o) DEF try_match_burn_with_withdrawal
  <2>11. o.public_key \in PublicKeys /\ w.eth_tx_hash \in EthTxHashes
    BY <1>1 DEF TxOuts, Databases, WithdrawalRows
  <2> QED
    BY <1>1, <2>10, <2>11, PairingWrites
<1> QED
  BY <1>2, <1>3

\* The search of a withdrawal that has just been stored pairs it with the burn
\* it redeems, if no other withdrawal names that burn
\* (try_match_withdrawal_with_burn).
LEMMA WithdrawalFindsBurn ==
  ASSUME UniqueSafes, NEW d, Searchable(d), NEW d1 \in Databases,
         NEW w \in WithdrawalRows, ~WithdrawalExists(d, w.eth_tx_hash),
         Keeps(d, d1, AllBut({"withdrawals"})),
         NEW k \in DOMAIN Config, w.safe_addr = Config[k].safe_addr,
         NEW d2 \in try_match_withdrawal_with_burn(d1, w, Config[k]),
         NEW b \in d.burn_tx_outs, Redeems(w, b),
         \A v \in d.withdrawals : v.public_key # w.public_key
  PROVE  BurnPaired(d2, b, w)
<1>1. d \in Databases /\ SoundBurnLog(d) /\ b.public_key = w.public_key
  BY DEF Searchable, LogInv, BurnLogInv, Redeems
<1>2. d1.burn_tx_outs = d.burn_tx_outs /\ d1.audited_burns = d.audited_burns
  BY DEF Keeps, AllBut, Fields
<1>3. ASSUME NEW i \in DOMAIN d.audited_burns
      PROVE  /\ d.audited_burns[i].withdrawal # w.eth_tx_hash
             /\ d.audited_burns[i].burn # b.public_key
  <2>1. PICK v \in d.withdrawals : /\ d.audited_burns[i].withdrawal = v.eth_tx_hash
                                   /\ d.audited_burns[i].burn = v.public_key
    BY <1>1, BurnLogRow
  <2>2. v.eth_tx_hash # w.eth_tx_hash
    BY DEF WithdrawalExists
  <2> QED
    BY <1>1, <2>1, <2>2
<1>4. ~WithdrawalIsAudited(d1, w.eth_tx_hash) /\ ~BurnIsAudited(d1, b.public_key)
  BY <1>2, <1>3 DEF WithdrawalIsAudited, BurnIsAudited
<1>5. PICK found : found = find_unaudited_burn_tx_out_by_public_key(d1, w.public_key)
  OBVIOUS
<1>6. b \in found
  BY <1>1, <1>2, <1>4, <1>5 DEF find_unaudited_burn_tx_out_by_public_key
<1>7. \A o \in found : o \in d.burn_tx_outs /\ o.public_key = b.public_key
  BY <1>1, <1>2, <1>5 DEF find_unaudited_burn_tx_out_by_public_key
<1>8. found = {b}
  BY <1>6, <1>7 DEF Searchable, UniqueRows
<1>9. verify_burn_tx_out_matches_withdrawal(b, w, Config[k]) = "Ok"
  BY MatchVerifies
<1>10. withdrawal_match_results(d1, w, Config[k]) = {[res |-> "Ok", burn |-> {b}]}
  BY ONLY <1>4, <1>5, <1>8, <1>9, w.safe_addr = Config[k].safe_addr DEF withdrawal_match_results
<1>11. d2 = associate_withdrawal_with_burn(d1, b, w)
  BY ONLY <1>10, d2 \in try_match_withdrawal_with_burn(d1, w, Config[k])
     DEF try_match_withdrawal_with_burn
<1>12. b.public_key \in PublicKeys /\ w.eth_tx_hash \in EthTxHashes
  BY <1>1 DEF Databases, BurnTxOutRows, WithdrawalRows
<1> QED
  BY <1>11, <1>12, PairingWrites

----------------------------------------------------------------------------
(* What a write does to the pairs.                                         *)

MintLogExtends(d, d2) ==
  \A i \in DOMAIN d.audited_mints :
    i \in DOMAIN d2.audited_mints /\ d2.audited_mints[i] = d.audited_mints[i]

BurnLogExtends(d, d2) ==
  \A i \in DOMAIN d.audited_burns :
    i \in DOMAIN d2.audited_burns /\ d2.audited_burns[i] = d.audited_burns[i]

\* An attempt keeps what the logs hold.
LEMMA TriesExtend ==
  ASSUME NEW d \in Databases, NEW d2, TriesMint(d, d2) \/ TriesBurn(d, d2)
  PROVE  MintLogExtends(d, d2) /\ BurnLogExtends(d, d2)
<1>1. /\ d.audited_mints \in Seq(AuditedMintRows) /\ d.audited_burns \in Seq(AuditedBurnRows)
  BY DEF Databases
<1>2. CASE TriesMint(d, d2)
  <2>1. d2.audited_burns = d.audited_burns
    BY <1>2, TriesKeep DEF Keeps, AllBut, Fields
  <2>2. \/ d2.audited_mints = d.audited_mints
        \/ \E row \in AuditedMintRows : d2.audited_mints = Append(d.audited_mints, row)
    BY <1>2 DEF TriesMint, Counted, Keeps, AllBut, Fields
  <2> QED
    BY <1>1, <2>1, <2>2 DEF MintLogExtends, BurnLogExtends
<1>3. CASE TriesBurn(d, d2)
  <2>1. d2.audited_mints = d.audited_mints
    BY <1>3, TriesKeep DEF Keeps, AllBut, Fields
  <2>2. \/ d2.audited_burns = d.audited_burns
        \/ \E row \in AuditedBurnRows : d2.audited_burns = Append(d.audited_burns, row)
    BY <1>3 DEF TriesBurn, Counted, Keeps, AllBut, Fields
  <2> QED
    BY <1>1, <2>1, <2>2 DEF MintLogExtends, BurnLogExtends
<1> QED
  BY <1>2, <1>3

\* A pair stays in a log that extends.
LEMMA PairsStay ==
  ASSUME NEW d, NEW d2
  PROVE  /\ MintLogExtends(d, d2) =>
              \A m, e : MintPaired(d, m, e) => MintPaired(d2, m, e)
         /\ BurnLogExtends(d, d2) =>
              \A b, w : BurnPaired(d, b, w) => BurnPaired(d2, b, w)
  BY DEF MintLogExtends, BurnLogExtends, MintPaired, BurnPaired

\* A write that adds no row misses no pair.
LEMMA MatchedFrame ==
  ASSUME NEW d, NEW d2, NEW open
  PROVE  /\ /\ Keeps(d, d2, {"mint_txs", "deposits"})
            /\ MintLogExtends(d, d2) /\ MintsMatched(d, open)
            => MintsMatched(d2, open)
         /\ /\ Keeps(d, d2, {"burn_tx_outs", "withdrawals"})
            /\ BurnLogExtends(d, d2) /\ BurnsMatched(d, open)
            => BurnsMatched(d2, open)
<1>1. ASSUME Keeps(d, d2, {"mint_txs", "deposits"}), MintLogExtends(d, d2), MintsMatched(d, open)
      PROVE  MintsMatched(d2, open)
  <2>1. d2.mint_txs = d.mint_txs /\ d2.deposits = d.deposits
    BY <1>1 DEF Keeps
  <2> QED
    BY <1>1, <2>1, PairsStay DEF MintsMatched
<1>2. ASSUME Keeps(d, d2, {"burn_tx_outs", "withdrawals"}), BurnLogExtends(d, d2),
             BurnsMatched(d, open)
      PROVE  BurnsMatched(d2, open)
  <2>1. d2.burn_tx_outs = d.burn_tx_outs /\ d2.withdrawals = d.withdrawals
    BY <1>2 DEF Keeps
  <2>2. \A w : HasNoRival(d2, w) => HasNoRival(d, w)
    BY <2>1 DEF HasNoRival
  <2> QED
    BY <1>2, <2>1, <2>2, PairsStay DEF BurnsMatched
<1> QED
  BY <1>1, <1>2

\* Storing a mint, or a burn, of a block opens that row.
LEMMA MatchedOpens ==
  ASSUME NEW d, NEW d2, NEW n, NEW open
  PROVE  /\ \A tx : StoresMint(d, d2, n, tx) /\ MintsMatched(d, open) =>
              MintsMatched(d2, open \cup {tx.nonce})
         /\ \A o : StoresBurn(d, d2, n, o) /\ BurnsMatched(d, open) =>
              BurnsMatched(d2, open \cup {o.public_key})
<1>1. ASSUME NEW tx, StoresMint(d, d2, n, tx), MintsMatched(d, open)
      PROVE  MintsMatched(d2, open \cup {tx.nonce})
  <2>1. PICK m : m.nonce = tx.nonce /\ d2.mint_txs = d.mint_txs \cup {m}
    BY <1>1 DEF StoresMint
  <2>2. d2.deposits = d.deposits /\ d2.audited_mints = d.audited_mints
    BY <1>1 DEF StoresMint, Keeps, AllBut, Fields
  <2>3. \A y, e : MintPaired(d, y, e) => MintPaired(d2, y, e)
    BY <2>2 DEF MintPaired
  <2> QED
    BY <1>1, <2>1, <2>2, <2>3 DEF MintsMatched
<1>2. ASSUME NEW o, StoresBurn(d, d2, n, o), BurnsMatched(d, open)
      PROVE  BurnsMatched(d2, open \cup {o.public_key})
  <2>1. PICK b : b.public_key = o.public_key /\ d2.burn_tx_outs = d.burn_tx_outs \cup {b}
    BY <1>2 DEF StoresBurn, burn_tx_out_row
  <2>2. d2.withdrawals = d.withdrawals /\ d2.audited_burns = d.audited_burns
    BY <1>2 DEF StoresBurn, Keeps, AllBut, Fields
  <2>3. \A y, w : BurnPaired(d, y, w) => BurnPaired(d2, y, w)
    BY <2>2 DEF BurnPaired
  <2>4. \A w : HasNoRival(d2, w) => HasNoRival(d, w)
    BY <2>2 DEF HasNoRival
  <2> QED
    BY <1>2, <2>1, <2>2, <2>3, <2>4 DEF BurnsMatched
<1> QED
  BY <1>1, <1>2

\* Auditing a stored mint closes it: its search misses no deposit.
LEMMA AuditMintCloses ==
  ASSUME UniqueSafes, NEW d, Searchable(d), NEW tx \in CoreMintTxs, MintStored(d, tx),
         NEW d2 \in try_match_mint_with_deposit(d, tx), NEW open,
         MintsMatched(d, open \cup {tx.nonce})
  PROVE  MintsMatched(d2, open)
<1>1. d \in Databases /\ TriesMint(d, d2)
  BY MintTries DEF Searchable
<1>2. d2.mint_txs = d.mint_txs /\ d2.deposits = d.deposits /\ MintLogExtends(d, d2)
  BY <1>1, TriesKeep, TriesExtend DEF Keeps, AllBut, Fields
<1> SUFFICES ASSUME NEW m \in d.mint_txs, NEW e \in d.deposits, Backs(e, m), m.nonce \notin open
             PROVE  MintPaired(d2, m, e)
  BY <1>2 DEF MintsMatched
<1>3. CASE m.nonce # tx.nonce
  BY <1>2, <1>3, PairsStay DEF MintsMatched
<1>4. CASE m.nonce = tx.nonce
  <2>1. m.amount = tx.amount /\ m.token_id = tx.token_id
    BY <1>4 DEF MintStored, Searchable, UniqueRows
  <2>2. Backs(e, tx)
    BY <1>4, <2>1 DEF Backs
  <2>3. MintPaired(d, tx, e) \/ MintPaired(d2, tx, e)
    BY <2>2, MintFindsDeposit
  <2>4. MintPaired(d2, tx, e)
    BY <1>2, <2>3, PairsStay
  <2> QED
    BY <1>4, <2>4 DEF MintPaired
<1> QED
  BY <1>3, <1>4

\* Auditing a stored burn closes it.
LEMMA AuditBurnCloses ==
  ASSUME UniqueSafes, NEW d, Searchable(d), NEW o \in TxOuts, BurnStored(d, o),
         NEW d2 \in try_match_burn_with_withdrawal(d, o), NEW open,
         BurnsMatched(d, open \cup {o.public_key})
  PROVE  BurnsMatched(d2, open)
<1>1. d \in Databases /\ TriesBurn(d, d2)
  BY BurnTries DEF Searchable
<1>2. d2.burn_tx_outs = d.burn_tx_outs /\ d2.withdrawals = d.withdrawals /\ BurnLogExtends(d, d2)
  BY <1>1, TriesKeep, TriesExtend DEF Keeps, AllBut, Fields
<1> SUFFICES ASSUME NEW b \in d.burn_tx_outs, NEW w \in d.withdrawals,
                    Redeems(w, b), HasNoRival(d2, w), b.public_key \notin open
             PROVE  BurnPaired(d2, b, w)
  BY <1>2 DEF BurnsMatched
<1>3. HasNoRival(d, w)
  BY <1>2 DEF HasNoRival
<1>4. CASE b.public_key # o.public_key
  BY <1>2, <1>3, <1>4, PairsStay DEF BurnsMatched
<1>5. CASE b.public_key = o.public_key
  <2>1. b.amount = o.amount /\ b.token_id = o.token_id
    BY <1>5 DEF BurnStored, Searchable, UniqueRows
  <2>2. Redeems(w, o)
    BY <1>5, <2>1 DEF Redeems
  <2>3. BurnPaired(d, o, w) \/ BurnPaired(d2, o, w)
    BY <1>3, <2>2, BurnFindsWithdrawal
  <2>4. BurnPaired(d2, o, w)
    BY <1>2, <2>3, PairsStay
  <2> QED
    BY <1>5, <2>4 DEF BurnPaired
<1> QED
  BY <1>4, <1>5

\* A deposit is stored and searched for in one statement of the model, so it is
\* never open.
LEMMA DepositCloses ==
  ASSUME UniqueSafes, NEW d, Searchable(d), NEW k \in DOMAIN Config, NEW e \in DepositRows,
         e.safe_addr = Config[k].safe_addr, NEW d2, StoresDeposit(d, d2, e, Config[k]),
         MintsMatched(d, {})
  PROVE  MintsMatched(d2, {})
<1>1. PICK d1 \in Databases :
        /\ Keeps(d, d1, AllBut({"deposits"})) /\ d1.deposits = d.deposits \cup {e}
        /\ d2 \in try_match_deposit_with_mint(d1, e, Config[k])
  BY DEF StoresDeposit
<1>2. TriesMint(d1, d2)
  BY <1>1, MintTries
<1>3. MintLogExtends(d1, d2) /\ d2.mint_txs = d1.mint_txs /\ d2.deposits = d1.deposits
  BY <1>1, <1>2, TriesExtend, TriesKeep DEF Keeps, AllBut, Fields
<1>4. d1.mint_txs = d.mint_txs /\ d1.audited_mints = d.audited_mints
  BY <1>1 DEF Keeps, AllBut, Fields
<1> SUFFICES ASSUME NEW m \in d.mint_txs, NEW f \in d.deposits \cup {e}, Backs(f, m)
             PROVE  MintPaired(d2, m, f)
  BY <1>1, <1>3, <1>4 DEF MintsMatched
<1>5. CASE f \in d.deposits
  <2>1. MintPaired(d, m, f)
    BY <1>5 DEF MintsMatched
  <2>2. MintPaired(d1, m, f)
    BY <1>4, <2>1 DEF MintPaired
  <2> QED
    BY <1>3, <2>2, PairsStay
<1>6. CASE f = e
  <2>1. ~DepositExists(d, e.eth_tx_hash)
    BY DEF StoresDeposit
  <2> QED
    BY <1>1, <1>6, <2>1, DepositFindsMint
<1> QED
  BY <1>5, <1>6

\* Nor is a withdrawal.
LEMMA WithdrawalCloses ==
  ASSUME UniqueSafes, NEW d, Searchable(d), NEW k \in DOMAIN Config, NEW w \in WithdrawalRows,
         w.safe_addr = Config[k].safe_addr, NEW d2, StoresWithdrawal(d, d2, w, Config[k]),
         BurnsMatched(d, {})
  PROVE  BurnsMatched(d2, {})
<1>1. PICK d1 \in Databases :
        /\ Keeps(d, d1, AllBut({"withdrawals"})) /\ d1.withdrawals = d.withdrawals \cup {w}
        /\ d2 \in try_match_withdrawal_with_burn(d1, w, Config[k])
  BY DEF StoresWithdrawal
<1>2. TriesBurn(d1, d2)
  BY <1>1, BurnTries
<1>3. BurnLogExtends(d1, d2) /\ d2.burn_tx_outs = d1.burn_tx_outs /\ d2.withdrawals = d1.withdrawals
  BY <1>1, <1>2, TriesExtend, TriesKeep DEF Keeps, AllBut, Fields
<1>4. d1.burn_tx_outs = d.burn_tx_outs /\ d1.audited_burns = d.audited_burns
  BY <1>1 DEF Keeps, AllBut, Fields
<1>5. \A y \in d.withdrawals : y.eth_tx_hash # w.eth_tx_hash
  BY DEF StoresWithdrawal, WithdrawalExists
<1> SUFFICES ASSUME NEW b \in d.burn_tx_outs, NEW v \in d.withdrawals \cup {w},
                    Redeems(v, b), HasNoRival(d2, v)
             PROVE  BurnPaired(d2, b, v)
  BY <1>1, <1>3, <1>4 DEF BurnsMatched
<1>6. CASE v \in d.withdrawals
  <2>1. HasNoRival(d, v)
    BY <1>1, <1>3 DEF HasNoRival
  <2>2. BurnPaired(d, b, v)
    BY <1>6, <2>1 DEF BurnsMatched
  <2>3. BurnPaired(d1, b, v)
    BY <1>4, <2>2 DEF BurnPaired
  <2> QED
    BY <1>3, <2>3, PairsStay
<1>7. CASE v = w
  <2>1. \A y \in d.withdrawals : y.public_key # w.public_key
    BY <1>1, <1>3, <1>5, <1>7 DEF HasNoRival
  <2>2. ~WithdrawalExists(d, w.eth_tx_hash)
    BY DEF StoresWithdrawal
  <2> QED
    BY <1>1, <1>7, <2>1, <2>2, WithdrawalFindsBurn
<1> QED
  BY <1>6, <1>7

----------------------------------------------------------------------------
(* The open rows.                                                          *)

\* Storing a mint opens it, auditing it closes it, and nothing else changes what
\* is open, as long as the auditor was given safes to audit.
LEMMA OpenMintsMove ==
  ASSUME AuditsGnosis, NEW s, s.pos \in Nat \ {0}, NEW s2, NEW d, NEW d2,
         NEW c \in BlockContents, ScanMove(s, s2, d, d2, c)
  PROVE  /\ MintMove(s, s2, d, d2, c) =>
              OpenMints(s2, c) = OpenMints(s, c) \cup {s.pos} /\ s.pos \notin OpenMints(s, c)
         /\ AuditMintMove(s, s2, d, d2, c) =>
              OpenMints(s, c) = OpenMints(s2, c) \cup {s.pos} /\ s.pos \notin OpenMints(s2, c)
         /\ ~MintMove(s, s2, d, d2, c) /\ ~AuditMintMove(s, s2, d, d2, c) =>
              OpenMints(s2, c) = OpenMints(s, c)
<1>1. DOMAIN c.mint_txs \subseteq Nat \ {0}
  BY DEF BlockContents
<1>2. ASSUME MintMove(s, s2, d, d2, c)
      PROVE  OpenMints(s2, c) = OpenMints(s, c) \cup {s.pos} /\ s.pos \notin OpenMints(s, c)
  <2>1. s.pc = "mint_txs" /\ s2.pc = "mint_txs" /\ s2.pos = s.pos + 1 /\ s.pos \in DOMAIN c.mint_txs
    BY <1>2 DEF MintMove, ScanGoes
  <2> QED
    BY <1>1, <2>1 DEF OpenMints
<1>3. ASSUME AuditMintMove(s, s2, d, d2, c)
      PROVE  OpenMints(s, c) = OpenMints(s2, c) \cup {s.pos} /\ s.pos \notin OpenMints(s2, c)
  <2>1. /\ s.pc = "audit_mints" /\ s2.pc = "audit_mints" /\ s2.pos = s.pos + 1
        /\ s.pos \in DOMAIN c.mint_txs
    BY <1>3 DEF AuditMintMove, ScanGoes
  <2> QED
    BY <1>1, <2>1 DEF OpenMints
<1>4. CASE MintsDone(s, s2, d, d2, c)
  <2>1. s.pc = "mint_txs" /\ s2.pc = "burns" /\ \A i \in DOMAIN c.mint_txs : i < s.pos
    BY <1>4 DEF MintsDone, ScanGoes
  <2>2. OpenMints(s2, c) = OpenMints(s, c)
    BY <2>1 DEF OpenMints
  <2> QED
    BY <1>2, <1>3, <2>2
<1>5. CASE FinishMove(s, s2, d, d2, c)
  <2>1. s.pc = "burns" /\ s2.pc = "audit_mints" /\ s2.pos = 1
    BY <1>5 DEF FinishMove, ScanGoes
  <2>2. OpenMints(s2, c) = OpenMints(s, c)
    BY <1>1, <2>1 DEF OpenMints
  <2> QED
    BY <1>2, <1>3, <2>2
<1>6. CASE AuditMintsEnd(s, s2, d, d2, c)
  <2>1. s.pc = "audit_mints" /\ s2.pc = "audit_burns" /\ \A i \in DOMAIN c.mint_txs : i < s.pos
    BY <1>6 DEF AuditMintsEnd, ScanGoes
  <2>2. OpenMints(s2, c) = OpenMints(s, c)
    BY <1>1, <2>1 DEF OpenMints
  <2> QED
    BY <1>2, <1>3, <2>2
<1>7. CASE SkipMove(s, s2, d, d2, c) \/ BurnMove(s, s2, d, d2, c)
  <2>1. s2.pc = s.pc /\ s.pc \in {"burns", "audit_burns"}
    BY <1>7 DEF SkipMove, BurnMove, ScanGoes
  <2>2. OpenMints(s2, c) = OpenMints(s, c)
    BY <2>1 DEF OpenMints
  <2> QED
    BY <1>2, <1>3, <2>2
<1>8. CASE \/ CheckMove(s, s2, d, d2) \/ ConfigMove(s, s2, d, d2, c) \/ ConfigsDone(s, s2, d, d2, c)
           \/ AuditBurnMove(s, s2, d, d2, c) \/ AuditBurnsEnd(s, s2, d, d2, c)
  <2>1. /\ s.pc \in {"check_index", "mint_config_txs", "audit_burns"}
        /\ \/ s2.pc \in {"mint_config_txs", "audit_burns", "commit"}
           \/ s2.pc = "mint_txs" /\ s2.pos = 1
    BY <1>8 DEF CheckMove, ConfigMove, ConfigsDone, AuditBurnMove, AuditBurnsEnd, ScanGoes
  <2>2. OpenMints(s2, c) = OpenMints(s, c)
    BY <1>1, <2>1 DEF OpenMints
  <2> QED
    BY <1>2, <1>3, <2>2
<1> QED
  BY <1>2, <1>3, <1>4, <1>5, <1>6, <1>7, <1>8 DEF ScanMove

\* The same for the burns.
LEMMA OpenBurnsMove ==
  ASSUME AuditsGnosis, NEW s, s.pos \in Nat \ {0}, NEW s2, NEW d, NEW d2,
         NEW c \in BlockContents, ScanMove(s, s2, d, d2, c)
  PROVE  /\ BurnMove(s, s2, d, d2, c) =>
              OpenBurns(s2, c) = OpenBurns(s, c) \cup {s.pos} /\ s.pos \notin OpenBurns(s, c)
         /\ AuditBurnMove(s, s2, d, d2, c) =>
              OpenBurns(s, c) = OpenBurns(s2, c) \cup {s.pos} /\ s.pos \notin OpenBurns(s2, c)
         /\ ~BurnMove(s, s2, d, d2, c) /\ ~AuditBurnMove(s, s2, d, d2, c) =>
              OpenBurns(s2, c) = OpenBurns(s, c)
<1>1. DOMAIN c.outputs \subseteq Nat \ {0}
  BY DEF BlockContents
<1>2. ASSUME BurnMove(s, s2, d, d2, c)
      PROVE  OpenBurns(s2, c) = OpenBurns(s, c) \cup {s.pos} /\ s.pos \notin OpenBurns(s, c)
  <2>1. /\ s.pc = "burns" /\ s2.pc = "burns" /\ s2.pos = s.pos + 1
        /\ s.pos \in DOMAIN c.outputs /\ c.outputs[s.pos].burn
    BY <1>2 DEF BurnMove, ScanGoes
  <2> QED
    BY <1>1, <2>1 DEF OpenBurns
<1>3. ASSUME AuditBurnMove(s, s2, d, d2, c)
      PROVE  OpenBurns(s, c) = OpenBurns(s2, c) \cup {s.pos} /\ s.pos \notin OpenBurns(s2, c)
  <2>1. /\ s.pc = "audit_burns" /\ s2.pc = "audit_burns" /\ s2.pos = s.pos + 1
        /\ s.pos \in DOMAIN c.outputs /\ c.outputs[s.pos].burn
    BY <1>3 DEF AuditBurnMove, ScanGoes
  <2> QED
    BY <1>1, <2>1 DEF OpenBurns
<1>4. CASE SkipMove(s, s2, d, d2, c)
  <2>1. /\ s.pc \in {"burns", "audit_burns"} /\ s2.pc = s.pc /\ s2.pos = s.pos + 1
        /\ ~c.outputs[s.pos].burn
    BY <1>4 DEF SkipMove, ScanGoes
  <2>2. \A i \in DOMAIN c.outputs : c.outputs[i].burn => (i < s2.pos <=> i < s.pos)
    BY <1>1, <2>1
  <2>3. \A i \in DOMAIN c.outputs : c.outputs[i].burn => (i >= s2.pos <=> i >= s.pos)
    BY <1>1, <2>1
  <2>4. OpenBurns(s2, c) = OpenBurns(s, c)
    BY <2>1, <2>2, <2>3 DEF OpenBurns
  <2> QED
    BY <1>2, <1>3, <2>4
<1>5. CASE FinishMove(s, s2, d, d2, c)
  <2>1. s.pc = "burns" /\ s2.pc = "audit_mints" /\ \A i \in DOMAIN c.outputs : i < s.pos
    BY <1>5 DEF FinishMove, ScanGoes
  <2>2. OpenBurns(s2, c) = OpenBurns(s, c)
    BY <2>1 DEF OpenBurns
  <2> QED
    BY <1>2, <1>3, <2>2
<1>6. CASE AuditMintsEnd(s, s2, d, d2, c)
  <2>1. s.pc = "audit_mints" /\ s2.pc = "audit_burns" /\ s2.pos = 1
    BY <1>6 DEF AuditMintsEnd, ScanGoes
  <2>2. OpenBurns(s2, c) = OpenBurns(s, c)
    BY <1>1, <2>1 DEF OpenBurns
  <2> QED
    BY <1>2, <1>3, <2>2
<1>7. CASE AuditBurnsEnd(s, s2, d, d2, c)
  <2>1. s.pc = "audit_burns" /\ s2.pc = "commit" /\ \A i \in DOMAIN c.outputs : i < s.pos
    BY <1>7 DEF AuditBurnsEnd, ScanGoes
  <2>2. OpenBurns(s2, c) = OpenBurns(s, c)
    BY <1>1, <2>1 DEF OpenBurns
  <2> QED
    BY <1>2, <1>3, <2>2
<1>8. CASE AuditMintMove(s, s2, d, d2, c)
  <2>1. s.pc = "audit_mints" /\ s2.pc = "audit_mints"
    BY <1>8 DEF AuditMintMove, ScanGoes
  <2>2. OpenBurns(s2, c) = OpenBurns(s, c)
    BY <2>1 DEF OpenBurns
  <2> QED
    BY <1>2, <1>3, <2>2
<1>9. CASE \/ CheckMove(s, s2, d, d2) \/ ConfigMove(s, s2, d, d2, c) \/ ConfigsDone(s, s2, d, d2, c)
           \/ MintMove(s, s2, d, d2, c) \/ MintsDone(s, s2, d, d2, c)
  <2>1. /\ s.pc \in {"check_index", "mint_config_txs", "mint_txs"}
        /\ \/ s2.pc \in {"mint_config_txs", "mint_txs"}
           \/ s2.pc = "burns" /\ s2.pos = 1
    BY <1>9 DEF CheckMove, ConfigMove, ConfigsDone, MintMove, MintsDone, ScanGoes
  <2>2. OpenBurns(s2, c) = OpenBurns(s, c)
    BY <1>1, <2>1 DEF OpenBurns
  <2> QED
    BY <1>2, <1>3, <2>2
<1> QED
  BY <1>2, <1>3, <1>4, <1>5, <1>6, <1>7, <1>8, <1>9 DEF ScanMove

\* Nothing is open when a transaction begins and when it commits.
LEMMA NothingOpen ==
  ASSUME NEW s, NEW c, s.pc \in {"check_index", "commit"}
  PROVE  /\ OpenMints(s, c) = {} /\ OpenBurns(s, c) = {}
         /\ OpenNonces(s, c) = {} /\ OpenKeys(s, c) = {}
  BY DEF OpenMints, OpenBurns, OpenNonces, OpenKeys

----------------------------------------------------------------------------
(* Moves miss no pair.                                                     *)

\* What a move of the main thread does to the matched pairs.
LEMMA ScanMoveMatched ==
  ASSUME AuditsGnosis, UniqueSafes, NEW s, s.pos \in Nat \ {0}, NEW s2, NEW d, Searchable(d),
         NEW d2, NEW c \in BlockContents, ScanMove(s, s2, d, d2, c),
         MintsMatched(d, OpenNonces(s, c)), BurnsMatched(d, OpenKeys(s, c))
  PROVE  MintsMatched(d2, OpenNonces(s2, c)) /\ BurnsMatched(d2, OpenKeys(s2, c))
<1>1. d \in Databases /\ c.mint_txs \in Seq(CoreMintTxs) /\ c.outputs \in Seq(TxOuts)
  BY DEF Searchable, BlockContents
<1>2. ASSUME MintMove(s, s2, d, d2, c)
      PROVE  /\ MintsMatched(d2, OpenNonces(s2, c))
             /\ Keeps(d, d2, {"burn_tx_outs", "withdrawals"}) /\ BurnLogExtends(d, d2)
  <2>1. PICK tx : tx = c.mint_txs[s.pos] /\ StoresMint(d, d2, s.block_index, tx)
    BY <1>2 DEF MintMove
  <2>2. OpenNonces(s2, c) = OpenNonces(s, c) \cup {tx.nonce}
    BY <1>2, <2>1, OpenMintsMove DEF OpenNonces
  <2>3. Keeps(d, d2, {"burn_tx_outs", "withdrawals", "audited_burns"})
    BY <2>1 DEF StoresMint, Keeps, AllBut, Fields
  <2>4. MintsMatched(d2, OpenNonces(s, c) \cup {tx.nonce})
    BY <2>1, MatchedOpens
  <2>5. Keeps(d, d2, {"burn_tx_outs", "withdrawals"}) /\ BurnLogExtends(d, d2)
    BY <2>3 DEF Keeps, BurnLogExtends
  <2> QED
    BY <2>2, <2>4, <2>5
<1>3. ASSUME BurnMove(s, s2, d, d2, c)
      PROVE  /\ BurnsMatched(d2, OpenKeys(s2, c))
             /\ Keeps(d, d2, {"mint_txs", "deposits"}) /\ MintLogExtends(d, d2)
  <2>1. PICK o : o = c.outputs[s.pos] /\ StoresBurn(d, d2, s.block_index, o)
    BY <1>3 DEF BurnMove
  <2>2. OpenKeys(s2, c) = OpenKeys(s, c) \cup {o.public_key}
    BY <1>3, <2>1, OpenBurnsMove DEF OpenKeys
  <2>3. Keeps(d, d2, {"mint_txs", "deposits", "audited_mints"})
    BY <2>1 DEF StoresBurn, Keeps, AllBut, Fields
  <2>4. BurnsMatched(d2, OpenKeys(s, c) \cup {o.public_key})
    BY <2>1, MatchedOpens
  <2>5. Keeps(d, d2, {"mint_txs", "deposits"}) /\ MintLogExtends(d, d2)
    BY <2>3 DEF Keeps, MintLogExtends
  <2> QED
    BY <2>2, <2>4, <2>5
<1>4. ASSUME AuditMintMove(s, s2, d, d2, c)
      PROVE  /\ MintsMatched(d2, OpenNonces(s2, c))
             /\ Keeps(d, d2, {"burn_tx_outs", "withdrawals"}) /\ BurnLogExtends(d, d2)
  <2>1. PICK tx \in CoreMintTxs :
          /\ tx = c.mint_txs[s.pos] /\ MintStored(d, tx)
          /\ d2 \in try_match_mint_with_deposit(d, tx)
    BY <1>1, <1>4 DEF AuditMintMove
  <2>2. OpenNonces(s, c) = OpenNonces(s2, c) \cup {tx.nonce}
    BY <1>4, <2>1, OpenMintsMove DEF OpenNonces
  <2>3. MintsMatched(d2, OpenNonces(s2, c))
    BY <2>1, <2>2, AuditMintCloses
  <2>4. TriesMint(d, d2)
    BY <1>1, <2>1, MintTries
  <2> QED
    BY <1>1, <2>3, <2>4, TriesKeep, TriesExtend DEF Keeps, AllBut, Fields
<1>5. ASSUME AuditBurnMove(s, s2, d, d2, c)
      PROVE  /\ BurnsMatched(d2, OpenKeys(s2, c))
             /\ Keeps(d, d2, {"mint_txs", "deposits"}) /\ MintLogExtends(d, d2)
  <2>1. PICK o \in TxOuts :
          /\ o = c.outputs[s.pos] /\ BurnStored(d, o)
          /\ d2 \in try_match_burn_with_withdrawal(d, o)
    BY <1>1, <1>5 DEF AuditBurnMove
  <2>2. OpenKeys(s, c) = OpenKeys(s2, c) \cup {o.public_key}
    BY <1>5, <2>1, OpenBurnsMove DEF OpenKeys
  <2>3. BurnsMatched(d2, OpenKeys(s2, c))
    BY <2>1, <2>2, AuditBurnCloses
  <2>4. TriesBurn(d, d2)
    BY <1>1, <2>1, BurnTries
  <2> QED
    BY <1>1, <2>3, <2>4, TriesKeep, TriesExtend DEF Keeps, AllBut, Fields
<1>6. ~MintMove(s, s2, d, d2, c) /\ ~AuditMintMove(s, s2, d, d2, c) =>
        OpenNonces(s2, c) = OpenNonces(s, c)
  BY OpenMintsMove DEF OpenNonces
<1>7. ~BurnMove(s, s2, d, d2, c) /\ ~AuditBurnMove(s, s2, d, d2, c) =>
        OpenKeys(s2, c) = OpenKeys(s, c)
  BY OpenBurnsMove DEF OpenKeys
<1>8. CASE MintMove(s, s2, d, d2, c) \/ AuditMintMove(s, s2, d, d2, c)
  <2>1. OpenKeys(s2, c) = OpenKeys(s, c)
    BY <1>7, <1>8 DEF MintMove, AuditMintMove, BurnMove, AuditBurnMove
  <2> QED
    BY <1>2, <1>4, <1>8, <2>1, MatchedFrame
<1>9. CASE BurnMove(s, s2, d, d2, c) \/ AuditBurnMove(s, s2, d, d2, c)
  <2>1. OpenNonces(s2, c) = OpenNonces(s, c)
    BY <1>6, <1>9 DEF MintMove, AuditMintMove, BurnMove, AuditBurnMove
  <2> QED
    BY <1>3, <1>5, <1>9, <2>1, MatchedFrame
<1>10. CASE ~(\/ MintMove(s, s2, d, d2, c) \/ AuditMintMove(s, s2, d, d2, c)
              \/ BurnMove(s, s2, d, d2, c) \/ AuditBurnMove(s, s2, d, d2, c))
  <2>1. /\ Keeps(d, d2, {"mint_txs", "deposits", "audited_mints"})
        /\ Keeps(d, d2, {"burn_tx_outs", "withdrawals", "audited_burns"})
    BY <1>10 DEF ScanMove, CheckMove, ConfigMove, ConfigsDone, MintsDone, SkipMove, FinishMove,
                 AuditMintsEnd, AuditBurnsEnd, StoresConfig, FinishesBlock, Keeps, AllBut, Fields
  <2>2. /\ Keeps(d, d2, {"mint_txs", "deposits"}) /\ MintLogExtends(d, d2)
        /\ Keeps(d, d2, {"burn_tx_outs", "withdrawals"}) /\ BurnLogExtends(d, d2)
    BY <2>1 DEF Keeps, MintLogExtends, BurnLogExtends
  <2> QED
    BY <1>6, <1>7, <1>10, <2>2, MatchedFrame
<1> QED
  BY <1>8, <1>9, <1>10

\* What a move of a safe thread does to the matched pairs.
LEMMA WorkMoveMatched ==
  ASSUME UniqueSafes, NEW s, NEW s2, NEW d, Searchable(d), NEW d2, NEW x,
         NEW k \in DOMAIN Config, WorkMove(s, s2, d, d2, x, Config[k]),
         MintsMatched(d, {}), BurnsMatched(d, {})
  PROVE  MintsMatched(d2, {}) /\ BurnsMatched(d2, {})
<1>1. CASE DepositMove(s, s2, d, d2, x, Config[k])
  <2>1. PICK e \in DepositRows :
          e.safe_addr = Config[k].safe_addr /\ StoresDeposit(d, d2, e, Config[k])
    BY <1>1 DEF DepositMove
  <2>2. Keeps(d, d2, {"burn_tx_outs", "withdrawals", "audited_burns"})
    BY <2>1, SafeStores DEF Keeps, AllBut, Fields
  <2>3. Keeps(d, d2, {"burn_tx_outs", "withdrawals"}) /\ BurnLogExtends(d, d2)
    BY <2>2 DEF Keeps, BurnLogExtends
  <2> QED
    BY <2>1, <2>3, DepositCloses, MatchedFrame
<1>2. CASE WithdrawalMove(s, s2, d, d2, x, Config[k])
  <2>1. PICK w \in WithdrawalRows :
          w.safe_addr = Config[k].safe_addr /\ StoresWithdrawal(d, d2, w, Config[k])
    BY <1>2 DEF WithdrawalMove
  <2>2. Keeps(d, d2, {"mint_txs", "deposits", "audited_mints"})
    BY <2>1, SafeStores DEF Keeps, AllBut, Fields
  <2>3. Keeps(d, d2, {"mint_txs", "deposits"}) /\ MintLogExtends(d, d2)
    BY <2>2 DEF Keeps, MintLogExtends
  <2> QED
    BY <2>1, <2>3, WithdrawalCloses, MatchedFrame
<1>3. CASE ~DepositMove(s, s2, d, d2, x, Config[k]) /\ ~WithdrawalMove(s, s2, d, d2, x, Config[k])
  <2>1. /\ Keeps(d, d2, {"mint_txs", "deposits", "audited_mints"})
        /\ Keeps(d, d2, {"burn_tx_outs", "withdrawals", "audited_burns"})
    BY <1>3 DEF WorkMove, SkipTxMove, InsertMove, ForeignTransferMove, UnknownTokenMove,
                TransfersEnd, NoWithdrawalMove, Counted, Keeps, AllBut, Fields
  <2>2. /\ Keeps(d, d2, {"mint_txs", "deposits"}) /\ MintLogExtends(d, d2)
        /\ Keeps(d, d2, {"burn_tx_outs", "withdrawals"}) /\ BurnLogExtends(d, d2)
    BY <2>1 DEF Keeps, MintLogExtends, BurnLogExtends
  <2> QED
    BY <2>2, MatchedFrame
<1> QED
  BY <1>1, <1>2, <1>3

----------------------------------------------------------------------------
(* The theorems.                                                           *)

\* A step of the auditor misses no pair.
LEMMA NextMatchInv ==
  ASSUME IInv, IInv', [Next]_vars, AuditsGnosis, Searchable(wdb), MatchInv
  PROVE  MatchInv'
<1> SUFFICES ASSUME UniqueSafes
             PROVE  /\ MintsMatched(db', {}) /\ BurnsMatched(db', {})
                    /\ \A p \in Procs : scan'[p].pc \in ScanInTx =>
                         /\ MintsMatched(wdb', OpenNonces(scan'[p], Contents(p)'))
                         /\ BurnsMatched(wdb', OpenKeys(scan'[p], Contents(p)'))
                    /\ \A t \in Workers : work'[t].pc \in WorkInTx =>
                         MintsMatched(wdb', {}) /\ BurnsMatched(wdb', {})
  BY DEF MatchInv, UniqueSafes, MintsMatched, BurnsMatched, OpenNonces, OpenKeys, OpenMints,
         OpenBurns, Backs, Redeems, MintPaired, BurnPaired, HasNoRival
<1>1. /\ MintsMatched(db, {}) /\ BurnsMatched(db, {})
      /\ \A p \in Procs : scan[p].pc \in ScanInTx =>
           /\ MintsMatched(wdb, OpenNonces(scan[p], Contents(p)))
           /\ BurnsMatched(wdb, OpenKeys(scan[p], Contents(p)))
      /\ \A t \in Workers : work[t].pc \in WorkInTx =>
           MintsMatched(wdb, {}) /\ BurnsMatched(wdb, {})
  BY DEF MatchInv
<1>2. CASE Idles
  BY <1>1, <1>2 DEF Idles
<1>3. CASE Begins
  <2>1. db' = db /\ wdb' = db
    BY <1>3 DEF Begins
  <2>2. ASSUME NEW p \in Procs, scan'[p].pc \in ScanInTx
        PROVE  /\ OpenNonces(scan'[p], Contents(p)') = {}
               /\ OpenKeys(scan'[p], Contents(p)') = {}
    <3>1. scan'[p].pc = "check_index"
      BY <1>3, <2>2 DEF Begins
    <3> QED
      BY <3>1, NothingOpen
  <2> QED
    BY <1>1, <2>1, <2>2
<1>4. CASE Commits
  <2>1. CASE \E p \in Procs : scan[p].pc = "commit"
    <3>1. PICK p \in Procs : scan[p].pc = "commit"
      BY <2>1
    <3>2. OpenNonces(scan[p], Contents(p)) = {} /\ OpenKeys(scan[p], Contents(p)) = {}
      BY <3>1, NothingOpen
    <3>3. MintsMatched(wdb, {}) /\ BurnsMatched(wdb, {})
      BY <1>1, <3>1, <3>2 DEF ScanInTx
    <3> QED
      BY <1>4, <3>3 DEF Commits
  <2>2. CASE \E t \in Workers : work[t].pc = "commit"
    BY <1>1, <1>4, <2>2 DEF Commits, WorkInTx
  <2> QED
    BY <1>4, <2>1, <2>2 DEF Commits
<1>5. CASE \E p \in Procs : ScanProceeds(p)
  <2>1. PICK p \in Procs : ScanProceeds(p)
    BY <1>5
  <2>2. Contents(p) \in BlockContents /\ scan[p].pos \in Nat \ {0}
    BY <2>1, ContentsType DEF ScanProceeds, ScanInTx
  <2>3. /\ MintsMatched(wdb', OpenNonces(scan'[p], Contents(p)))
        /\ BurnsMatched(wdb', OpenKeys(scan'[p], Contents(p)))
    BY <1>1, <2>1, <2>2, ScanMoveMatched DEF ScanProceeds
  <2> QED
    BY <1>1, <2>1, <2>3 DEF ScanProceeds
<1>6. CASE \E t \in Workers : WorkProceeds(t)
  <2>1. PICK t \in Workers : WorkProceeds(t)
    BY <1>6
  <2>2. MintsMatched(wdb', {}) /\ BurnsMatched(wdb', {})
    BY <1>1, <2>1, SafeOfThread, WorkMoveMatched DEF WorkProceeds
  <2> QED
    BY <1>1, <2>1, <2>2 DEF WorkProceeds
<1> QED
  BY <1>2, <1>3, <1>4, <1>5, <1>6, StepCases

\* Nothing is missed in any reachable state.
LEMMA MatchInvariance == Spec => [](AuditsGnosis => MatchInv)
<1>1. Init => (AuditsGnosis => MatchInv)
  BY DEF Init, StoreInit, LedgerInit, GnosisInit, EmptyDb, ScanAt, WorkAt, ScanInTx, WorkInTx,
         MatchInv, MintsMatched, BurnsMatched
<1>2. /\ IInv /\ IInv' /\ [Next]_vars /\ (LogInv(db) /\ LogInv(wdb))
      /\ (UniqueRows(db) /\ UniqueRows(wdb)) /\ (AuditsGnosis => MatchInv)
      => (AuditsGnosis => MatchInv)'
  <2> SUFFICES ASSUME IInv, IInv', [Next]_vars, LogInv(wdb), UniqueRows(wdb), AuditsGnosis,
                      MatchInv
               PROVE  MatchInv'
    OBVIOUS
  <2>1. Searchable(wdb)
    BY TypeFacts DEF Searchable
  <2> QED
    BY <2>1, NextMatchInv
<1> QED
  BY <1>1, <1>2, Invariance, LogsInvariance, RowsStayUnique, PTL DEF Spec

\* A mint and the deposit that backs it are matched with each other as soon as
\* both are committed, whichever came first, for any number of processes and
\* safes and any ledger and listings (try_match_mint_with_deposit,
\* try_match_deposit_with_mint).
THEOREM MintCompleteness == Spec => []BackedMintsAreMatched
<1>1. (AuditsGnosis => MatchInv) => BackedMintsAreMatched
  BY DEF MatchInv, BackedMintsAreMatched, MintsMatched, MintPaired
<1> QED
  BY <1>1, MatchInvariance, PTL

\* So are a burn and the withdrawal that redeems it, if no other withdrawal
\* names the burn (try_match_burn_with_withdrawal,
\* try_match_withdrawal_with_burn).
THEOREM BurnCompleteness == Spec => []RedeemedBurnsAreMatched
<1>1. (AuditsGnosis => MatchInv) => RedeemedBurnsAreMatched
  BY DEF MatchInv, RedeemedBurnsAreMatched, BurnsMatched, BurnPaired, HasNoRival
<1> QED
  BY <1>1, MatchInvariance, PTL

----------------------------------------------------------------------------
(* No matching attempt is lost or counted twice: the rows of both sides    *)
(* and the traces of the attempts balance in every reachable state.        *)
(*                                                                         *)
(* The argument: a deposit or a withdrawal is stored together with the one *)
(* trace its attempt leaves; a mint or a burn of a block is stored as an   *)
(* open row and closed by the one attempt that audits it; and nothing      *)
(* else adds a row or a trace.                                             *)

\* A write that adds neither a row nor a trace on the mint side, or on the burn
\* side.
MintQuiet(d, d2) ==
  /\ Keeps(d, d2, {"mint_txs", "deposits", "audited_mints"})
  /\ \A c \in MintErrors : d2.counters[c] = d.counters[c]

BurnQuiet(d, d2) ==
  /\ Keeps(d, d2, {"burn_tx_outs", "withdrawals", "audited_burns"})
  /\ \A c \in BurnErrors : d2.counters[c] = d.counters[c]

----------------------------------------------------------------------------
(* Traces.                                                                 *)

\* The traces of the mint side are a number, which a quiet write keeps.
LEMMA MintTracesKept ==
  ASSUME NEW d \in Databases, NEW d2
  PROVE  /\ MintTraces(d) \in Nat
         /\ MintQuiet(d, d2) => MintTraces(d2) = MintTraces(d)
<1> DEFINE n == Len(d.audited_mints)
<1>1. /\ d.audited_mints \in Seq(AuditedMintRows) /\ d.counters \in [CounterNames -> Nat]
  BY DEF Databases
<1>2. n \in Nat /\ MintErrors \subseteq CounterNames
  BY <1>1 DEF MintErrors, CounterNames
<1>3. /\ d.counters["num_mismatching_mints_and_deposits"] \in Nat
      /\ d.counters["num_unknown_ethereum_token_deposits"] \in Nat
      /\ d.counters["num_mints_to_unknown_safe"] \in Nat
      /\ d.counters["num_unexpected_errors_matching_deposits_to_mints"] \in Nat
      /\ d.counters["num_unexpected_errors_matching_mints_to_deposits"] \in Nat
  BY <1>1 DEF CounterNames
<1>4. MintTraces(d) \in Nat
  <2>1. MintTraces(d) =
          n
          + d.counters["num_mismatching_mints_and_deposits"]
          + d.counters["num_unknown_ethereum_token_deposits"]
          + d.counters["num_mints_to_unknown_safe"]
          + d.counters["num_unexpected_errors_matching_deposits_to_mints"]
          + d.counters["num_unexpected_errors_matching_mints_to_deposits"]
    BY DEF MintTraces
  <2> HIDE DEF n
  <2> QED
    BY ONLY <1>2, <1>3, <2>1
<1>5. MintQuiet(d, d2) => MintTraces(d2) = MintTraces(d)
  BY DEF MintQuiet, Keeps, MintTraces, MintErrors
<1> QED
  BY <1>4, <1>5

\* An attempt adds one trace.
LEMMA MintTriesTrace ==
  ASSUME NEW d \in Databases, NEW d2, TriesMint(d, d2)
  PROVE  MintTraces(d2) = MintTraces(d) + 1
<1> DEFINE n == Len(d.audited_mints)
<1> DEFINE n2 == Len(d2.audited_mints)
<1>1. /\ d.audited_mints \in Seq(AuditedMintRows) /\ d.counters \in [CounterNames -> Nat]
  BY DEF Databases
<1>2. n \in Nat /\ MintErrors \subseteq CounterNames
  BY <1>1 DEF MintErrors, CounterNames
<1>3. /\ d.counters["num_mismatching_mints_and_deposits"] \in Nat
      /\ d.counters["num_unknown_ethereum_token_deposits"] \in Nat
      /\ d.counters["num_mints_to_unknown_safe"] \in Nat
      /\ d.counters["num_unexpected_errors_matching_deposits_to_mints"] \in Nat
      /\ d.counters["num_unexpected_errors_matching_mints_to_deposits"] \in Nat
  BY <1>1 DEF CounterNames
<1>4. /\ MintTraces(d) =
           n
           + d.counters["num_mismatching_mints_and_deposits"]
           + d.counters["num_unknown_ethereum_token_deposits"]
           + d.counters["num_mints_to_unknown_safe"]
           + d.counters["num_unexpected_errors_matching_deposits_to_mints"]
           + d.counters["num_unexpected_errors_matching_mints_to_deposits"]
      /\ MintTraces(d2) =
           n2
           + d2.counters["num_mismatching_mints_and_deposits"]
           + d2.counters["num_unknown_ethereum_token_deposits"]
           + d2.counters["num_mints_to_unknown_safe"]
           + d2.counters["num_unexpected_errors_matching_deposits_to_mints"]
           + d2.counters["num_unexpected_errors_matching_mints_to_deposits"]
  BY DEF MintTraces
<1>5. CASE \E c \in MintErrors : Counted(d, d2, c)
  <2>1. PICK c \in MintErrors : Counted(d, d2, c)
    BY <1>5
  <2>2. n2 = n
    BY <2>1 DEF Counted, Keeps, AllBut, Fields
  <2>3. \A k \in MintErrors :
          d2.counters[k] = IF k = c THEN d.counters[k] + 1 ELSE d.counters[k]
    BY <1>2, <2>1 DEF Counted, CountsOne
  <2> HIDE DEF n, n2
  <2>4. \A k \in MintErrors \ {c} : d2.counters[k] = d.counters[k]
    BY <2>3
  <2>5. d2.counters[c] = d.counters[c] + 1
    BY <2>3
  <2>6. CASE c = "num_mismatching_mints_and_deposits"
    <3>1. /\ d2.counters["num_mismatching_mints_and_deposits"] = d.counters["num_mismatching_mints_and_deposits"] + 1
          /\ d2.counters["num_unknown_ethereum_token_deposits"] = d.counters["num_unknown_ethereum_token_deposits"]
          /\ d2.counters["num_mints_to_unknown_safe"] = d.counters["num_mints_to_unknown_safe"]
          /\ d2.counters["num_unexpected_errors_matching_deposits_to_mints"] = d.counters["num_unexpected_errors_matching_deposits_to_mints"]
          /\ d2.counters["num_unexpected_errors_matching_mints_to_deposits"] = d.counters["num_unexpected_errors_matching_mints_to_deposits"]
      BY <2>4, <2>5, <2>6 DEF MintErrors
    <3> QED
      BY ONLY <1>2, <1>3, <1>4, <2>2, <3>1
  <2>7. CASE c = "num_unknown_ethereum_token_deposits"
    <3>1. /\ d2.counters["num_unknown_ethereum_token_deposits"] = d.counters["num_unknown_ethereum_token_deposits"] + 1
          /\ d2.counters["num_mismatching_mints_and_deposits"] = d.counters["num_mismatching_mints_and_deposits"]
          /\ d2.counters["num_mints_to_unknown_safe"] = d.counters["num_mints_to_unknown_safe"]
          /\ d2.counters["num_unexpected_errors_matching_deposits_to_mints"] = d.counters["num_unexpected_errors_matching_deposits_to_mints"]
          /\ d2.counters["num_unexpected_errors_matching_mints_to_deposits"] = d.counters["num_unexpected_errors_matching_mints_to_deposits"]
      BY <2>4, <2>5, <2>7 DEF MintErrors
    <3> QED
      BY ONLY <1>2, <1>3, <1>4, <2>2, <3>1
  <2>8. CASE c = "num_mints_to_unknown_safe"
    <3>1. /\ d2.counters["num_mints_to_unknown_safe"] = d.counters["num_mints_to_unknown_safe"] + 1
          /\ d2.counters["num_mismatching_mints_and_deposits"] = d.counters["num_mismatching_mints_and_deposits"]
          /\ d2.counters["num_unknown_ethereum_token_deposits"] = d.counters["num_unknown_ethereum_token_deposits"]
          /\ d2.counters["num_unexpected_errors_matching_deposits_to_mints"] = d.counters["num_unexpected_errors_matching_deposits_to_mints"]
          /\ d2.counters["num_unexpected_errors_matching_mints_to_deposits"] = d.counters["num_unexpected_errors_matching_mints_to_deposits"]
      BY <2>4, <2>5, <2>8 DEF MintErrors
    <3> QED
      BY ONLY <1>2, <1>3, <1>4, <2>2, <3>1
  <2>9. CASE c = "num_unexpected_errors_matching_deposits_to_mints"
    <3>1. /\ d2.counters["num_unexpected_errors_matching_deposits_to_mints"] = d.counters["num_unexpected_errors_matching_deposits_to_mints"] + 1
          /\ d2.counters["num_mismatching_mints_and_deposits"] = d.counters["num_mismatching_mints_and_deposits"]
          /\ d2.counters["num_unknown_ethereum_token_deposits"] = d.counters["num_unknown_ethereum_token_deposits"]
          /\ d2.counters["num_mints_to_unknown_safe"] = d.counters["num_mints_to_unknown_safe"]
          /\ d2.counters["num_unexpected_errors_matching_mints_to_deposits"] = d.counters["num_unexpected_errors_matching_mints_to_deposits"]
      BY <2>4, <2>5, <2>9 DEF MintErrors
    <3> QED
      BY ONLY <1>2, <1>3, <1>4, <2>2, <3>1
  <2>10. CASE c = "num_unexpected_errors_matching_mints_to_deposits"
    <3>1. /\ d2.counters["num_unexpected_errors_matching_mints_to_deposits"] = d.counters["num_unexpected_errors_matching_mints_to_deposits"] + 1
          /\ d2.counters["num_mismatching_mints_and_deposits"] = d.counters["num_mismatching_mints_and_deposits"]
          /\ d2.counters["num_unknown_ethereum_token_deposits"] = d.counters["num_unknown_ethereum_token_deposits"]
          /\ d2.counters["num_mints_to_unknown_safe"] = d.counters["num_mints_to_unknown_safe"]
          /\ d2.counters["num_unexpected_errors_matching_deposits_to_mints"] = d.counters["num_unexpected_errors_matching_deposits_to_mints"]
      BY <2>4, <2>5, <2>10 DEF MintErrors
    <3> QED
      BY ONLY <1>2, <1>3, <1>4, <2>2, <3>1
  <2> QED
    BY <2>6, <2>7, <2>8, <2>9, <2>10 DEF MintErrors
<1>6. CASE /\ Keeps(d, d2, AllBut({"audited_mints"}))
           /\ \E row \in AuditedMintRows : d2.audited_mints = Append(d.audited_mints, row)
  <2>1. n2 = n + 1
    BY <1>1, <1>6
  <2>2. d2.counters = d.counters
    BY <1>6 DEF Keeps, AllBut, Fields
  <2> HIDE DEF n, n2
  <2> QED
    BY ONLY <1>2, <1>3, <1>4, <2>1, <2>2
<1> QED
  BY <1>5, <1>6 DEF TriesMint

----------------------------------------------------------------------------
(* The balance of the mint side.                                          *)

\* A quiet write keeps the balance.
LEMMA MintBalanceKept ==
  ASSUME NEW d \in Databases, NEW d2, MintQuiet(d, d2), NEW open, MintsAccounted(d, open)
  PROVE  MintsAccounted(d2, open)
<1>1. d2.mint_txs = d.mint_txs /\ d2.deposits = d.deposits
  BY DEF MintQuiet, Keeps
<1>2. MintTraces(d2) = MintTraces(d)
  BY MintTracesKept
<1> QED
  BY <1>1, <1>2 DEF MintsAccounted

\* Storing a mint opens a row.
LEMMA MintBalanceOpens ==
  ASSUME NEW d \in Databases, NEW d2, NEW n, NEW x, StoresMint(d, d2, n, x),
         NEW open, NEW i, IsFiniteSet(open), i \notin open, MintsAccounted(d, open)
  PROVE  MintsAccounted(d2, open \cup {i})
<1>1. PICK row : row.nonce = x.nonce /\ d2.mint_txs = d.mint_txs \cup {row}
  BY DEF StoresMint
<1>2. row \notin d.mint_txs
  BY <1>1 DEF StoresMint, MintTxExists
<1>3. d2.deposits = d.deposits /\ d2.audited_mints = d.audited_mints
  BY DEF StoresMint, Keeps, AllBut, Fields
<1>4. \A c \in MintErrors : d2.counters[c] = d.counters[c]
  BY DEF StoresMint, CountsOne, MintErrors, CounterNames
<1>5. MintTraces(d2) = MintTraces(d) /\ MintTraces(d) \in Nat
  BY <1>3, <1>4, MintTracesKept DEF MintTraces, MintErrors
<1>6. /\ IsFiniteSet(d2.mint_txs) /\ Cardinality(d2.mint_txs) = Cardinality(d.mint_txs) + 1
      /\ Cardinality(open \cup {i}) = Cardinality(open) + 1
  BY <1>1, <1>2, FS_AddElement DEF MintsAccounted
<1>7. /\ Cardinality(d.mint_txs) \in Nat /\ Cardinality(d.deposits) \in Nat
      /\ Cardinality(open) \in Nat
  BY FS_CardinalityType DEF MintsAccounted
<1> QED
  BY <1>3, <1>5, <1>6, <1>7 DEF MintsAccounted

\* Auditing it closes the row.
LEMMA MintBalanceCloses ==
  ASSUME NEW d \in Databases, NEW d2, TriesMint(d, d2),
         NEW open, NEW i, IsFiniteSet(open), i \notin open, MintsAccounted(d, open \cup {i})
  PROVE  MintsAccounted(d2, open)
<1>1. d2.mint_txs = d.mint_txs /\ d2.deposits = d.deposits
  BY TriesKeep DEF Keeps, AllBut, Fields
<1>2. MintTraces(d2) = MintTraces(d) + 1 /\ MintTraces(d) \in Nat
  BY MintTriesTrace, MintTracesKept
<1>3. Cardinality(open \cup {i}) = Cardinality(open) + 1
  BY FS_AddElement
<1>4. /\ Cardinality(d.mint_txs) \in Nat /\ Cardinality(d.deposits) \in Nat
      /\ Cardinality(open) \in Nat
  BY FS_CardinalityType DEF MintsAccounted
<1> QED
  BY <1>1, <1>2, <1>3, <1>4 DEF MintsAccounted

\* A deposit comes with its trace.
LEMMA DepositBalance ==
  ASSUME NEW d \in Databases, NEW d2, NEW k \in DOMAIN Config, NEW e \in DepositRows,
         StoresDeposit(d, d2, e, Config[k]), MintsAccounted(d, {})
  PROVE  MintsAccounted(d2, {})
<1>1. PICK d1 \in Databases :
        /\ Keeps(d, d1, AllBut({"deposits"})) /\ d1.deposits = d.deposits \cup {e}
        /\ d2 \in try_match_deposit_with_mint(d1, e, Config[k])
  BY DEF StoresDeposit
<1>2. TriesMint(d1, d2)
  BY <1>1, MintTries
<1>3. /\ d2.mint_txs = d1.mint_txs /\ d2.deposits = d1.deposits
      /\ MintTraces(d2) = MintTraces(d1) + 1
  BY <1>1, <1>2, TriesKeep, MintTriesTrace DEF Keeps, AllBut, Fields
<1>4. /\ d1.mint_txs = d.mint_txs /\ d1.audited_mints = d.audited_mints
      /\ d1.counters = d.counters
  BY <1>1 DEF Keeps, AllBut, Fields
<1>5. MintTraces(d1) = MintTraces(d) /\ MintTraces(d) \in Nat
  BY <1>4, MintTracesKept DEF MintTraces
<1>6. e \notin d.deposits
  BY DEF StoresDeposit, DepositExists
<1>7. IsFiniteSet(d1.deposits) /\ Cardinality(d1.deposits) = Cardinality(d.deposits) + 1
  BY <1>1, <1>6, FS_AddElement DEF MintsAccounted
<1>8. Cardinality(d.mint_txs) \in Nat /\ Cardinality(d.deposits) \in Nat
  BY FS_CardinalityType DEF MintsAccounted
<1>9. Cardinality({}) = 0
  BY FS_EmptySet
<1> QED
  BY <1>3, <1>4, <1>5, <1>7, <1>8, <1>9 DEF MintsAccounted

\* The traces of the burn side are a number, which a quiet write keeps.
LEMMA BurnTracesKept ==
  ASSUME NEW d \in Databases, NEW d2
  PROVE  /\ BurnTraces(d) \in Nat
         /\ BurnQuiet(d, d2) => BurnTraces(d2) = BurnTraces(d)
<1> DEFINE n == Len(d.audited_burns)
<1>1. /\ d.audited_burns \in Seq(AuditedBurnRows) /\ d.counters \in [CounterNames -> Nat]
  BY DEF Databases
<1>2. n \in Nat /\ BurnErrors \subseteq CounterNames
  BY <1>1 DEF BurnErrors, CounterNames
<1>3. /\ d.counters["num_mismatching_burns_and_withdrawals"] \in Nat
      /\ d.counters["num_unknown_ethereum_token_withdrawals"] \in Nat
      /\ d.counters["num_burns_from_unknown_safe"] \in Nat
      /\ d.counters["num_unexpected_errors_matching_withdrawals_to_burns"] \in Nat
      /\ d.counters["num_unexpected_errors_matching_burns_to_withdrawals"] \in Nat
  BY <1>1 DEF CounterNames
<1>4. BurnTraces(d) \in Nat
  <2>1. BurnTraces(d) =
          n
          + d.counters["num_mismatching_burns_and_withdrawals"]
          + d.counters["num_unknown_ethereum_token_withdrawals"]
          + d.counters["num_burns_from_unknown_safe"]
          + d.counters["num_unexpected_errors_matching_withdrawals_to_burns"]
          + d.counters["num_unexpected_errors_matching_burns_to_withdrawals"]
    BY DEF BurnTraces
  <2> HIDE DEF n
  <2> QED
    BY ONLY <1>2, <1>3, <2>1
<1>5. BurnQuiet(d, d2) => BurnTraces(d2) = BurnTraces(d)
  BY DEF BurnQuiet, Keeps, BurnTraces, BurnErrors
<1> QED
  BY <1>4, <1>5

\* An attempt adds one trace.
LEMMA BurnTriesTrace ==
  ASSUME NEW d \in Databases, NEW d2, TriesBurn(d, d2)
  PROVE  BurnTraces(d2) = BurnTraces(d) + 1
<1> DEFINE n == Len(d.audited_burns)
<1> DEFINE n2 == Len(d2.audited_burns)
<1>1. /\ d.audited_burns \in Seq(AuditedBurnRows) /\ d.counters \in [CounterNames -> Nat]
  BY DEF Databases
<1>2. n \in Nat /\ BurnErrors \subseteq CounterNames
  BY <1>1 DEF BurnErrors, CounterNames
<1>3. /\ d.counters["num_mismatching_burns_and_withdrawals"] \in Nat
      /\ d.counters["num_unknown_ethereum_token_withdrawals"] \in Nat
      /\ d.counters["num_burns_from_unknown_safe"] \in Nat
      /\ d.counters["num_unexpected_errors_matching_withdrawals_to_burns"] \in Nat
      /\ d.counters["num_unexpected_errors_matching_burns_to_withdrawals"] \in Nat
  BY <1>1 DEF CounterNames
<1>4. /\ BurnTraces(d) =
           n
           + d.counters["num_mismatching_burns_and_withdrawals"]
           + d.counters["num_unknown_ethereum_token_withdrawals"]
           + d.counters["num_burns_from_unknown_safe"]
           + d.counters["num_unexpected_errors_matching_withdrawals_to_burns"]
           + d.counters["num_unexpected_errors_matching_burns_to_withdrawals"]
      /\ BurnTraces(d2) =
           n2
           + d2.counters["num_mismatching_burns_and_withdrawals"]
           + d2.counters["num_unknown_ethereum_token_withdrawals"]
           + d2.counters["num_burns_from_unknown_safe"]
           + d2.counters["num_unexpected_errors_matching_withdrawals_to_burns"]
           + d2.counters["num_unexpected_errors_matching_burns_to_withdrawals"]
  BY DEF BurnTraces
<1>5. CASE \E c \in BurnErrors : Counted(d, d2, c)
  <2>1. PICK c \in BurnErrors : Counted(d, d2, c)
    BY <1>5
  <2>2. n2 = n
    BY <2>1 DEF Counted, Keeps, AllBut, Fields
  <2>3. \A k \in BurnErrors :
          d2.counters[k] = IF k = c THEN d.counters[k] + 1 ELSE d.counters[k]
    BY <1>2, <2>1 DEF Counted, CountsOne
  <2> HIDE DEF n, n2
  <2>4. \A k \in BurnErrors \ {c} : d2.counters[k] = d.counters[k]
    BY <2>3
  <2>5. d2.counters[c] = d.counters[c] + 1
    BY <2>3
  <2>6. CASE c = "num_mismatching_burns_and_withdrawals"
    <3>1. /\ d2.counters["num_mismatching_burns_and_withdrawals"] = d.counters["num_mismatching_burns_and_withdrawals"] + 1
          /\ d2.counters["num_unknown_ethereum_token_withdrawals"] = d.counters["num_unknown_ethereum_token_withdrawals"]
          /\ d2.counters["num_burns_from_unknown_safe"] = d.counters["num_burns_from_unknown_safe"]
          /\ d2.counters["num_unexpected_errors_matching_withdrawals_to_burns"] = d.counters["num_unexpected_errors_matching_withdrawals_to_burns"]
          /\ d2.counters["num_unexpected_errors_matching_burns_to_withdrawals"] = d.counters["num_unexpected_errors_matching_burns_to_withdrawals"]
      BY <2>4, <2>5, <2>6 DEF BurnErrors
    <3> QED
      BY ONLY <1>2, <1>3, <1>4, <2>2, <3>1
  <2>7. CASE c = "num_unknown_ethereum_token_withdrawals"
    <3>1. /\ d2.counters["num_unknown_ethereum_token_withdrawals"] = d.counters["num_unknown_ethereum_token_withdrawals"] + 1
          /\ d2.counters["num_mismatching_burns_and_withdrawals"] = d.counters["num_mismatching_burns_and_withdrawals"]
          /\ d2.counters["num_burns_from_unknown_safe"] = d.counters["num_burns_from_unknown_safe"]
          /\ d2.counters["num_unexpected_errors_matching_withdrawals_to_burns"] = d.counters["num_unexpected_errors_matching_withdrawals_to_burns"]
          /\ d2.counters["num_unexpected_errors_matching_burns_to_withdrawals"] = d.counters["num_unexpected_errors_matching_burns_to_withdrawals"]
      BY <2>4, <2>5, <2>7 DEF BurnErrors
    <3> QED
      BY ONLY <1>2, <1>3, <1>4, <2>2, <3>1
  <2>8. CASE c = "num_burns_from_unknown_safe"
    <3>1. /\ d2.counters["num_burns_from_unknown_safe"] = d.counters["num_burns_from_unknown_safe"] + 1
          /\ d2.counters["num_mismatching_burns_and_withdrawals"] = d.counters["num_mismatching_burns_and_withdrawals"]
          /\ d2.counters["num_unknown_ethereum_token_withdrawals"] = d.counters["num_unknown_ethereum_token_withdrawals"]
          /\ d2.counters["num_unexpected_errors_matching_withdrawals_to_burns"] = d.counters["num_unexpected_errors_matching_withdrawals_to_burns"]
          /\ d2.counters["num_unexpected_errors_matching_burns_to_withdrawals"] = d.counters["num_unexpected_errors_matching_burns_to_withdrawals"]
      BY <2>4, <2>5, <2>8 DEF BurnErrors
    <3> QED
      BY ONLY <1>2, <1>3, <1>4, <2>2, <3>1
  <2>9. CASE c = "num_unexpected_errors_matching_withdrawals_to_burns"
    <3>1. /\ d2.counters["num_unexpected_errors_matching_withdrawals_to_burns"] = d.counters["num_unexpected_errors_matching_withdrawals_to_burns"] + 1
          /\ d2.counters["num_mismatching_burns_and_withdrawals"] = d.counters["num_mismatching_burns_and_withdrawals"]
          /\ d2.counters["num_unknown_ethereum_token_withdrawals"] = d.counters["num_unknown_ethereum_token_withdrawals"]
          /\ d2.counters["num_burns_from_unknown_safe"] = d.counters["num_burns_from_unknown_safe"]
          /\ d2.counters["num_unexpected_errors_matching_burns_to_withdrawals"] = d.counters["num_unexpected_errors_matching_burns_to_withdrawals"]
      BY <2>4, <2>5, <2>9 DEF BurnErrors
    <3> QED
      BY ONLY <1>2, <1>3, <1>4, <2>2, <3>1
  <2>10. CASE c = "num_unexpected_errors_matching_burns_to_withdrawals"
    <3>1. /\ d2.counters["num_unexpected_errors_matching_burns_to_withdrawals"] = d.counters["num_unexpected_errors_matching_burns_to_withdrawals"] + 1
          /\ d2.counters["num_mismatching_burns_and_withdrawals"] = d.counters["num_mismatching_burns_and_withdrawals"]
          /\ d2.counters["num_unknown_ethereum_token_withdrawals"] = d.counters["num_unknown_ethereum_token_withdrawals"]
          /\ d2.counters["num_burns_from_unknown_safe"] = d.counters["num_burns_from_unknown_safe"]
          /\ d2.counters["num_unexpected_errors_matching_withdrawals_to_burns"] = d.counters["num_unexpected_errors_matching_withdrawals_to_burns"]
      BY <2>4, <2>5, <2>10 DEF BurnErrors
    <3> QED
      BY ONLY <1>2, <1>3, <1>4, <2>2, <3>1
  <2> QED
    BY <2>6, <2>7, <2>8, <2>9, <2>10 DEF BurnErrors
<1>6. CASE /\ Keeps(d, d2, AllBut({"audited_burns"}))
           /\ \E row \in AuditedBurnRows : d2.audited_burns = Append(d.audited_burns, row)
  <2>1. n2 = n + 1
    BY <1>1, <1>6
  <2>2. d2.counters = d.counters
    BY <1>6 DEF Keeps, AllBut, Fields
  <2> HIDE DEF n, n2
  <2> QED
    BY ONLY <1>2, <1>3, <1>4, <2>1, <2>2
<1> QED
  BY <1>5, <1>6 DEF TriesBurn

----------------------------------------------------------------------------
(* The balance of the burn side.                                          *)

\* A quiet write keeps the balance.
LEMMA BurnBalanceKept ==
  ASSUME NEW d \in Databases, NEW d2, BurnQuiet(d, d2), NEW open, BurnsAccounted(d, open)
  PROVE  BurnsAccounted(d2, open)
<1>1. d2.burn_tx_outs = d.burn_tx_outs /\ d2.withdrawals = d.withdrawals
  BY DEF BurnQuiet, Keeps
<1>2. BurnTraces(d2) = BurnTraces(d)
  BY BurnTracesKept
<1> QED
  BY <1>1, <1>2 DEF BurnsAccounted

\* Storing a burn opens a row.
LEMMA BurnBalanceOpens ==
  ASSUME NEW d \in Databases, NEW d2, NEW n, NEW x, StoresBurn(d, d2, n, x),
         NEW open, NEW i, IsFiniteSet(open), i \notin open, BurnsAccounted(d, open)
  PROVE  BurnsAccounted(d2, open \cup {i})
<1>1. PICK row : row.public_key = x.public_key /\ d2.burn_tx_outs = d.burn_tx_outs \cup {row}
  BY DEF StoresBurn, burn_tx_out_row
<1>2. row \notin d.burn_tx_outs
  BY <1>1 DEF StoresBurn, BurnTxOutExists
<1>3. d2.withdrawals = d.withdrawals /\ d2.audited_burns = d.audited_burns
  BY DEF StoresBurn, Keeps, AllBut, Fields
<1>4. \A c \in BurnErrors : d2.counters[c] = d.counters[c]
  BY DEF StoresBurn, CountsOne, BurnErrors, CounterNames
<1>5. BurnTraces(d2) = BurnTraces(d) /\ BurnTraces(d) \in Nat
  BY <1>3, <1>4, BurnTracesKept DEF BurnTraces, BurnErrors
<1>6. /\ IsFiniteSet(d2.burn_tx_outs) /\ Cardinality(d2.burn_tx_outs) = Cardinality(d.burn_tx_outs) + 1
      /\ Cardinality(open \cup {i}) = Cardinality(open) + 1
  BY <1>1, <1>2, FS_AddElement DEF BurnsAccounted
<1>7. /\ Cardinality(d.burn_tx_outs) \in Nat /\ Cardinality(d.withdrawals) \in Nat
      /\ Cardinality(open) \in Nat
  BY FS_CardinalityType DEF BurnsAccounted
<1> QED
  BY <1>3, <1>5, <1>6, <1>7 DEF BurnsAccounted

\* Auditing it closes the row.
LEMMA BurnBalanceCloses ==
  ASSUME NEW d \in Databases, NEW d2, TriesBurn(d, d2),
         NEW open, NEW i, IsFiniteSet(open), i \notin open, BurnsAccounted(d, open \cup {i})
  PROVE  BurnsAccounted(d2, open)
<1>1. d2.burn_tx_outs = d.burn_tx_outs /\ d2.withdrawals = d.withdrawals
  BY TriesKeep DEF Keeps, AllBut, Fields
<1>2. BurnTraces(d2) = BurnTraces(d) + 1 /\ BurnTraces(d) \in Nat
  BY BurnTriesTrace, BurnTracesKept
<1>3. Cardinality(open \cup {i}) = Cardinality(open) + 1
  BY FS_AddElement
<1>4. /\ Cardinality(d.burn_tx_outs) \in Nat /\ Cardinality(d.withdrawals) \in Nat
      /\ Cardinality(open) \in Nat
  BY FS_CardinalityType DEF BurnsAccounted
<1> QED
  BY <1>1, <1>2, <1>3, <1>4 DEF BurnsAccounted

\* A withdrawal comes with its trace.
LEMMA WithdrawalBalance ==
  ASSUME NEW d \in Databases, NEW d2, NEW k \in DOMAIN Config, NEW e \in WithdrawalRows,
         StoresWithdrawal(d, d2, e, Config[k]), BurnsAccounted(d, {})
  PROVE  BurnsAccounted(d2, {})
<1>1. PICK d1 \in Databases :
        /\ Keeps(d, d1, AllBut({"withdrawals"})) /\ d1.withdrawals = d.withdrawals \cup {e}
        /\ d2 \in try_match_withdrawal_with_burn(d1, e, Config[k])
  BY DEF StoresWithdrawal
<1>2. TriesBurn(d1, d2)
  BY <1>1, BurnTries
<1>3. /\ d2.burn_tx_outs = d1.burn_tx_outs /\ d2.withdrawals = d1.withdrawals
      /\ BurnTraces(d2) = BurnTraces(d1) + 1
  BY <1>1, <1>2, TriesKeep, BurnTriesTrace DEF Keeps, AllBut, Fields
<1>4. /\ d1.burn_tx_outs = d.burn_tx_outs /\ d1.audited_burns = d.audited_burns
      /\ d1.counters = d.counters
  BY <1>1 DEF Keeps, AllBut, Fields
<1>5. BurnTraces(d1) = BurnTraces(d) /\ BurnTraces(d) \in Nat
  BY <1>4, BurnTracesKept DEF BurnTraces
<1>6. e \notin d.withdrawals
  BY DEF StoresWithdrawal, WithdrawalExists
<1>7. IsFiniteSet(d1.withdrawals) /\ Cardinality(d1.withdrawals) = Cardinality(d.withdrawals) + 1
  BY <1>1, <1>6, FS_AddElement DEF BurnsAccounted
<1>8. Cardinality(d.burn_tx_outs) \in Nat /\ Cardinality(d.withdrawals) \in Nat
  BY FS_CardinalityType DEF BurnsAccounted
<1>9. Cardinality({}) = 0
  BY FS_EmptySet
<1> QED
  BY <1>3, <1>4, <1>5, <1>7, <1>8, <1>9 DEF BurnsAccounted

----------------------------------------------------------------------------
(* Moves keep both balances.                                               *)

\* The open rows of a block are finitely many.
LEMMA OpenFinite ==
  ASSUME NEW s, NEW c \in BlockContents
  PROVE  IsFiniteSet(OpenMints(s, c)) /\ IsFiniteSet(OpenBurns(s, c))
<1>1. c.mint_txs \in Seq(CoreMintTxs) /\ c.outputs \in Seq(TxOuts)
  BY DEF BlockContents
<1>2. /\ DOMAIN c.mint_txs = 1 .. Len(c.mint_txs) /\ Len(c.mint_txs) \in Int
      /\ DOMAIN c.outputs = 1 .. Len(c.outputs) /\ Len(c.outputs) \in Int
  BY <1>1
<1>3. IsFiniteSet(DOMAIN c.mint_txs) /\ IsFiniteSet(DOMAIN c.outputs)
  BY <1>2, FS_Interval
<1>4. OpenMints(s, c) \in SUBSET DOMAIN c.mint_txs /\ OpenBurns(s, c) \in SUBSET DOMAIN c.outputs
  BY DEF OpenMints, OpenBurns
<1> QED
  BY <1>3, <1>4, FS_Subset

\* An attempt on one side is quiet on the other; so are the writes that are no
\* attempts.
LEMMA QuietWrites ==
  ASSUME NEW d, NEW d2
  PROVE  /\ TriesMint(d, d2) => BurnQuiet(d, d2)
         /\ TriesBurn(d, d2) => MintQuiet(d, d2)
         /\ \A n, x : StoresMint(d, d2, n, x) => BurnQuiet(d, d2)
         /\ \A n, x : StoresBurn(d, d2, n, x) => MintQuiet(d, d2)
<1>1. /\ MintErrors \subseteq CounterNames /\ BurnErrors \subseteq CounterNames
      /\ MintErrors \cap BurnErrors = {}
      /\ "num_mint_txs_without_matching_mint_config" \notin MintErrors \cup BurnErrors
      /\ "num_burns_exceeding_balance" \notin MintErrors \cup BurnErrors
  BY DEF MintErrors, BurnErrors, CounterNames
<1>2. ASSUME TriesMint(d, d2)
      PROVE  BurnQuiet(d, d2)
  <2>1. Keeps(d, d2, {"burn_tx_outs", "withdrawals", "audited_burns"})
    BY <1>2, TriesKeep DEF Keeps, AllBut, Fields
  <2>2. d2.counters = d.counters \/ \E c \in MintErrors : CountsOne(d, d2, c)
    BY <1>2 DEF TriesMint, Counted, Keeps, AllBut, Fields
  <2>3. \A c \in BurnErrors : d2.counters[c] = d.counters[c]
    BY <1>1, <2>2 DEF CountsOne
  <2> QED
    BY <2>1, <2>3 DEF BurnQuiet
<1>3. ASSUME TriesBurn(d, d2)
      PROVE  MintQuiet(d, d2)
  <2>1. Keeps(d, d2, {"mint_txs", "deposits", "audited_mints"})
    BY <1>3, TriesKeep DEF Keeps, AllBut, Fields
  <2>2. d2.counters = d.counters \/ \E c \in BurnErrors : CountsOne(d, d2, c)
    BY <1>3 DEF TriesBurn, Counted, Keeps, AllBut, Fields
  <2>3. \A c \in MintErrors : d2.counters[c] = d.counters[c]
    BY <1>1, <2>2 DEF CountsOne
  <2> QED
    BY <2>1, <2>3 DEF MintQuiet
<1>4. ASSUME NEW n, NEW x, StoresMint(d, d2, n, x)
      PROVE  BurnQuiet(d, d2)
  <2>1. Keeps(d, d2, {"burn_tx_outs", "withdrawals", "audited_burns"})
    BY <1>4 DEF StoresMint, Keeps, AllBut, Fields
  <2>2. \/ d2.counters = d.counters
        \/ CountsOne(d, d2, "num_mint_txs_without_matching_mint_config")
    BY <1>4 DEF StoresMint
  <2>3. \A c \in BurnErrors : d2.counters[c] = d.counters[c]
    BY <1>1, <2>2 DEF CountsOne
  <2> QED
    BY <2>1, <2>3 DEF BurnQuiet
<1>5. ASSUME NEW n, NEW x, StoresBurn(d, d2, n, x)
      PROVE  MintQuiet(d, d2)
  <2>1. Keeps(d, d2, {"mint_txs", "deposits", "audited_mints"})
    BY <1>5 DEF StoresBurn, Keeps, AllBut, Fields
  <2>2. d2.counters = d.counters \/ CountsOne(d, d2, "num_burns_exceeding_balance")
    BY <1>5 DEF StoresBurn
  <2>3. \A c \in MintErrors : d2.counters[c] = d.counters[c]
    BY <1>1, <2>2 DEF CountsOne
  <2> QED
    BY <2>1, <2>3 DEF MintQuiet
<1> QED
  BY <1>2, <1>3, <1>4, <1>5

\* Counters that count no attempt.
LEMMA OtherCounters ==
  ASSUME NEW d, NEW d2, NEW c \in {"num_blocks_synced", "num_invalid_ethereum_transactions",
                                   "num_invalid_multi_sig_transactions"},
         CountsOne(d, d2, c)
  PROVE  /\ \A k \in MintErrors : d2.counters[k] = d.counters[k]
         /\ \A k \in BurnErrors : d2.counters[k] = d.counters[k]
  BY DEF CountsOne, MintErrors, BurnErrors, CounterNames

\* What a move of the main thread does to the two balances.
LEMMA ScanMoveAccounted ==
  ASSUME AuditsGnosis, NEW s, s.pos \in Nat \ {0}, NEW s2, NEW d \in Databases,
         NEW d2, NEW c \in BlockContents, ScanMove(s, s2, d, d2, c),
         MintsAccounted(d, OpenMints(s, c)), BurnsAccounted(d, OpenBurns(s, c))
  PROVE  MintsAccounted(d2, OpenMints(s2, c)) /\ BurnsAccounted(d2, OpenBurns(s2, c))
<1>1. c.mint_txs \in Seq(CoreMintTxs) /\ c.outputs \in Seq(TxOuts)
  BY DEF BlockContents
<1>2. /\ IsFiniteSet(OpenMints(s, c)) /\ IsFiniteSet(OpenBurns(s, c))
      /\ IsFiniteSet(OpenMints(s2, c)) /\ IsFiniteSet(OpenBurns(s2, c))
  BY OpenFinite
<1>3. ~MintMove(s, s2, d, d2, c) /\ ~AuditMintMove(s, s2, d, d2, c) =>
        OpenMints(s2, c) = OpenMints(s, c)
  BY OpenMintsMove
<1>4. ~BurnMove(s, s2, d, d2, c) /\ ~AuditBurnMove(s, s2, d, d2, c) =>
        OpenBurns(s2, c) = OpenBurns(s, c)
  BY OpenBurnsMove
<1>5. CASE MintMove(s, s2, d, d2, c)
  <2>1. PICK tx : StoresMint(d, d2, s.block_index, tx)
    BY <1>5 DEF MintMove
  <2>2. OpenMints(s2, c) = OpenMints(s, c) \cup {s.pos} /\ s.pos \notin OpenMints(s, c)
    BY <1>5, OpenMintsMove
  <2>3. MintsAccounted(d2, OpenMints(s, c) \cup {s.pos})
    BY <1>2, <2>1, <2>2, MintBalanceOpens
  <2>4. OpenBurns(s2, c) = OpenBurns(s, c)
    BY <1>4, <1>5 DEF MintMove, BurnMove, AuditBurnMove
  <2>5. BurnsAccounted(d2, OpenBurns(s, c))
    BY <2>1, QuietWrites, BurnBalanceKept
  <2> QED
    BY <2>2, <2>3, <2>4, <2>5
<1>6. CASE BurnMove(s, s2, d, d2, c)
  <2>1. PICK o : StoresBurn(d, d2, s.block_index, o)
    BY <1>6 DEF BurnMove
  <2>2. OpenBurns(s2, c) = OpenBurns(s, c) \cup {s.pos} /\ s.pos \notin OpenBurns(s, c)
    BY <1>6, OpenBurnsMove
  <2>3. BurnsAccounted(d2, OpenBurns(s, c) \cup {s.pos})
    BY <1>2, <2>1, <2>2, BurnBalanceOpens
  <2>4. OpenMints(s2, c) = OpenMints(s, c)
    BY <1>3, <1>6 DEF MintMove, BurnMove, AuditMintMove
  <2>5. MintsAccounted(d2, OpenMints(s, c))
    BY <2>1, QuietWrites, MintBalanceKept
  <2> QED
    BY <2>2, <2>3, <2>4, <2>5
<1>7. CASE AuditMintMove(s, s2, d, d2, c)
  <2>1. TriesMint(d, d2)
    BY <1>1, <1>7, MintTries DEF AuditMintMove
  <2>2. OpenMints(s, c) = OpenMints(s2, c) \cup {s.pos} /\ s.pos \notin OpenMints(s2, c)
    BY <1>7, OpenMintsMove
  <2>3. MintsAccounted(d, OpenMints(s2, c) \cup {s.pos})
    BY <2>2
  <2>4. MintsAccounted(d2, OpenMints(s2, c))
    BY <1>2, <2>1, <2>2, <2>3, MintBalanceCloses
  <2>5. OpenBurns(s2, c) = OpenBurns(s, c)
    BY <1>4, <1>7 DEF AuditMintMove, BurnMove, AuditBurnMove
  <2>6. BurnsAccounted(d2, OpenBurns(s, c))
    BY <2>1, QuietWrites, BurnBalanceKept
  <2> QED
    BY <2>4, <2>5, <2>6
<1>8. CASE AuditBurnMove(s, s2, d, d2, c)
  <2>1. TriesBurn(d, d2)
    BY <1>1, <1>8, BurnTries DEF AuditBurnMove
  <2>2. OpenBurns(s, c) = OpenBurns(s2, c) \cup {s.pos} /\ s.pos \notin OpenBurns(s2, c)
    BY <1>8, OpenBurnsMove
  <2>3. BurnsAccounted(d, OpenBurns(s2, c) \cup {s.pos})
    BY <2>2
  <2>4. BurnsAccounted(d2, OpenBurns(s2, c))
    BY <1>2, <2>1, <2>2, <2>3, BurnBalanceCloses
  <2>5. OpenMints(s2, c) = OpenMints(s, c)
    BY <1>3, <1>8 DEF AuditBurnMove, MintMove, AuditMintMove
  <2>6. MintsAccounted(d2, OpenMints(s, c))
    BY <2>1, QuietWrites, MintBalanceKept
  <2> QED
    BY <2>4, <2>5, <2>6
<1>9. CASE ~(\/ MintMove(s, s2, d, d2, c) \/ AuditMintMove(s, s2, d, d2, c)
             \/ BurnMove(s, s2, d, d2, c) \/ AuditBurnMove(s, s2, d, d2, c))
  <2>1. \/ d2 = d
        \/ ConfigMove(s, s2, d, d2, c)
        \/ FinishMove(s, s2, d, d2, c)
    BY <1>9 DEF ScanMove, CheckMove, ConfigsDone, MintsDone, SkipMove, AuditMintsEnd,
                AuditBurnsEnd
  <2>2. /\ Keeps(d, d2, {"mint_txs", "deposits", "audited_mints"})
        /\ Keeps(d, d2, {"burn_tx_outs", "withdrawals", "audited_burns"})
        /\ d2.counters = d.counters \/ CountsOne(d, d2, "num_blocks_synced")
    BY <2>1 DEF ConfigMove, FinishMove, StoresConfig, FinishesBlock, Keeps, AllBut, Fields
  <2>3. MintQuiet(d, d2) /\ BurnQuiet(d, d2)
    BY <2>2, OtherCounters DEF MintQuiet, BurnQuiet
  <2> QED
    BY <1>3, <1>4, <1>9, <2>3, MintBalanceKept, BurnBalanceKept
<1> QED
  BY <1>5, <1>6, <1>7, <1>8, <1>9

\* What a move of a safe thread does to the two balances.
LEMMA WorkMoveAccounted ==
  ASSUME NEW s, NEW s2, NEW d \in Databases, NEW d2, NEW x,
         NEW k \in DOMAIN Config, WorkMove(s, s2, d, d2, x, Config[k]),
         MintsAccounted(d, {}), BurnsAccounted(d, {})
  PROVE  MintsAccounted(d2, {}) /\ BurnsAccounted(d2, {})
<1>1. CASE DepositMove(s, s2, d, d2, x, Config[k])
  <2>1. PICK e \in DepositRows : StoresDeposit(d, d2, e, Config[k])
    BY <1>1 DEF DepositMove
  <2>2. PICK d1 \in Databases :
          /\ Keeps(d, d1, AllBut({"deposits"})) /\ TriesMint(d1, d2)
    BY <2>1, MintTries DEF StoresDeposit
  <2>3. BurnQuiet(d1, d2)
    BY <2>2, QuietWrites
  <2>4. BurnQuiet(d, d1)
    BY <2>2 DEF BurnQuiet, Keeps, AllBut, Fields
  <2>5. BurnQuiet(d, d2)
    BY <2>3, <2>4 DEF BurnQuiet, Keeps
  <2> QED
    BY <2>1, <2>5, DepositBalance, BurnBalanceKept
<1>2. CASE WithdrawalMove(s, s2, d, d2, x, Config[k])
  <2>1. PICK w \in WithdrawalRows : StoresWithdrawal(d, d2, w, Config[k])
    BY <1>2 DEF WithdrawalMove
  <2>2. PICK d1 \in Databases :
          /\ Keeps(d, d1, AllBut({"withdrawals"})) /\ TriesBurn(d1, d2)
    BY <2>1, BurnTries DEF StoresWithdrawal
  <2>3. MintQuiet(d1, d2)
    BY <2>2, QuietWrites
  <2>4. MintQuiet(d, d1)
    BY <2>2 DEF MintQuiet, Keeps, AllBut, Fields
  <2>5. MintQuiet(d, d2)
    BY <2>3, <2>4 DEF MintQuiet, Keeps
  <2> QED
    BY <2>1, <2>5, WithdrawalBalance, MintBalanceKept
<1>3. CASE ~DepositMove(s, s2, d, d2, x, Config[k]) /\ ~WithdrawalMove(s, s2, d, d2, x, Config[k])
  <2>1. \/ Keeps(d, d2, AllBut({"gnosis_safe_txs"}))
        \/ Counted(d, d2, "num_invalid_ethereum_transactions")
        \/ Counted(d, d2, "num_invalid_multi_sig_transactions")
    BY <1>3 DEF WorkMove, SkipTxMove, InsertMove, ForeignTransferMove, UnknownTokenMove,
                TransfersEnd, NoWithdrawalMove, Keeps
  <2>2. /\ Keeps(d, d2, {"mint_txs", "deposits", "audited_mints"})
        /\ Keeps(d, d2, {"burn_tx_outs", "withdrawals", "audited_burns"})
        /\ \/ d2.counters = d.counters
           \/ CountsOne(d, d2, "num_invalid_ethereum_transactions")
           \/ CountsOne(d, d2, "num_invalid_multi_sig_transactions")
    BY <2>1 DEF Counted, Keeps, AllBut, Fields
  <2>3. MintQuiet(d, d2) /\ BurnQuiet(d, d2)
    BY <2>2, OtherCounters DEF MintQuiet, BurnQuiet
  <2> QED
    BY <2>3, MintBalanceKept, BurnBalanceKept
<1> QED
  BY <1>1, <1>2, <1>3

----------------------------------------------------------------------------
(* The theorems.                                                           *)

\* A step of the auditor keeps both balances.
LEMMA NextAccountInv ==
  ASSUME IInv, IInv', [Next]_vars, AuditsGnosis, AccountInv
  PROVE  AccountInv'
<1> SUFFICES /\ MintsAccounted(db', {}) /\ BurnsAccounted(db', {})
             /\ \A p \in Procs : scan'[p].pc \in ScanInTx =>
                  /\ MintsAccounted(wdb', OpenMints(scan'[p], Contents(p)'))
                  /\ BurnsAccounted(wdb', OpenBurns(scan'[p], Contents(p)'))
             /\ \A t \in Workers : work'[t].pc \in WorkInTx =>
                  MintsAccounted(wdb', {}) /\ BurnsAccounted(wdb', {})
  BY DEF AccountInv, MintsAccounted, BurnsAccounted, OpenMints, OpenBurns, MintTraces, BurnTraces
<1>1. /\ MintsAccounted(db, {}) /\ BurnsAccounted(db, {})
      /\ \A p \in Procs : scan[p].pc \in ScanInTx =>
           /\ MintsAccounted(wdb, OpenMints(scan[p], Contents(p)))
           /\ BurnsAccounted(wdb, OpenBurns(scan[p], Contents(p)))
      /\ \A t \in Workers : work[t].pc \in WorkInTx =>
           MintsAccounted(wdb, {}) /\ BurnsAccounted(wdb, {})
  BY DEF AccountInv
<1>2. wdb \in Databases
  BY TypeFacts
<1>3. CASE Idles
  BY <1>1, <1>3 DEF Idles
<1>4. CASE Begins
  <2>1. db' = db /\ wdb' = db
    BY <1>4 DEF Begins
  <2>2. ASSUME NEW p \in Procs, scan'[p].pc \in ScanInTx
        PROVE  /\ OpenMints(scan'[p], Contents(p)') = {}
               /\ OpenBurns(scan'[p], Contents(p)') = {}
    <3>1. scan'[p].pc = "check_index"
      BY <1>4, <2>2 DEF Begins
    <3> QED
      BY <3>1, NothingOpen
  <2> QED
    BY <1>1, <2>1, <2>2
<1>5. CASE Commits
  <2>1. CASE \E p \in Procs : scan[p].pc = "commit"
    <3>1. PICK p \in Procs : scan[p].pc = "commit"
      BY <2>1
    <3>2. OpenMints(scan[p], Contents(p)) = {} /\ OpenBurns(scan[p], Contents(p)) = {}
      BY <3>1, NothingOpen
    <3>3. MintsAccounted(wdb, {}) /\ BurnsAccounted(wdb, {})
      BY <1>1, <3>1, <3>2 DEF ScanInTx
    <3> QED
      BY <1>5, <3>3 DEF Commits
  <2>2. CASE \E t \in Workers : work[t].pc = "commit"
    BY <1>1, <1>5, <2>2 DEF Commits, WorkInTx
  <2> QED
    BY <1>5, <2>1, <2>2 DEF Commits
<1>6. CASE \E p \in Procs : ScanProceeds(p)
  <2>1. PICK p \in Procs : ScanProceeds(p)
    BY <1>6
  <2>2. Contents(p) \in BlockContents /\ scan[p].pos \in Nat \ {0}
    BY <2>1, ContentsType DEF ScanProceeds, ScanInTx
  <2>3. /\ MintsAccounted(wdb', OpenMints(scan'[p], Contents(p)))
        /\ BurnsAccounted(wdb', OpenBurns(scan'[p], Contents(p)))
    BY <1>1, <1>2, <2>1, <2>2, ScanMoveAccounted DEF ScanProceeds
  <2> QED
    BY <1>1, <2>1, <2>3 DEF ScanProceeds
<1>7. CASE \E t \in Workers : WorkProceeds(t)
  <2>1. PICK t \in Workers : WorkProceeds(t)
    BY <1>7
  <2>2. MintsAccounted(wdb', {}) /\ BurnsAccounted(wdb', {})
    BY <1>1, <1>2, <2>1, SafeOfThread, WorkMoveAccounted DEF WorkProceeds
  <2> QED
    BY <1>1, <2>1, <2>2 DEF WorkProceeds
<1> QED
  BY <1>3, <1>4, <1>5, <1>6, <1>7, StepCases

\* An empty database balances.
LEMMA InitAccountInv == Init => AccountInv
<1> SUFFICES ASSUME Init
             PROVE  AccountInv
  OBVIOUS
<1>1. /\ db = EmptyDb /\ wdb = EmptyDb
      /\ \A p \in Procs : scan[p].pc \notin ScanInTx
      /\ \A t \in Workers : work[t].pc \notin WorkInTx
  BY DEF Init, StoreInit, LedgerInit, GnosisInit, ScanAt, WorkAt, ScanInTx, WorkInTx
<1>2. MintTraces(EmptyDb) = 0 /\ BurnTraces(EmptyDb) = 0
  BY DEF MintTraces, BurnTraces, EmptyDb, CounterNames
<1>3. /\ EmptyDb.mint_txs = {} /\ EmptyDb.deposits = {}
      /\ EmptyDb.burn_tx_outs = {} /\ EmptyDb.withdrawals = {}
  BY DEF EmptyDb
<1>4. IsFiniteSet({}) /\ Cardinality({}) = 0
  BY FS_EmptySet
<1>5. MintsAccounted(EmptyDb, {}) /\ BurnsAccounted(EmptyDb, {})
  BY <1>2, <1>3, <1>4 DEF MintsAccounted, BurnsAccounted
<1> QED
  BY <1>1, <1>5 DEF AccountInv

\* The balances hold in every reachable state.
LEMMA AccountInvariance == Spec => [](AuditsGnosis => AccountInv)
<1>1. Init => (AuditsGnosis => AccountInv)
  BY InitAccountInv
<1>2. IInv /\ IInv' /\ [Next]_vars /\ (AuditsGnosis => AccountInv) => (AuditsGnosis => AccountInv)'
  BY NextAccountInv
<1> QED
  BY <1>1, <1>2, Invariance, PTL DEF Spec

\* In a state that balances, every attempt has left one trace.
LEMMA AttemptsAreAccounted ==
  ASSUME IInv, AuditsGnosis => AccountInv
  PROVE  MintAttemptsAreAccounted /\ BurnAttemptsAreAccounted
<1>1. ASSUME AuditsGnosis
      PROVE  /\ Cardinality(db.mint_txs) + Cardinality(db.deposits) = MintTraces(db)
             /\ Cardinality(db.burn_tx_outs) + Cardinality(db.withdrawals) = BurnTraces(db)
  <2>1. MintsAccounted(db, {}) /\ BurnsAccounted(db, {})
    BY <1>1 DEF AccountInv
  <2>2. MintTraces(db) \in Nat /\ BurnTraces(db) \in Nat
    BY TypeFacts, MintTracesKept, BurnTracesKept
  <2> QED
    BY <2>1, <2>2, FS_EmptySet DEF MintsAccounted, BurnsAccounted
<1> QED
  BY <1>1 DEF MintAttemptsAreAccounted, BurnAttemptsAreAccounted, MintTraces, BurnTraces

\* Every stored mint and deposit has left exactly one trace in the committed
\* database, a row of audited_mints or one count of one error, whatever was
\* rolled back, retried or run in parallel (try_match_mint_with_deposit,
\* try_match_deposit_with_mint).
THEOREM MintAccounting == Spec => []MintAttemptsAreAccounted
<1>1. IInv /\ (AuditsGnosis => AccountInv) => MintAttemptsAreAccounted
  BY AttemptsAreAccounted
<1> QED
  BY <1>1, Invariance, AccountInvariance, PTL

\* So has every stored burn and withdrawal (try_match_burn_with_withdrawal,
\* try_match_withdrawal_with_burn).
THEOREM BurnAccounting == Spec => []BurnAttemptsAreAccounted
<1>1. IInv /\ (AuditsGnosis => AccountInv) => BurnAttemptsAreAccounted
  BY AttemptsAreAccounted
<1> QED
  BY <1>1, Invariance, AccountInvariance, PTL

----------------------------------------------------------------------------
(* What a change of the configuration leaves in force.  Nothing here looks *)
(* at how the entries that are already committed came about.               *)

\* The logs before the first step.
LEMMA InitHandover == Init => HandoverInv
<1> SUFFICES ASSUME Init PROVE HandoverInv
  OBVIOUS
<1>1. IInv /\ AccountInv
  BY InitInv, InitAccountInv
<1>2. db = EmptyDb /\ wdb = EmptyDb
  BY DEF Init, StoreInit
<1>3. /\ UniqueRows(EmptyDb)
      /\ EmptyDb.audited_mints = << >> /\ EmptyDb.audited_burns = << >>
  BY DEF EmptyDb, UniqueRows
<1>4. OneToOneLogs(EmptyDb)
  BY <1>3 DEF OneToOneLogs, OneToOneMints, OneToOneBurns
<1>5. AddedMatch(EmptyDb, EmptyDb)
  BY <1>3 DEF AddedMatch, MintEntriesMatch, BurnEntriesMatch
<1> QED
  BY <1>1, <1>2, <1>3, <1>4, <1>5 DEF HandoverInv

\* A database adds nothing to itself.
LEMMA AddsNothing ==
  ASSUME NEW d \in Databases
  PROVE  AddedMatch(d, d)
<1>1. /\ DOMAIN d.audited_mints = 1 .. Len(d.audited_mints) /\ Len(d.audited_mints) \in Nat
      /\ DOMAIN d.audited_burns = 1 .. Len(d.audited_burns) /\ Len(d.audited_burns) \in Nat
  BY DEF Databases
<1> QED
  BY <1>1 DEF AddedMatch, MintEntriesMatch, BurnEntriesMatch

\* A write adds matches.
LEMMA WriteAddsMatches ==
  ASSUME NEW d \in Databases, NEW w \in Databases, NEW w2 \in Databases,
         LogStep(w, w2), AddedMatch(d, w)
  PROVE  AddedMatch(d, w2)
<1>1. PICK n \in Nat, k \in Nat : n = Len(d.audited_mints) /\ k = Len(d.audited_burns)
  BY DEF Databases
<1>2. /\ n <= Len(w.audited_mints) /\ MintEntriesMatch(n, w)
      /\ k <= Len(w.audited_burns) /\ BurnEntriesMatch(k, w)
  BY <1>1 DEF AddedMatch
<1>3. /\ MintEntriesMatch(n, w2) /\ Len(w.audited_mints) <= Len(w2.audited_mints)
      /\ BurnEntriesMatch(k, w2) /\ Len(w.audited_burns) <= Len(w2.audited_burns)
  BY <1>2, MintEntriesKept, BurnEntriesKept
<1>4. /\ Len(w.audited_mints) \in Nat /\ Len(w2.audited_mints) \in Nat
      /\ Len(w.audited_burns) \in Nat /\ Len(w2.audited_burns) \in Nat
  BY DEF Databases
<1>5. n <= Len(w2.audited_mints) /\ k <= Len(w2.audited_burns)
  BY <1>2, <1>3, <1>4
<1> QED
  BY <1>1, <1>3, <1>5 DEF AddedMatch

\* A step of the auditor keeps what a change of the configuration relies on.
LEMMA NextHandover ==
  ASSUME HandoverInv, [Next]_vars
  PROVE  HandoverInv'
<1>1. IInv /\ IInv'
  BY NextInv DEF HandoverInv
<1>2. /\ db \in Databases /\ wdb \in Databases
      /\ db' \in Databases /\ wdb' \in Databases
  BY <1>1 DEF IInv, TypeOK, LedgerTypeOK, StoreTypeOK
<1>3. UniqueRows(db') /\ UniqueRows(wdb')
  BY <1>1, NextUniqueRows DEF HandoverInv
<1>4. DbStep
  BY <1>1, NextDbStep
<1>5. OneToOneLogs(db) /\ OneToOneLogs(wdb) /\ AddedMatch(db, wdb)
  BY DEF HandoverInv
<1>6. LogStep(wdb, wdb') => OneToOneLogs(wdb')
  BY <1>2, <1>5, MintPairsKept, BurnPairsKept DEF OneToOneLogs
<1>7. OneToOneLogs(db') /\ OneToOneLogs(wdb')
  BY <1>4, <1>5, <1>6 DEF DbStep
<1>8. \/ db' = db /\ (wdb' \in {db, wdb} \/ LogStep(wdb, wdb'))
      \/ db' = wdb /\ wdb' = wdb
  <2>1. CASE Idles \/ Begins \/ Commits
    BY <2>1 DEF Idles, Begins, Commits
  <2>2. CASE (\E p \in Procs : ScanProceeds(p)) \/ (\E t \in Workers : WorkProceeds(t))
    BY <1>4, <2>2 DEF ScanProceeds, WorkProceeds, DbStep
  <2> QED
    BY <1>1, <2>1, <2>2, StepCases
<1>9. AddedMatch(db', wdb')
  BY <1>2, <1>5, <1>8, AddsNothing, WriteAddsMatches
<1>10. AuditsGnosis => AccountInv'
  BY <1>1, NextAccountInv DEF HandoverInv
<1> QED
  BY <1>1, <1>3, <1>7, <1>9, <1>10
     DEF HandoverInv, UniqueRows, OneToOneLogs, OneToOneMints, OneToOneBurns, AddedMatch,
         MintEntriesMatch, BurnEntriesMatch

\* Whatever a step adds to the committed logs is a match.
LEMMA StepAddsMatches ==
  ASSUME HandoverInv, [Next]_vars
  PROVE  /\ \A m \in db'.mint_txs, e \in db'.deposits, i \in DOMAIN db'.audited_mints :
              /\ i > Len(db.audited_mints)
              /\ db'.audited_mints[i] = [mint |-> m.nonce, deposit |-> e.eth_tx_hash]
              => Backs(e, m)
         /\ \A b \in db'.burn_tx_outs, w \in db'.withdrawals, i \in DOMAIN db'.audited_burns :
              /\ i > Len(db.audited_burns)
              /\ db'.audited_burns[i] = [burn |-> b.public_key, withdrawal |-> w.eth_tx_hash]
              => Redeems(w, b)
<1>1. db' \in {db, wdb} /\ db \in Databases /\ UniqueRows(db) /\ UniqueRows(wdb)
  BY NextDbStep DEF HandoverInv, DbStep, IInv, TypeOK, LedgerTypeOK, StoreTypeOK
<1>2. AddedMatch(db, db')
  BY <1>1, AddsNothing DEF HandoverInv
<1>3. UniqueRows(db')
  BY <1>1
<1>4. ASSUME NEW m \in db'.mint_txs, NEW e \in db'.deposits, NEW i \in DOMAIN db'.audited_mints,
             i > Len(db.audited_mints),
             db'.audited_mints[i] = [mint |-> m.nonce, deposit |-> e.eth_tx_hash]
      PROVE  Backs(e, m)
  <2>1. PICK x \in db'.mint_txs, y \in db'.deposits :
          /\ db'.audited_mints[i] = [mint |-> x.nonce, deposit |-> y.eth_tx_hash]
          /\ Backs(y, x)
    BY <1>2, <1>4 DEF AddedMatch, MintEntriesMatch
  <2>2. x = m /\ y = e
    BY <1>3, <1>4, <2>1 DEF UniqueRows
  <2> QED
    BY <2>1, <2>2
<1>5. ASSUME NEW b \in db'.burn_tx_outs, NEW w \in db'.withdrawals,
             NEW i \in DOMAIN db'.audited_burns, i > Len(db.audited_burns),
             db'.audited_burns[i] = [burn |-> b.public_key, withdrawal |-> w.eth_tx_hash]
      PROVE  Redeems(w, b)
  <2>1. PICK x \in db'.burn_tx_outs, y \in db'.withdrawals :
          /\ db'.audited_burns[i] = [burn |-> x.public_key, withdrawal |-> y.eth_tx_hash]
          /\ Redeems(y, x)
    BY <1>2, <1>5 DEF AddedMatch, BurnEntriesMatch
  <2>2. x = b /\ y = w
    BY <1>3, <1>5, <2>1 DEF UniqueRows
  <2> QED
    BY <2>1, <2>2
<1> QED
  BY <1>4, <1>5

\* The processes have just been started on a database that is in order.
Started ==
  /\ db \in Databases /\ wdb = db /\ holder = {} /\ failures \in 0 .. MaxFailures
  /\ ledger \in Seq(Blocks) /\ Len(ledger) <= MaxBlocks
  /\ scan = [p \in Procs |-> ScanAt("poll")]
  /\ work = [t \in Workers |-> WorkAt("poll")]
  /\ api \in [AuditedSafes -> Seq(RawGnosisTransactions)]
  /\ DbInv(db) /\ UniqueRows(db) /\ OneToOneLogs(db)
  /\ AuditsGnosis => MintsAccounted(db, {}) /\ BurnsAccounted(db, {})

\* Whoever starts on such a database may rely on it.
LEMMA StartedHandover == Started => HandoverInv
<1> SUFFICES ASSUME Started PROVE HandoverInv
  OBVIOUS
<1>1. /\ scan \in [Procs -> ScanStates] /\ work \in [Workers -> WorkStates]
      /\ \A p \in Procs : scan[p] = ScanAt("poll")
      /\ \A t \in Workers : work[t] = WorkAt("poll")
  BY StartStates DEF Started, ScanPcs, WorkPcs
<1>2. TypeOK
  BY <1>1 DEF Started, TypeOK, LedgerTypeOK, StoreTypeOK, GnosisTypeOK, WorkStates
<1>3. /\ \A p \in Procs : scan[p].pc \notin ScanInTx
      /\ \A t \in Workers : work[t].pc \notin WorkInTx
  BY <1>1 DEF ScanAt, ScanInTx, WorkAt, WorkInTx
<1>4. /\ \A p \in Procs : ScanInv(scan[p], wdb, ledger)
      /\ \A t \in Workers : WorkInv(work[t])
  BY <1>1 DEF ScanInv, ScanAt, WorkInv, WorkAt, WorkInTx
<1>5. IInv
  BY <1>2, <1>3, <1>4 DEF Started, IInv, LockInv
<1>6. AuditsGnosis => AccountInv
  BY <1>3 DEF Started, AccountInv
<1>7. AddedMatch(db, wdb)
  BY AddsNothing DEF Started
<1> QED
  BY <1>5, <1>6, <1>7 DEF Started, HandoverInv

=============================================================================
