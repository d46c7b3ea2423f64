----------------------------- MODULE AuditedMint -----------------------------
(***************************************************************************)
(* Matching mints with deposits (db/models/audited_mint.rs).               *)
(*                                                                         *)
(* A try_match_* call is the set of databases it may leave behind.  The    *)
(* search and the insertion into audited_mints run in a savepoint that an  *)
(* error rolls back; the error is then counted outside it, and the callers *)
(* only log it.                                                            *)
(***************************************************************************)
EXTENDS AuditDb

\* Mutant: the amounts are not compared.
verify_mint_without_amount(mint_tx, deposit, cfg) ==
  LET token == get_token_by_eth_contract_addr(cfg, deposit.token_addr)
  IN  IF deposit.safe_addr # cfg.safe_addr THEN "Other"
      ELSE IF token = {} THEN "EthereumTokenNotAudited"
      ELSE IF \/ \E t \in token : t.token_id # mint_tx.token_id
              \/ mint_tx.nonce # expected_mc_mint_tx_nonce(deposit)
           THEN "DepositAndMintMismatch"
      ELSE "Ok"

\* Mutant: a token that is not configured is no obstacle.
verify_mint_of_any_token(mint_tx, deposit, cfg) ==
  LET token == get_token_by_eth_contract_addr(cfg, deposit.token_addr)
  IN  IF deposit.safe_addr # cfg.safe_addr THEN "Other"
      ELSE IF \/ \E t \in token : t.token_id # mint_tx.token_id
              \/ mint_tx.nonce # expected_mc_mint_tx_nonce(deposit)
              \/ mint_tx.amount # deposit.amount
           THEN "DepositAndMintMismatch"
      ELSE "Ok"

verify_mint_tx_matches_deposit(mint_tx, deposit, cfg) ==
  LET token == get_token_by_eth_contract_addr(cfg, deposit.token_addr)
  IN  IF deposit.safe_addr # cfg.safe_addr THEN "Other"
      ELSE IF token = {} THEN "EthereumTokenNotAudited"
      ELSE IF \/ \E t \in token : t.token_id # mint_tx.token_id
              \/ mint_tx.nonce # expected_mc_mint_tx_nonce(deposit)
              \/ mint_tx.amount # deposit.amount
           THEN "DepositAndMintMismatch"
      ELSE "Ok"

\* Mutant: the id of some stored deposit, not of the one that matched.
associate_some_deposit(d, mint_tx, deposit) ==
  [d EXCEPT !.audited_mints =
     Append(@, [mint    |-> mint_tx.nonce,
                deposit |-> (CHOOSE e \in d.deposits : TRUE).eth_tx_hash])]

associate_deposit_with_mint(d, mint_tx, deposit) ==
  [d EXCEPT !.audited_mints =
     Append(@, [mint |-> mint_tx.nonce, deposit |-> deposit.eth_tx_hash])]

\* The result of the search a deposit starts, with the mint it ended on.
deposit_match_results(d, deposit, cfg) ==
  LET found == find_unaudited_mint_tx_by_nonce(d, expected_mc_mint_tx_nonce(deposit))
  IN  IF deposit.safe_addr # cfg.safe_addr
        THEN {[res |-> "Other", mint |-> {}]}
      ELSE IF DepositIsAudited(d, deposit.eth_tx_hash)
        THEN {[res |-> "AlreadyExists", mint |-> {}]}
      ELSE IF found = {}
        THEN {[res |-> "NotFound", mint |-> {}]}
      ELSE {[res  |-> verify_mint_tx_matches_deposit(m, deposit, cfg),
             mint |-> {m}] : m \in found}

\* The counter an unsuccessful search of a deposit increments.
deposit_error_counter(res) ==
  CASE res = "DepositAndMintMismatch"  -> "num_mismatching_mints_and_deposits"
    [] res = "EthereumTokenNotAudited" -> "num_unknown_ethereum_token_deposits"
    [] OTHER -> "num_unexpected_errors_matching_deposits_to_mints"

\* Mutant: the error is counted inside the savepoint that it rolls back.
try_match_deposit_uncounted(d, deposit, cfg) ==
  UNION {IF r.res = "Ok"
           THEN {associate_deposit_with_mint(d, m, deposit) : m \in r.mint}
           ELSE {d} :
         r \in deposit_match_results(d, deposit, cfg)}

\* cfg is the safe configuration of the thread that saw the deposit.
try_match_deposit_with_mint(d, deposit, cfg) ==
  UNION {IF r.res = "Ok"
           THEN {associate_deposit_with_mint(d, m, deposit) : m \in r.mint}
           ELSE {Inc(d, deposit_error_counter(r.res))} :
         r \in deposit_match_results(d, deposit, cfg)}

\* The result of the search a mint starts, with the deposit it ended on.
mint_match_results(d, mint_tx) ==
  LET found == find_unaudited_deposit_by_nonce(d, mint_tx.nonce)
      check(e) ==
        LET cfgs == get_audited_safe_config_by_safe_addr(e.safe_addr)
        IN  IF cfgs = {} THEN {[res |-> "GnosisSafeNotAudited", deposit |-> {}]}
            ELSE {[res     |-> verify_mint_tx_matches_deposit(mint_tx, e, cfg),
                   deposit |-> {e}] : cfg \in cfgs}
  IN  IF MintIsAudited(d, mint_tx.nonce)
        THEN {[res |-> "AlreadyExists", deposit |-> {}]}
      ELSE IF found = {}
        THEN {[res |-> "NotFound", deposit |-> {}]}
      ELSE UNION {check(e) : e \in found}

\* The counter an unsuccessful search of a mint increments.
mint_error_counter(res) ==
  CASE res = "GnosisSafeNotAudited"    -> "num_mints_to_unknown_safe"
    [] res = "DepositAndMintMismatch"  -> "num_mismatching_mints_and_deposits"
    [] res = "EthereumTokenNotAudited" -> "num_unknown_ethereum_token_deposits"
    [] OTHER -> "num_unexpected_errors_matching_mints_to_deposits"

\* Mutant: a safe that is not configured is only logged.
try_match_mint_of_known_safe(d, mint_tx) ==
  UNION {CASE r.res = "Ok" -> {associate_deposit_with_mint(d, mint_tx, e) : e \in r.deposit}
           [] r.res = "GnosisSafeNotAudited" -> {d}
           [] OTHER -> {Inc(d, mint_error_counter(r.res))} :
         r \in mint_match_results(d, mint_tx)}

try_match_mint_with_deposit(d, mint_tx) ==
  UNION {IF r.res = "Ok"
           THEN {associate_deposit_with_mint(d, mint_tx, e) : e \in r.deposit}
           ELSE {Inc(d, mint_error_counter(r.res))} :
         r \in mint_match_results(d, mint_tx)}

=============================================================================
