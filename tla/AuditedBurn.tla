----------------------------- MODULE AuditedBurn -----------------------------
(***************************************************************************)
(* Matching burns with withdrawals (db/models/audited_burn.rs), the mirror *)
(* image of AuditedMint with one difference that matters: a burn's public  *)
(* key is UNIQUE, but mc_tx_out_public_key_hex of a withdrawal is not, so  *)
(* a burn may find several withdrawals and takes an arbitrary one.         *)
(***************************************************************************)
EXTENDS AuditDb

\* Mutant: the token ids are not compared.
verify_burn_without_token(burn, withdrawal, cfg) ==
  LET token == get_token_by_eth_contract_addr(cfg, withdrawal.token_addr)
  IN  IF withdrawal.safe_addr # cfg.safe_addr THEN "Other"
      ELSE IF token = {} THEN "EthereumTokenNotAudited"
      ELSE IF \/ burn.public_key # withdrawal.public_key
              \/ burn.amount # withdrawal.amount
           THEN "WithdrawalAndBurnMismatch"
      ELSE "Ok"

verify_burn_tx_out_matches_withdrawal(burn, withdrawal, cfg) ==
  LET token == get_token_by_eth_contract_addr(cfg, withdrawal.token_addr)
  IN  IF withdrawal.safe_addr # cfg.safe_addr THEN "Other"
      ELSE IF token = {} THEN "EthereumTokenNotAudited"
      ELSE IF \/ \E t \in token : t.token_id # burn.token_id
              \/ burn.public_key # withdrawal.public_key
              \/ burn.amount # withdrawal.amount
           THEN "WithdrawalAndBurnMismatch"
      ELSE "Ok"

associate_withdrawal_with_burn(d, burn, withdrawal) ==
  [d EXCEPT !.audited_burns =
     Append(@, [burn |-> burn.public_key, withdrawal |-> withdrawal.eth_tx_hash])]

\* The result of the search a withdrawal starts, with the burn it ended on.
withdrawal_match_results(d, withdrawal, cfg) ==
  LET found == find_unaudited_burn_tx_out_by_public_key(d, withdrawal.public_key)
  IN  IF withdrawal.safe_addr # cfg.safe_addr
        THEN {[res |-> "Other", burn |-> {}]}
      ELSE IF WithdrawalIsAudited(d, withdrawal.eth_tx_hash)
        THEN {[res |-> "AlreadyExists", burn |-> {}]}
      ELSE IF found = {}
        THEN {[res |-> "NotFound", burn |-> {}]}
      ELSE {[res  |-> verify_burn_tx_out_matches_withdrawal(b, withdrawal, cfg),
             burn |-> {b}] : b \in found}

\* The counter an unsuccessful search of a withdrawal increments.
withdrawal_error_counter(res) ==
  CASE res = "WithdrawalAndBurnMismatch" -> "num_mismatching_burns_and_withdrawals"
    [] res = "EthereumTokenNotAudited"   -> "num_unknown_ethereum_token_withdrawals"
    [] OTHER -> "num_unexpected_errors_matching_withdrawals_to_burns"

\* cfg is the safe configuration of the thread that saw the withdrawal.
try_match_withdrawal_with_burn(d, withdrawal, cfg) ==
  UNION {IF r.res = "Ok"
           THEN {associate_withdrawal_with_burn(d, b, withdrawal) : b \in r.burn}
           ELSE {Inc(d, withdrawal_error_counter(r.res))} :
         r \in withdrawal_match_results(d, withdrawal, cfg)}

\* The result of the search a burn starts, with the withdrawal it ended on.
burn_match_results(d, burn) ==
  LET found == find_unaudited_withdrawal_by_public_key(d, burn.public_key)
      check(w) ==
        LET cfgs == get_audited_safe_config_by_safe_addr(w.safe_addr)
        IN  IF cfgs = {} THEN {[res |-> "GnosisSafeNotAudited", withdrawal |-> {}]}
            ELSE {[res        |-> verify_burn_tx_out_matches_withdrawal(burn, w, cfg),
                   withdrawal |-> {w}] : cfg \in cfgs}
  IN  IF BurnIsAudited(d, burn.public_key)
        THEN {[res |-> "AlreadyExists", withdrawal |-> {}]}
      ELSE IF found = {}
        THEN {[res |-> "NotFound", withdrawal |-> {}]}
      ELSE UNION {check(w) : w \in found}

\* The counter an unsuccessful search of a burn increments.
burn_error_counter(res) ==
  CASE res = "GnosisSafeNotAudited"      -> "num_burns_from_unknown_safe"
    [] res = "WithdrawalAndBurnMismatch" -> "num_mismatching_burns_and_withdrawals"
    [] res = "EthereumTokenNotAudited"   -> "num_unknown_ethereum_token_withdrawals"
    [] OTHER -> "num_unexpected_errors_matching_burns_to_withdrawals"

\* Mutant: the error is counted inside the savepoint that it rolls back.
try_match_burn_uncounted(d, burn) ==
  UNION {IF r.res = "Ok"
           THEN {associate_withdrawal_with_burn(d, burn, w) : w \in r.withdrawal}
           ELSE {d} :
         r \in burn_match_results(d, burn)}

try_match_burn_with_withdrawal(d, burn) ==
  UNION {IF r.res = "Ok"
           THEN {associate_withdrawal_with_burn(d, burn, w) : w \in r.withdrawal}
           ELSE {Inc(d, burn_error_counter(r.res))} :
         r \in burn_match_results(d, burn)}

=============================================================================
