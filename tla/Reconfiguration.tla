--------------------------- MODULE Reconfiguration ---------------------------
(***************************************************************************)
(* The auditor is stopped and started again with another gnosis_safe_      *)
(* config, on the same database (bin/main.rs reads the file once, in       *)
(* cmd_scan_ledger).  gnosis/sync.rs warns that the code does not handle   *)
(* this: what was skipped under the old configuration stays skipped.  This *)
(* module asks what may still be relied upon.                              *)
(*                                                                         *)
(* Rows that were stored under the old configuration meet the new one, so  *)
(* the branches for unaudited safes and tokens are reached here, and only  *)
(* here.                                                                   *)
(***************************************************************************)
EXTENDS Naturals, Sequences, FiniteSets

CONSTANTS Tokens, EthAddrs, EthTxHashes, PublicKeys, Signers, MaxU64,
          Procs, MaxFailures, Blocks, MaxBlocks, AuditsGnosis,
          OldConfig, OldApiTxs,    \* the configuration before, and its listings
          NewConfig, NewApiTxs     \* the configuration after

VARIABLES db, wdb, holder, failures, ledger, scan, api, work,
          reconfigured   \* the new configuration is in force

reconfVars == <<db, wdb, holder, failures, ledger, scan, api, work, reconfigured>>

\* The auditor under each configuration.  MatchProofs extends ReserveAuditor: with
\* the instances come its lemmas, for ReconfigurationProofs to cite.
Old == INSTANCE MatchProofs WITH Config <- OldConfig, ApiTxs <- OldApiTxs

New == INSTANCE MatchProofs WITH Config <- NewConfig, ApiTxs <- NewApiTxs

\* Both configurations are read from a file of the same format, and their safes
\* may overlap in any way.
ASSUME ReconfAssumption ==
  /\ MaxU64 \in Nat \ {0}
  /\ OldConfig \in Seq(Old!AuditedSafeConfigs)
  /\ NewConfig \in Seq(New!AuditedSafeConfigs)
  /\ MaxFailures \in Nat
  /\ Blocks \subseteq Old!BlockContents
  /\ MaxBlocks \in Nat
  /\ AuditsGnosis \in BOOLEAN
  /\ OldApiTxs \in [Old!AuditedSafes -> SUBSET Old!RawGnosisTransactions]
  /\ NewApiTxs \in [New!AuditedSafes -> SUBSET New!RawGnosisTransactions]

ReconfInit == Old!Init /\ reconfigured = FALSE

\* All processes are stopped, losing what they had not committed, and started
\* with the new configuration: a thread per configured safe.
Reconfigure ==
  /\ ~reconfigured
  /\ reconfigured' = TRUE
  /\ holder' = {}
  /\ wdb' = db
  /\ scan' = [p \in Procs |-> New!ScanAt("poll")]
  /\ work' = [t \in New!Workers |-> New!WorkAt("poll")]
  /\ api' = [a \in New!AuditedSafes |-> IF a \in DOMAIN api THEN api[a] ELSE << >>]
  /\ UNCHANGED <<db, failures, ledger>>

ReconfNext ==
  \/ ~reconfigured /\ Old!Next /\ UNCHANGED reconfigured
  \/ reconfigured /\ New!Next /\ UNCHANGED reconfigured
  \/ Reconfigure

ReconfSpec == ReconfInit /\ [][ReconfNext]_reconfVars

----------------------------------------------------------------------------

\* The pairs of the audit log from position n + 1 on.
MintPairsAfter(n, d) ==
  {x \in d.mint_txs \X d.deposits : \E i \in n + 1 .. Len(d.audited_mints) :
     d.audited_mints[i] = [mint |-> x[1].nonce, deposit |-> x[2].eth_tx_hash]}

BurnPairsAfter(n, d) ==
  {x \in d.burn_tx_outs \X d.withdrawals : \E i \in n + 1 .. Len(d.audited_burns) :
     d.audited_burns[i] = [burn |-> x[1].public_key, withdrawal |-> x[2].eth_tx_hash]}

\* Whatever is added to the audit log is a match under the configuration in
\* force, although deposits and withdrawals stored under another one are
\* candidates: verify_mint_tx_matches_deposit and
\* verify_burn_tx_out_matches_withdrawal reject those of safes and tokens that
\* are no longer audited.
MatchesFollowConfig ==
  [][/\ \A x \in MintPairsAfter(Len(db.audited_mints), db') :
          IF reconfigured THEN New!Backs(x[2], x[1]) ELSE Old!Backs(x[2], x[1])
     /\ \A x \in BurnPairsAfter(Len(db.audited_burns), db') :
          IF reconfigured THEN New!Redeems(x[2], x[1]) ELSE Old!Redeems(x[2], x[1])]_reconfVars

\* Every attempt to match is in the log or in one counter, those that end on an
\* unaudited safe or token included, and nothing is matched again after the
\* change.
AccountingSurvives ==
  /\ Old!MintAttemptsAreAccounted /\ Old!BurnAttemptsAreAccounted
  /\ Old!OneToOneMints(db) /\ Old!OneToOneBurns(db)

=============================================================================
