------------------------ MODULE ReconfigurationProofs ------------------------
(***************************************************************************)
(* What survives a change of the audited safes, for every pair of          *)
(* configurations.                                                         *)
(*                                                                         *)
(* HandoverInv is the part of the auditor's invariant that says nothing    *)
(* about how the committed entries of the logs came about.  It is kept by  *)
(* every step under either configuration (NextHandover, cited once for     *)
(* each instance), and a database for which it holds under the old one is  *)
(* a database to start on under the new one (StartedHandover).             *)
(***************************************************************************)
EXTENDS Reconfiguration, TLAPS

\* The invariant of the configuration in force.
ReconfInv == IF reconfigured THEN New!HandoverInv ELSE Old!HandoverInv

----------------------------------------------------------------------------
(* The sets of rows, blocks and transactions do not depend on the          *)
(* configuration, and neither do facts about rows.                         *)

\* The types of the two instances agree.
LEMMA SameTypes ==
  /\ New!Databases = Old!Databases
  /\ New!BlockContents = Old!BlockContents
  /\ New!RawGnosisTransactions = Old!RawGnosisTransactions
<1>1. New!Databases = Old!Databases
  BY DEF New!Databases, Old!Databases, New!Option, Old!Option, New!U64, Old!U64, New!Nonces,
         Old!Nonces, New!MintConfigs, Old!MintConfigs, New!MintConfigTxRows,
         Old!MintConfigTxRows, New!MintConfigIds, Old!MintConfigIds, New!MintTxRows,
         Old!MintTxRows, New!BurnTxOutRows, Old!BurnTxOutRows, New!DepositRows,
         Old!DepositRows, New!WithdrawalRows, Old!WithdrawalRows, New!AuditedMintRows,
         Old!AuditedMintRows, New!AuditedBurnRows, Old!AuditedBurnRows, New!CounterNames,
         Old!CounterNames, New!BalanceMaps, Old!BalanceMaps, New!BlockBalanceRows,
         Old!BlockBalanceRows
<1>2. New!BlockContents = Old!BlockContents
  BY DEF New!BlockContents, Old!BlockContents, New!CoreMintConfigTxs, Old!CoreMintConfigTxs,
         New!CoreMintTxs, Old!CoreMintTxs, New!TxOuts, Old!TxOuts, New!MintConfigs,
         Old!MintConfigs, New!Nonces, Old!Nonces, New!U64, Old!U64
<1>3. New!RawGnosisTransactions = Old!RawGnosisTransactions
  BY DEF New!RawGnosisTransactions, Old!RawGnosisTransactions, New!EthereumTransactions,
         Old!EthereumTransactions, New!EthereumTransfers, Old!EthereumTransfers,
         New!MultiSigTransactions, Old!MultiSigTransactions, New!OtherTransactions,
         Old!OtherTransactions, New!Option, Old!Option
<1> QED
  BY <1>1, <1>2, <1>3

\* The lemmas of the auditor hold for the old configuration.
LEMMA OldSteps ==
  /\ Old!Init => Old!HandoverInv
  /\ Old!HandoverInv /\ [Old!Next]_(Old!vars) => Old!HandoverInv'
  BY ReconfAssumption, Old!InitHandover, Old!NextHandover

\* And for the new one.
LEMMA NewSteps ==
  /\ New!Started => New!HandoverInv
  /\ New!HandoverInv /\ [New!Next]_(New!vars) => New!HandoverInv'
  BY ReconfAssumption, SameTypes, New!StartedHandover, New!NextHandover

\* Counting does not depend on the configuration either.
LEMMA SameCounts ==
  ASSUME NEW S
  PROVE  /\ Old!IsFiniteSet(S) <=> New!IsFiniteSet(S)
         /\ Old!Cardinality(S) = New!Cardinality(S)
<1>1. Old!IsFiniteSet(S) <=> New!IsFiniteSet(S)
  BY DEF Old!IsFiniteSet, New!IsFiniteSet
<1>2. Old!Cardinality(S) = New!Cardinality(S)
  BY DEF Old!Cardinality, New!Cardinality
<1> QED
  BY <1>1, <1>2

\* Facts about rows, under either configuration.
LEMMA SameFacts ==
  ASSUME NEW d
  PROVE  /\ Old!DbInv(d) => New!DbInv(d)
         /\ Old!UniqueRows(d) => New!UniqueRows(d)
         /\ Old!OneToOneLogs(d) <=> New!OneToOneLogs(d)
         /\ Old!MintsAccounted(d, {}) => New!MintsAccounted(d, {})
         /\ Old!BurnsAccounted(d, {}) => New!BurnsAccounted(d, {})
<1>1. Old!DbInv(d) => New!DbInv(d)
  BY DEF Old!DbInv, New!DbInv
<1>2. Old!UniqueRows(d) => New!UniqueRows(d)
  BY DEF Old!UniqueRows, New!UniqueRows
<1>3. Old!OneToOneLogs(d) <=> New!OneToOneLogs(d)
  BY DEF Old!OneToOneLogs, New!OneToOneLogs, Old!OneToOneMints, New!OneToOneMints,
         Old!OneToOneBurns, New!OneToOneBurns
<1>4. Old!MintTraces(d) = New!MintTraces(d) /\ Old!BurnTraces(d) = New!BurnTraces(d)
  BY Zenon DEF Old!MintTraces, New!MintTraces, Old!BurnTraces, New!BurnTraces
<1>5. Old!MintsAccounted(d, {}) => New!MintsAccounted(d, {})
  BY <1>4, SameCounts DEF Old!MintsAccounted, New!MintsAccounted
<1>6. Old!BurnsAccounted(d, {}) => New!BurnsAccounted(d, {})
  BY <1>4, SameCounts DEF Old!BurnsAccounted, New!BurnsAccounted
<1> QED
  BY <1>1, <1>2, <1>3, <1>5, <1>6

----------------------------------------------------------------------------
(* The change.                                                             *)

\* The listings under the new configuration are those of its safes.
LEMMA ListingsCarryOver ==
  ASSUME Old!HandoverInv, Reconfigure
  PROVE  api' \in [New!AuditedSafes -> Seq(New!RawGnosisTransactions)]
<1>1. api \in [Old!AuditedSafes -> Seq(Old!RawGnosisTransactions)]
  BY DEF Old!HandoverInv, Old!IInv, Old!TypeOK, Old!GnosisTypeOK
<1>2. \A a \in DOMAIN api : api[a] \in Seq(New!RawGnosisTransactions)
  BY <1>1, SameTypes
<1> QED
  BY <1>2 DEF Reconfigure

\* The new processes start on a database that is in order, whatever point the
\* old ones were stopped at.
LEMMA StartsInOrder ==
  ASSUME Old!HandoverInv, Reconfigure
  PROVE  New!Started'
<1>1. /\ Old!IInv /\ Old!UniqueRows(db) /\ Old!OneToOneLogs(db)
      /\ AuditsGnosis => Old!AccountInv
  BY DEF Old!HandoverInv
<1>2. /\ db \in Old!Databases /\ failures \in 0 .. MaxFailures
      /\ ledger \in Seq(Blocks) /\ Len(ledger) <= MaxBlocks
      /\ Old!DbInv(db)
  BY <1>1 DEF Old!IInv, Old!TypeOK, Old!LedgerTypeOK, Old!StoreTypeOK
<1>3. AuditsGnosis => Old!MintsAccounted(db, {}) /\ Old!BurnsAccounted(db, {})
  BY <1>1 DEF Old!AccountInv
<1>4. /\ db \in New!Databases /\ New!DbInv(db) /\ New!UniqueRows(db) /\ New!OneToOneLogs(db)
      /\ AuditsGnosis => New!MintsAccounted(db, {}) /\ New!BurnsAccounted(db, {})
  BY <1>1, <1>2, <1>3, SameTypes, SameFacts
<1>5. /\ db' = db /\ wdb' = db /\ holder' = {} /\ failures' = failures /\ ledger' = ledger
      /\ scan' = [p \in Procs |-> New!ScanAt("poll")]
      /\ work' = [t \in New!Workers |-> New!WorkAt("poll")]
  BY DEF Reconfigure
<1>6. New!DbInv(db)' /\ New!UniqueRows(db)' /\ New!OneToOneLogs(db)'
  BY <1>4, <1>5 DEF New!DbInv, New!UniqueRows, New!OneToOneLogs, New!OneToOneMints,
                    New!OneToOneBurns
<1>7. AuditsGnosis => New!MintsAccounted(db, {})' /\ New!BurnsAccounted(db, {})'
  BY <1>4, <1>5 DEF New!MintsAccounted, New!BurnsAccounted, New!MintTraces, New!BurnTraces
<1> QED
  BY <1>2, <1>4, <1>5, <1>6, <1>7, ListingsCarryOver DEF New!Started

\* Every step keeps the invariant of the configuration in force.
LEMMA ReconfNextInv ==
  ASSUME ReconfInv, [ReconfNext]_reconfVars
  PROVE  ReconfInv'
<1>1. CASE UNCHANGED reconfVars
  <2>1. UNCHANGED (Old!vars) /\ UNCHANGED (New!vars) /\ reconfigured' = reconfigured
    BY <1>1 DEF reconfVars, Old!vars, New!vars, Old!storeVars, New!storeVars, Old!ledgerVars,
                New!ledgerVars, Old!gnosisVars, New!gnosisVars
  <2> QED
    BY <2>1, OldSteps, NewSteps DEF ReconfInv
<1>2. CASE ~reconfigured /\ Old!Next /\ UNCHANGED reconfigured
  BY <1>2, OldSteps DEF ReconfInv
<1>3. CASE reconfigured /\ New!Next /\ UNCHANGED reconfigured
  BY <1>3, NewSteps DEF ReconfInv
<1>4. CASE Reconfigure
  <2>1. ~reconfigured /\ reconfigured' = TRUE /\ Old!HandoverInv
    BY <1>4 DEF Reconfigure, ReconfInv
  <2>2. New!Started'
    BY <1>4, <2>1, StartsInOrder
  <2>3. New!HandoverInv'
    BY <2>2, NewSteps, PTL
  <2> QED
    BY <2>1, <2>3 DEF ReconfInv
<1> QED
  BY <1>1, <1>2, <1>3, <1>4 DEF ReconfNext

\* The invariant holds in every reachable state.
LEMMA ReconfInvariance == ReconfSpec => []ReconfInv
<1>1. ReconfInit => ReconfInv
  BY OldSteps DEF ReconfInit, ReconfInv
<1>2. ReconfInv /\ [ReconfNext]_reconfVars => ReconfInv'
  BY ReconfNextInv
<1> QED
  BY <1>1, <1>2, PTL DEF ReconfSpec

----------------------------------------------------------------------------
(* The theorems.                                                           *)

\* Whatever safes and tokens are dropped, added or replaced, and at whatever
\* point the processes are stopped for it, every attempt to match has left one
\* trace, and no row is matched twice (try_match_mint_with_deposit and the
\* three functions like it, over rows of either configuration).
THEOREM AccountsSurvive == ReconfSpec => []AccountingSurvives
<1>1. ASSUME Old!HandoverInv PROVE AccountingSurvives
  <2>1. Old!IInv /\ (AuditsGnosis => Old!AccountInv) /\ Old!OneToOneLogs(db)
    BY <1>1 DEF Old!HandoverInv
  <2>2. Old!MintAttemptsAreAccounted /\ Old!BurnAttemptsAreAccounted
    BY <2>1, ReconfAssumption, Old!AttemptsAreAccounted
  <2> QED
    BY <2>1, <2>2 DEF AccountingSurvives, Old!OneToOneLogs
<1>2. ASSUME New!HandoverInv PROVE AccountingSurvives
  <2>1. New!IInv /\ (AuditsGnosis => New!AccountInv) /\ New!OneToOneLogs(db)
    BY <1>2 DEF New!HandoverInv
  <2>2. New!MintAttemptsAreAccounted /\ New!BurnAttemptsAreAccounted
    BY <2>1, ReconfAssumption, SameTypes, New!AttemptsAreAccounted
  <2>3. Old!MintAttemptsAreAccounted /\ Old!BurnAttemptsAreAccounted
    BY <2>2, SameCounts DEF Old!MintAttemptsAreAccounted, New!MintAttemptsAreAccounted,
                            Old!BurnAttemptsAreAccounted, New!BurnAttemptsAreAccounted
  <2> QED
    BY <2>1, <2>3, SameFacts DEF AccountingSurvives, Old!OneToOneLogs
<1>3. ReconfInv => AccountingSurvives
  BY <1>1, <1>2 DEF ReconfInv
<1> QED
  BY <1>3, ReconfInvariance, PTL

\* What a step adds to the committed logs, under the old configuration.
LEMMA OldStepAdds ==
  ASSUME Old!HandoverInv, [Old!Next]_(Old!vars)
  PROVE  /\ \A x \in MintPairsAfter(Len(db.audited_mints), db') : Old!Backs(x[2], x[1])
         /\ \A x \in BurnPairsAfter(Len(db.audited_burns), db') : Old!Redeems(x[2], x[1])
  BY ReconfAssumption, Old!StepAddsMatches DEF MintPairsAfter, BurnPairsAfter

\* And under the new one.
LEMMA NewStepAdds ==
  ASSUME New!HandoverInv, [New!Next]_(New!vars)
  PROVE  /\ \A x \in MintPairsAfter(Len(db.audited_mints), db') : New!Backs(x[2], x[1])
         /\ \A x \in BurnPairsAfter(Len(db.audited_burns), db') : New!Redeems(x[2], x[1])
  BY ReconfAssumption, SameTypes, New!StepAddsMatches DEF MintPairsAfter, BurnPairsAfter

\* Whatever a step adds to the audit log is a match under the configuration in
\* force, although rows stored under another one are candidates too
\* (verify_mint_tx_matches_deposit, verify_burn_tx_out_matches_withdrawal).
THEOREM MatchesFollow == ReconfSpec => MatchesFollowConfig
<1> DEFINE Follows ==
      /\ \A x \in MintPairsAfter(Len(db.audited_mints), db') :
           IF reconfigured THEN New!Backs(x[2], x[1]) ELSE Old!Backs(x[2], x[1])
      /\ \A x \in BurnPairsAfter(Len(db.audited_burns), db') :
           IF reconfigured THEN New!Redeems(x[2], x[1]) ELSE Old!Redeems(x[2], x[1])
<1>1. ReconfInv /\ [ReconfNext]_reconfVars => [Follows]_reconfVars
  <2> SUFFICES ASSUME ReconfInv, ReconfNext PROVE Follows
    OBVIOUS
  <2>1. CASE ~reconfigured /\ Old!Next
    BY <2>1, OldStepAdds DEF ReconfInv
  <2>2. CASE reconfigured /\ New!Next
    BY <2>2, NewStepAdds DEF ReconfInv
  <2>3. CASE Reconfigure
    <3>1. ~reconfigured /\ db' = db /\ Old!HandoverInv
      BY <2>3 DEF Reconfigure, ReconfInv
    <3>2. db \in Old!Databases
      BY <3>1 DEF Old!HandoverInv, Old!IInv, Old!TypeOK, Old!LedgerTypeOK, Old!StoreTypeOK
    <3>3. Len(db.audited_mints) \in Nat /\ Len(db.audited_burns) \in Nat
      BY <3>2 DEF Old!Databases
    <3>4. /\ MintPairsAfter(Len(db.audited_mints), db) = {}
          /\ BurnPairsAfter(Len(db.audited_burns), db) = {}
      BY <3>3 DEF MintPairsAfter, BurnPairsAfter
    <3> QED
      BY <3>1, <3>4
  <2> QED
    BY <2>1, <2>2, <2>3 DEF ReconfNext
<1> QED
  BY <1>1, ReconfInvariance, PTL DEF ReconfSpec, MatchesFollowConfig

=============================================================================
