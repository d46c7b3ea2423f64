----------------------------- MODULE CommitProofs -----------------------------
(***************************************************************************)
(* What a transaction adds up to by the time it commits, for every value   *)
(* of the constants: the next block of the ledger, or one new Ethereum     *)
(* transaction with all that it implies.                                   *)
(*                                                                         *)
(* The argument compares the committed database with the one the lock      *)
(* holder sees: what the thread has stored so far is determined by its     *)
(* program point and its position in the block, or in the transaction, it  *)
(* works on.  The last part shows that the auditor implements the abstract *)
(* audit log.                                                              *)
(***************************************************************************)
EXTENDS MatchProofs, AuditLogRefinement, FunctionTheorems, SequenceTheorems

----------------------------------------------------------------------------
(* Logs and counters.                                                      *)

\* What one move does to the logs and the counters.
AddsAtMostOne(d, d2) ==
  /\ \/ d2.audited_mints = d.audited_mints
     \/ \E row \in AuditedMintRows : d2.audited_mints = Append(d.audited_mints, row)
  /\ \/ d2.audited_burns = d.audited_burns
     \/ \E row \in AuditedBurnRows : d2.audited_burns = Append(d.audited_burns, row)
  /\ d2.counters = d.counters \/ \E k : CountsOne(d, d2, k)

\* Extends, entry by entry.
LEMMA ExtendsEntries ==
  ASSUME NEW S, NEW older \in Seq(S), NEW log \in Seq(S)
  PROVE  Extends(log, older) <=>
           Len(older) <= Len(log) /\ \A i \in 1 .. Len(older) : log[i] = older[i]
<1>1. Len(older) \in Nat /\ Len(log) \in Nat
  OBVIOUS
<1> SUFFICES ASSUME Len(older) <= Len(log)
             PROVE  SubSeq(log, 1, Len(older)) = older <=>
                      \A i \in 1 .. Len(older) : log[i] = older[i]
  BY DEF Extends
<1>2. \A i \in 1 .. Len(older) : log[i] \in S
  BY <1>1
<1>3. PICK s : s = SubSeq(log, 1, Len(older))
  OBVIOUS
<1>4. /\ s \in Seq(S) /\ Len(s) = Len(older)
      /\ \A i \in 1 .. Len(older) : s[i] = log[i]
  <2>1. PICK n \in Nat : n = Len(older)
    BY <1>1
  <2>2. \A i \in 1 .. n : log[i] \in S
    BY <1>2, <2>1
  <2>3. /\ SubSeq(log, 1, n) \in Seq(S)
        /\ Len(SubSeq(log, 1, n)) = IF 1 <= n THEN n - 1 + 1 ELSE 0
        /\ \A i \in 1 .. n - 1 + 1 : SubSeq(log, 1, n)[i] = log[1 + i - 1]
    BY <2>2, SubSeqProperties
  <2> QED
    BY <1>3, <2>1, <2>3
<1>5. s = older <=> \A i \in 1 .. Len(older) : s[i] = older[i]
  BY <1>4, SeqEqual
<1> QED
  BY <1>3, <1>4, <1>5

\* Growth is reflexive, and one move after another.
LEMMA GrowthComposes ==
  ASSUME NEW d \in Databases
  PROVE  /\ GrowsFrom(d, d)
         /\ \A w \in Databases, w2 \in Databases :
              GrowsFrom(d, w) /\ AddsAtMostOne(w, w2) => GrowsFrom(d, w2)
<1>1. \A e \in Databases : /\ e.audited_mints \in Seq(AuditedMintRows)
                           /\ e.audited_burns \in Seq(AuditedBurnRows)
                           /\ e.counters \in [CounterNames -> Nat]
  BY DEF Databases
<1>2. GrowsFrom(d, d)
  <2>1. /\ Extends(d.audited_mints, d.audited_mints) /\ Extends(d.audited_burns, d.audited_burns)
    BY <1>1, ExtendsEntries
  <2>2. \A c \in CounterNames : d.counters[c] <= d.counters[c]
    BY <1>1
  <2> QED
    BY <2>1, <2>2 DEF GrowsFrom
<1>3. ASSUME NEW w \in Databases, NEW w2 \in Databases, GrowsFrom(d, w), AddsAtMostOne(w, w2)
      PROVE  GrowsFrom(d, w2)
  <2>1. \A S : \A older \in Seq(S), log \in Seq(S) : \A row \in S :
          Extends(log, older) => Extends(Append(log, row), older)
    <3> SUFFICES ASSUME NEW S, NEW older \in Seq(S), NEW log \in Seq(S), NEW row \in S,
                        Extends(log, older)
                 PROVE  Extends(Append(log, row), older)
      OBVIOUS
    <3>1. Len(older) <= Len(log) /\ \A i \in 1 .. Len(older) : log[i] = older[i]
      BY ExtendsEntries
    <3>2. /\ Append(log, row) \in Seq(S) /\ Len(Append(log, row)) = Len(log) + 1
          /\ \A i \in 1 .. Len(log) : Append(log, row)[i] = log[i]
      OBVIOUS
    <3>3. /\ Len(older) <= Len(Append(log, row))
          /\ \A i \in 1 .. Len(older) : Append(log, row)[i] = older[i]
      BY <3>1, <3>2
    <3> QED
      BY <3>2, <3>3, ExtendsEntries
  <2>2. Extends(w2.audited_mints, d.audited_mints)
    BY <1>1, <1>3, <2>1 DEF GrowsFrom, AddsAtMostOne
  <2>3. Extends(w2.audited_burns, d.audited_burns)
    BY <1>1, <1>3, <2>1 DEF GrowsFrom, AddsAtMostOne
  <2>4. ASSUME NEW c \in CounterNames
        PROVE  d.counters[c] <= w2.counters[c]
    <3>1. d.counters[c] \in Nat /\ w.counters[c] \in Nat
      BY <1>1
    <3>2. w2.counters[c] \in {w.counters[c], w.counters[c] + 1}
      BY <1>3 DEF AddsAtMostOne, CountsOne
    <3>3. d.counters[c] <= w.counters[c]
      BY <1>3 DEF GrowsFrom
    <3> QED
      BY <3>1, <3>2, <3>3
  <2> QED
    BY <2>2, <2>3, <2>4 DEF GrowsFrom
<1> QED
  BY <1>2, <1>3

\* An attempt adds at most one entry and one count.
LEMMA TriesAddOne ==
  ASSUME NEW d, NEW d2, TriesMint(d, d2) \/ TriesBurn(d, d2)
  PROVE  AddsAtMostOne(d, d2)
<1>1. CASE TriesMint(d, d2)
  BY <1>1 DEF TriesMint, Counted, Keeps, AllBut, Fields, AddsAtMostOne
<1>2. CASE TriesBurn(d, d2)
  BY <1>2 DEF TriesBurn, Counted, Keeps, AllBut, Fields, AddsAtMostOne
<1> QED
  BY <1>1, <1>2

\* So does a move of the main thread.
LEMMA ScanMoveAddsOne ==
  ASSUME NEW s, NEW s2, NEW d \in Databases, NEW d2, NEW c \in BlockContents,
         ScanMove(s, s2, d, d2, c)
  PROVE  AddsAtMostOne(d, d2)
<1>1. CASE AuditMintMove(s, s2, d, d2, c) \/ AuditBurnMove(s, s2, d, d2, c)
  <2>1. c.mint_txs \in Seq(CoreMintTxs) /\ c.outputs \in Seq(TxOuts)
    BY DEF BlockContents
  <2>2. TriesMint(d, d2) \/ TriesBurn(d, d2)
    BY <1>1, <2>1, MintTries, BurnTries DEF AuditMintMove, AuditBurnMove
  <2> QED
    BY <2>2, TriesAddOne
<1>2. CASE \/ ConfigMove(s, s2, d, d2, c) \/ MintMove(s, s2, d, d2, c)
           \/ BurnMove(s, s2, d, d2, c) \/ FinishMove(s, s2, d, d2, c)
  <2>1. /\ d2.audited_mints = d.audited_mints /\ d2.audited_burns = d.audited_burns
        /\ d2.counters = d.counters \/ \E k : CountsOne(d, d2, k)
    <3>1. CASE ConfigMove(s, s2, d, d2, c)
      BY <3>1 DEF ConfigMove, StoresConfig, Keeps, AllBut, Fields
    <3>2. CASE MintMove(s, s2, d, d2, c)
      BY <3>2 DEF MintMove, StoresMint, Keeps, AllBut, Fields
    <3>3. CASE BurnMove(s, s2, d, d2, c)
      BY <3>3 DEF BurnMove, StoresBurn, Keeps, AllBut, Fields
    <3>4. CASE FinishMove(s, s2, d, d2, c)
      BY <3>4 DEF FinishMove, FinishesBlock, Keeps, AllBut, Fields
    <3> QED
      BY <1>2, <3>1, <3>2, <3>3, <3>4
  <2> QED
    BY <2>1 DEF AddsAtMostOne
<1>3. CASE d2 = d
  BY <1>3 DEF AddsAtMostOne
<1> QED
  BY <1>1, <1>2, <1>3
     DEF ScanMove, CheckMove, ConfigsDone, MintsDone, SkipMove, AuditMintsEnd, AuditBurnsEnd

\* And one of a safe thread.
LEMMA WorkMoveAddsOne ==
  ASSUME NEW s, NEW s2, NEW d \in Databases, NEW d2, NEW x, NEW k \in DOMAIN Config,
         WorkMove(s, s2, d, d2, x, Config[k])
  PROVE  AddsAtMostOne(d, d2)
<1>1. CASE DepositMove(s, s2, d, d2, x, Config[k])
  <2>1. PICK e \in DepositRows : StoresDeposit(d, d2, e, Config[k])
    BY <1>1 DEF DepositMove
  <2>2. PICK d1 \in Databases : Keeps(d, d1, AllBut({"deposits"})) /\ TriesMint(d1, d2)
    BY <2>1, MintTries DEF StoresDeposit
  <2>3. /\ d1.audited_mints = d.audited_mints /\ d1.audited_burns = d.audited_burns
        /\ d1.counters = d.counters
    BY <2>2 DEF Keeps, AllBut, Fields
  <2>4. AddsAtMostOne(d1, d2)
    BY <2>2, TriesAddOne
  <2> QED
    BY ONLY <2>3, <2>4 DEF AddsAtMostOne, CountsOne
<1>2. CASE WithdrawalMove(s, s2, d, d2, x, Config[k])
  <2>1. PICK w \in WithdrawalRows : StoresWithdrawal(d, d2, w, Config[k])
    BY <1>2 DEF WithdrawalMove
  <2>2. PICK d1 \in Databases : Keeps(d, d1, AllBut({"withdrawals"})) /\ TriesBurn(d1, d2)
    BY <2>1, BurnTries DEF StoresWithdrawal
  <2>3. /\ d1.audited_mints = d.audited_mints /\ d1.audited_burns = d.audited_burns
        /\ d1.counters = d.counters
    BY <2>2 DEF Keeps, AllBut, Fields
  <2>4. AddsAtMostOne(d1, d2)
    BY <2>2, TriesAddOne
  <2> QED
    BY ONLY <2>3, <2>4 DEF AddsAtMostOne, CountsOne
<1>3. CASE ~DepositMove(s, s2, d, d2, x, Config[k]) /\ ~WithdrawalMove(s, s2, d, d2, x, Config[k])
  <2>1. \/ Keeps(d, d2, AllBut({"gnosis_safe_txs"}))
        \/ Counted(d, d2, "num_invalid_ethereum_transactions")
        \/ Counted(d, d2, "num_invalid_multi_sig_transactions")
    BY <1>3 DEF WorkMove, SkipTxMove, InsertMove, ForeignTransferMove, UnknownTokenMove,
                TransfersEnd, NoWithdrawalMove, Keeps
  <2> QED
    BY <2>1 DEF Counted, Keeps, AllBut, Fields, AddsAtMostOne
<1> QED
  BY <1>1, <1>2, <1>3

----------------------------------------------------------------------------
(* What the main thread has stored of its block.                           *)

\* Storing a mint config tx adds its position; nothing else changes what is
\* stored.
LEMMA StoredConfigsMove ==
  ASSUME NEW s, s.pos \in Nat \ {0}, NEW s2, NEW d, NEW d2, NEW c \in BlockContents,
         ScanMove(s, s2, d, d2, c)
  PROVE  /\ ConfigMove(s, s2, d, d2, c) => StoredConfigs(s2, c) = StoredConfigs(s, c) \cup {s.pos}
         /\ ~ConfigMove(s, s2, d, d2, c) => StoredConfigs(s2, c) = StoredConfigs(s, c)
<1>1. DOMAIN c.mint_config_txs \subseteq Nat \ {0}
  BY DEF BlockContents
<1>2. ASSUME ConfigMove(s, s2, d, d2, c)
      PROVE  StoredConfigs(s2, c) = StoredConfigs(s, c) \cup {s.pos}
  <2>1. /\ s.pc = "mint_config_txs" /\ s2.pc = s.pc /\ s2.pos = s.pos + 1
        /\ s.pos \in DOMAIN c.mint_config_txs
    BY <1>2 DEF ConfigMove, ScanGoes
  <2> QED
    BY <1>1, <2>1 DEF StoredConfigs, AfterConfigs
<1>3. CASE CheckMove(s, s2, d, d2)
  <2>1. s.pc = "check_index" /\ s2.pc = "mint_config_txs" /\ s2.pos = 1
    BY <1>3 DEF CheckMove, ScanGoes
  <2>2. StoredConfigs(s2, c) = StoredConfigs(s, c)
    BY <1>1, <2>1 DEF StoredConfigs, AfterConfigs
  <2> QED
    BY <1>2, <2>2
<1>4. CASE ConfigsDone(s, s2, d, d2, c)
  <2>1. s.pc = "mint_config_txs" /\ s2.pc = "mint_txs" /\ \A i \in DOMAIN c.mint_config_txs : i < s.pos
    BY <1>4 DEF ConfigsDone, ScanGoes
  <2>2. StoredConfigs(s2, c) = StoredConfigs(s, c)
    BY <2>1 DEF StoredConfigs, AfterConfigs
  <2> QED
    BY <1>2, <2>2
<1>5. CASE ~CheckMove(s, s2, d, d2) /\ ~ConfigMove(s, s2, d, d2, c) /\ ~ConfigsDone(s, s2, d, d2, c)
  <2>1. s.pc \in AfterConfigs /\ s2.pc \in AfterConfigs
    BY <1>5 DEF ScanMove, MintMove, MintsDone, SkipMove, BurnMove, FinishMove, AuditMintMove,
                AuditMintsEnd, AuditBurnMove, AuditBurnsEnd, ScanGoes, AfterConfigs
  <2>2. StoredConfigs(s2, c) = StoredConfigs(s, c)
    BY <2>1 DEF StoredConfigs, AfterConfigs
  <2> QED
    BY <1>2, <2>2
<1> QED
  BY <1>2, <1>3, <1>4, <1>5

\* The same for the mints.
LEMMA StoredMintsMove ==
  ASSUME NEW s, s.pos \in Nat \ {0}, NEW s2, NEW d, NEW d2, NEW c \in BlockContents,
         ScanMove(s, s2, d, d2, c)
  PROVE  /\ MintMove(s, s2, d, d2, c) => StoredMints(s2, c) = StoredMints(s, c) \cup {s.pos}
         /\ ~MintMove(s, s2, d, d2, c) => StoredMints(s2, c) = StoredMints(s, c)
<1>1. DOMAIN c.mint_txs \subseteq Nat \ {0}
  BY DEF BlockContents
<1>2. ASSUME MintMove(s, s2, d, d2, c)
      PROVE  StoredMints(s2, c) = StoredMints(s, c) \cup {s.pos}
  <2>1. /\ s.pc = "mint_txs" /\ s2.pc = s.pc /\ s2.pos = s.pos + 1
        /\ s.pos \in DOMAIN c.mint_txs
    BY <1>2 DEF MintMove, ScanGoes
  <2> QED
    BY <1>1, <2>1 DEF StoredMints, AfterMints
<1>3. CASE CheckMove(s, s2, d, d2) \/ ConfigMove(s, s2, d, d2, c) \/ ConfigsDone(s, s2, d, d2, c)
  <2>1. /\ s.pc \in {"check_index", "mint_config_txs"}
        /\ s2.pc = "mint_config_txs" \/ (s2.pc = "mint_txs" /\ s2.pos = 1)
    BY <1>3 DEF CheckMove, ConfigMove, ConfigsDone, ScanGoes
  <2>2. StoredMints(s2, c) = StoredMints(s, c)
    BY <1>1, <2>1 DEF StoredMints, AfterMints
  <2> QED
    BY <1>2, <2>2
<1>4. CASE MintsDone(s, s2, d, d2, c)
  <2>1. s.pc = "mint_txs" /\ s2.pc = "burns" /\ \A i \in DOMAIN c.mint_txs : i < s.pos
    BY <1>4 DEF MintsDone, ScanGoes
  <2>2. StoredMints(s2, c) = StoredMints(s, c)
    BY <2>1 DEF StoredMints, AfterMints
  <2> QED
    BY <1>2, <2>2
<1>5. CASE \/ SkipMove(s, s2, d, d2, c) \/ BurnMove(s, s2, d, d2, c) \/ FinishMove(s, s2, d, d2, c)
           \/ AuditMintMove(s, s2, d, d2, c) \/ AuditMintsEnd(s, s2, d, d2, c)
           \/ AuditBurnMove(s, s2, d, d2, c) \/ AuditBurnsEnd(s, s2, d, d2, c)
  <2>1. s.pc \in AfterMints /\ s2.pc \in AfterMints
    BY <1>5 DEF SkipMove, BurnMove, FinishMove, AuditMintMove, AuditMintsEnd, AuditBurnMove,
                AuditBurnsEnd, ScanGoes, AfterMints
  <2>2. StoredMints(s2, c) = StoredMints(s, c)
    BY <2>1 DEF StoredMints, AfterMints
  <2> QED
    BY <1>2, <2>2
<1> QED
  BY <1>2, <1>3, <1>4, <1>5 DEF ScanMove

\* The same for the burns.
LEMMA StoredBurnsMove ==
  ASSUME NEW s, s.pos \in Nat \ {0}, NEW s2, NEW d, NEW d2, NEW c \in BlockContents,
         ScanMove(s, s2, d, d2, c)
  PROVE  /\ BurnMove(s, s2, d, d2, c) => StoredBurns(s2, c) = StoredBurns(s, c) \cup {s.pos}
         /\ ~BurnMove(s, s2, d, d2, c) => StoredBurns(s2, c) = StoredBurns(s, c)
<1>1. DOMAIN c.outputs \subseteq Nat \ {0}
  BY DEF BlockContents
<1>2. ASSUME BurnMove(s, s2, d, d2, c)
      PROVE  StoredBurns(s2, c) = StoredBurns(s, c) \cup {s.pos}
  <2>1. /\ s.pc = "burns" /\ s2.pc = s.pc /\ s2.pos = s.pos + 1
        /\ s.pos \in DOMAIN c.outputs /\ c.outputs[s.pos].burn
    BY <1>2 DEF BurnMove, ScanGoes
  <2> QED
    BY <1>1, <2>1 DEF StoredBurns, AfterFinish
<1>3. CASE \/ CheckMove(s, s2, d, d2) \/ ConfigMove(s, s2, d, d2, c) \/ ConfigsDone(s, s2, d, d2, c)
           \/ MintMove(s, s2, d, d2, c) \/ MintsDone(s, s2, d, d2, c)
  <2>1. /\ s.pc \in {"check_index", "mint_config_txs", "mint_txs"}
        /\ s2.pc \in {"mint_config_txs", "mint_txs"} \/ (s2.pc = "burns" /\ s2.pos = 1)
    BY <1>3 DEF CheckMove, ConfigMove, ConfigsDone, MintMove, MintsDone, ScanGoes
  <2>2. StoredBurns(s2, c) = StoredBurns(s, c)
    BY <1>1, <2>1 DEF StoredBurns, AfterFinish
  <2> QED
    BY <1>2, <2>2
<1>4. CASE SkipMove(s, s2, d, d2, c)
  <2>1. /\ s.pc \in {"burns", "audit_burns"} /\ s2.pc = s.pc /\ s2.pos = s.pos + 1
        /\ ~c.outputs[s.pos].burn
    BY <1>4 DEF SkipMove, ScanGoes
  <2>2. \A i \in DOMAIN c.outputs : c.outputs[i].burn => (i < s2.pos <=> i < s.pos)
    BY <1>1, <2>1
  <2>3. StoredBurns(s2, c) = StoredBurns(s, c)
    BY <2>1, <2>2 DEF StoredBurns, AfterFinish
  <2> QED
    BY <1>2, <2>3
<1>5. CASE FinishMove(s, s2, d, d2, c)
  <2>1. /\ s.pc = "burns" /\ s2.pc \in AfterFinish
        /\ \A i \in DOMAIN c.outputs : i < s.pos
    BY <1>5 DEF FinishMove, ScanGoes, AfterFinish
  <2>2. StoredBurns(s2, c) = StoredBurns(s, c)
    BY <2>1 DEF StoredBurns, AfterFinish
  <2> QED
    BY <1>2, <2>2
<1>6. CASE \/ AuditMintMove(s, s2, d, d2, c) \/ AuditMintsEnd(s, s2, d, d2, c)
           \/ AuditBurnMove(s, s2, d, d2, c) \/ AuditBurnsEnd(s, s2, d, d2, c)
  <2>1. s.pc \in AfterFinish /\ s2.pc \in AfterFinish
    BY <1>6 DEF AuditMintMove, AuditMintsEnd, AuditBurnMove, AuditBurnsEnd, ScanGoes, AfterFinish
  <2>2. StoredBurns(s2, c) = StoredBurns(s, c)
    BY <2>1 DEF StoredBurns, AfterFinish
  <2> QED
    BY <1>2, <2>2
<1> QED
  BY <1>2, <1>3, <1>4, <1>5, <1>6 DEF ScanMove

----------------------------------------------------------------------------
(* A block is a unit.                                                      *)

\* The tables that a move of the main thread other than an insert leaves alone.
UnitTables == SafeTables \cup {"mint_txs", "burn_tx_outs", "block_audit_data"}

\* A move that stores no burn and records no block keeps BlockUnit, mints may
\* be added.
LEMMA BlockUnitFrame ==
  ASSUME NEW s, NEW s2, NEW d, NEW w, NEW w2, NEW c,
         BlockUnit(s, d, w, c), Keeps(w, w2, UnitTables \ {"mint_txs"}),
         w.mint_txs \subseteq w2.mint_txs,
         StoredBurns(s2, c) = StoredBurns(s, c), s2.pc \in AfterFinish <=> s.pc \in AfterFinish
  PROVE  BlockUnit(s2, d, w2, c)
<1>1. Keeps(d, w2, SafeTables)
  BY DEF BlockUnit, Keeps, UnitTables, SafeTables
<1>2. w2.burn_tx_outs = w.burn_tx_outs /\ w2.block_audit_data = w.block_audit_data
  BY DEF Keeps, UnitTables
<1> QED
  BY <1>1, <1>2 DEF BlockUnit

\* The moves of the main thread: its open transaction stays the next block.
LEMMA ScanMoveUnit ==
  ASSUME NEW s, s.pos \in Nat \ {0}, NEW s2, NEW d, NEW w \in Databases, NEW w2,
         NEW c \in BlockContents, ScanMove(s, s2, w, w2, c), BlockUnit(s, d, w, c),
         s.pc = "burns" => s.block_index = Cardinality(w.block_audit_data)
  PROVE  BlockUnit(s2, d, w2, c)
<1>1. CASE BurnMove(s, s2, w, w2, c)
  <2>1. /\ s.pc = "burns" /\ s2.pc = "burns" /\ StoresBurn(w, w2, s.block_index, c.outputs[s.pos])
    BY <1>1 DEF BurnMove, ScanGoes
  <2>2. StoredBurns(s2, c) = StoredBurns(s, c) \cup {s.pos}
    BY <1>1, StoredBurnsMove
  <2>3. /\ Keeps(w, w2, SafeTables) /\ w2.mint_txs = w.mint_txs
        /\ w2.block_audit_data = w.block_audit_data
    BY <2>1 DEF StoresBurn, Keeps, AllBut, Fields, SafeTables
  <2>4. /\ w.burn_tx_outs \subseteq w2.burn_tx_outs
        /\ \A b \in w.burn_tx_outs : b.public_key # c.outputs[s.pos].public_key
    BY <2>1 DEF StoresBurn, BurnTxOutExists
  <2>5. Keeps(d, w2, SafeTables)
    BY <2>3 DEF BlockUnit, Keeps
  <2>6. \A i \in StoredBurns(s2, c), b \in d.burn_tx_outs :
          b.public_key # c.outputs[i].public_key
    BY <2>2, <2>4 DEF BlockUnit
  <2>7. s.pc \notin AfterFinish /\ s2.pc \notin AfterFinish
    BY <2>1 DEF AfterFinish
  <2> QED
    BY <2>3, <2>4, <2>5, <2>6, <2>7 DEF BlockUnit
<1>2. CASE FinishMove(s, s2, w, w2, c)
  <2>1. /\ s.pc \notin AfterFinish /\ s2.pc \in AfterFinish
        /\ s.block_index = Cardinality(w.block_audit_data)
        /\ FinishesBlock(w, w2, s.block_index)
    BY <1>2 DEF FinishMove, ScanGoes, AfterFinish
  <2>2. ~BurnMove(s, s2, w, w2, c)
    BY <2>1 DEF BurnMove, ScanGoes, AfterFinish
  <2>3. StoredBurns(s2, c) = StoredBurns(s, c)
    BY <2>2, StoredBurnsMove
  <2>4. /\ Keeps(w, w2, SafeTables) /\ w2.mint_txs = w.mint_txs
        /\ w2.burn_tx_outs = w.burn_tx_outs
        /\ w2.block_audit_data = w.block_audit_data \cup {Cardinality(w.block_audit_data)}
    BY <2>1 DEF FinishesBlock, Keeps, AllBut, Fields, SafeTables
  <2>5. w.block_audit_data = d.block_audit_data
    BY <2>1 DEF BlockUnit
  <2>6. Keeps(d, w2, SafeTables)
    BY <2>4 DEF BlockUnit, Keeps
  <2> QED
    BY <2>1, <2>3, <2>4, <2>5, <2>6 DEF BlockUnit
<1>3. CASE ~BurnMove(s, s2, w, w2, c) /\ ~FinishMove(s, s2, w, w2, c)
  <2>1. StoredBurns(s2, c) = StoredBurns(s, c)
    BY <1>3, StoredBurnsMove
  <2>2. s2.pc \in AfterFinish <=> s.pc \in AfterFinish
    BY <1>3 DEF ScanMove, CheckMove, ConfigMove, ConfigsDone, MintMove, MintsDone, SkipMove,
                AuditMintMove, AuditMintsEnd, AuditBurnMove, AuditBurnsEnd, ScanGoes, AfterFinish
  <2>3. Keeps(w, w2, UnitTables \ {"mint_txs"}) /\ w.mint_txs \subseteq w2.mint_txs
    <3>1. CASE ConfigMove(s, s2, w, w2, c)
      BY <3>1 DEF ConfigMove, StoresConfig, Keeps, AllBut, Fields, UnitTables, SafeTables
    <3>2. CASE MintMove(s, s2, w, w2, c)
      BY <3>2 DEF MintMove, StoresMint, Keeps, AllBut, Fields, UnitTables, SafeTables
    <3>3. CASE AuditMintMove(s, s2, w, w2, c) \/ AuditBurnMove(s, s2, w, w2, c)
      <4>1. c.mint_txs \in Seq(CoreMintTxs) /\ c.outputs \in Seq(TxOuts)
        BY DEF BlockContents
      <4>2. TriesMint(w, w2) \/ TriesBurn(w, w2)
        BY <3>3, <4>1, MintTries, BurnTries DEF AuditMintMove, AuditBurnMove
      <4> QED
        BY <4>2, TriesKeep DEF Keeps, AllBut, Fields, UnitTables, SafeTables
    <3>4. CASE w2 = w
      BY <3>4 DEF Keeps
    <3> QED
      BY <1>3, <3>1, <3>2, <3>3, <3>4
         DEF ScanMove, CheckMove, ConfigsDone, MintsDone, SkipMove, AuditMintsEnd, AuditBurnsEnd
  <2> QED
    BY <2>1, <2>2, <2>3, BlockUnitFrame
<1> QED
  BY <1>1, <1>2, <1>3

\* What the two searches for a burn's counterpart append names the row they
\* started from.
LEMMA NewBurnEntry ==
  ASSUME NEW w \in Databases, NEW w2
  PROVE  /\ \A o \in TxOuts : w2 \in try_match_burn_with_withdrawal(w, o) =>
              \/ w2.audited_burns = w.audited_burns
              \/ \E row \in AuditedBurnRows : /\ row.burn = o.public_key
                                              /\ w2.audited_burns = Append(w.audited_burns, row)
         /\ \A v \in WithdrawalRows, k \in DOMAIN Config :
              w2 \in try_match_withdrawal_with_burn(w, v, Config[k]) =>
                \/ w2.audited_burns = w.audited_burns
                \/ \E row \in AuditedBurnRows : /\ row.withdrawal = v.eth_tx_hash
                                                /\ w2.audited_burns = Append(w.audited_burns, row)
<1>1. \A c \in BurnErrors : Inc(w, c).audited_burns = w.audited_burns
  <2>1. BurnErrors \subseteq CounterNames
    BY DEF BurnErrors, CounterNames
  <2> QED
    BY <2>1, IncCounts DEF Counted, Keeps, AllBut, Fields
<1>2. ASSUME NEW b, NEW v, b.public_key \in PublicKeys, v.eth_tx_hash \in EthTxHashes,
             w2 = associate_withdrawal_with_burn(w, b, v)
      PROVE  \E row \in AuditedBurnRows :
               /\ row.burn = b.public_key /\ row.withdrawal = v.eth_tx_hash
               /\ w2.audited_burns = Append(w.audited_burns, row)
  <2>1. PICK row : row = [burn |-> b.public_key, withdrawal |-> v.eth_tx_hash]
    OBVIOUS
  <2>2. row \in AuditedBurnRows /\ row.burn = b.public_key /\ row.withdrawal = v.eth_tx_hash
    BY <1>2, <2>1 DEF AuditedBurnRows
  <2>3. PICK log : log = Append(w.audited_burns, row)
    OBVIOUS
  <2>4. w2 = [w EXCEPT !.audited_burns = log]
    BY <1>2, <2>1, <2>3 DEF associate_withdrawal_with_burn
  <2>5. w2.audited_burns = log
    BY ONLY <2>4, w \in Databases DEF Databases
  <2> QED
    BY <2>2, <2>3, <2>5
<1>3. ASSUME NEW o \in TxOuts, w2 \in try_match_burn_with_withdrawal(w, o)
      PROVE  \/ w2.audited_burns = w.audited_burns
             \/ \E row \in AuditedBurnRows : /\ row.burn = o.public_key
                                             /\ w2.audited_burns = Append(w.audited_burns, row)
  <2>1. PICK r \in burn_match_results(w, o) :
          w2 \in IF r.res = "Ok"
                 THEN {associate_withdrawal_with_burn(w, o, v) : v \in r.withdrawal}
                 ELSE {Inc(w, burn_error_counter(r.res))}
    BY <1>3 DEF try_match_burn_with_withdrawal
  <2>2. r.withdrawal \subseteq w.withdrawals
    BY DEF burn_match_results, find_unaudited_withdrawal_by_public_key
  <2>3. o.public_key \in PublicKeys /\ \A v \in r.withdrawal : v.eth_tx_hash \in EthTxHashes
    BY <2>2 DEF TxOuts, Databases, WithdrawalRows
  <2>4. burn_error_counter(r.res) \in BurnErrors
    BY ErrorSides
  <2>5. CASE r.res = "Ok"
    <3>1. PICK v \in r.withdrawal : w2 = associate_withdrawal_with_burn(w, o, v)
      BY <2>1, <2>5
    <3> QED
      BY <1>2, <2>3, <3>1
  <2>6. CASE r.res # "Ok"
    BY <1>1, <2>1, <2>4, <2>6
  <2> QED
    BY <2>5, <2>6
<1>4. ASSUME NEW v \in WithdrawalRows, NEW k \in DOMAIN Config,
             w2 \in try_match_withdrawal_with_burn(w, v, Config[k])
      PROVE  \/ w2.audited_burns = w.audited_burns
             \/ \E row \in AuditedBurnRows : /\ row.withdrawal = v.eth_tx_hash
                                             /\ w2.audited_burns = Append(w.audited_burns, row)
  <2>1. PICK r \in withdrawal_match_results(w, v, Config[k]) :
          w2 \in IF r.res = "Ok"
                 THEN {associate_withdrawal_with_burn(w, b, v) : b \in r.burn}
                 ELSE {Inc(w, withdrawal_error_counter(r.res))}
    BY <1>4 DEF try_match_withdrawal_with_burn
  <2>2. r.burn \subseteq w.burn_tx_outs
    BY DEF withdrawal_match_results, find_unaudited_burn_tx_out_by_public_key
  <2>3. v.eth_tx_hash \in EthTxHashes /\ \A b \in r.burn : b.public_key \in PublicKeys
    BY <2>2 DEF BurnTxOutRows, Databases, WithdrawalRows
  <2>4. withdrawal_error_counter(r.res) \in BurnErrors
    BY ErrorSides
  <2>5. CASE r.res = "Ok"
    <3>1. PICK b \in r.burn : w2 = associate_withdrawal_with_burn(w, b, v)
      BY <2>1, <2>5
    <3> QED
      BY <1>2, <2>3, <3>1
  <2>6. CASE r.res # "Ok"
    BY <1>1, <2>1, <2>4, <2>6
  <2> QED
    BY <2>5, <2>6
<1> QED
  BY <1>3, <1>4

\* One more entry that is new, or none.
LEMMA NewPairStays ==
  ASSUME NEW d \in Databases, NEW w \in Databases, NEW w2, NewPairsAreNew(d, w),
         \/ w2.audited_burns = w.audited_burns
         \/ \E row \in AuditedBurnRows :
              /\ w2.audited_burns = Append(w.audited_burns, row)
              /\ \/ \A b \in d.burn_tx_outs : b.public_key # row.burn
                 \/ \A v \in d.withdrawals : v.eth_tx_hash # row.withdrawal
  PROVE  NewPairsAreNew(d, w2)
<1>1. w.audited_burns \in Seq(AuditedBurnRows)
  BY DEF Databases
<1>2. CASE w2.audited_burns = w.audited_burns
  BY <1>2 DEF NewPairsAreNew
<1>3. ASSUME NEW row \in AuditedBurnRows, w2.audited_burns = Append(w.audited_burns, row),
             \/ \A b \in d.burn_tx_outs : b.public_key # row.burn
             \/ \A v \in d.withdrawals : v.eth_tx_hash # row.withdrawal
      PROVE  NewPairsAreNew(d, w2)
  <2>1. \A i \in DOMAIN w2.audited_burns :
          \/ i \in DOMAIN w.audited_burns /\ w2.audited_burns[i] = w.audited_burns[i]
          \/ w2.audited_burns[i] = row
    BY <1>1, <1>3
  <2> QED
    BY <1>3, <2>1 DEF NewPairsAreNew
<1> QED
  BY <1>2, <1>3

\* The burns a main thread audits are new.
LEMMA ScanMovePairs ==
  ASSUME NEW s, s.pos \in Nat \ {0}, NEW s2, NEW d \in Databases, NEW w \in Databases, NEW w2,
         NEW c \in BlockContents, ScanMove(s, s2, w, w2, c), BlockUnit(s, d, w, c),
         NewPairsAreNew(d, w)
  PROVE  NewPairsAreNew(d, w2)
<1>1. c.mint_txs \in Seq(CoreMintTxs) /\ c.outputs \in Seq(TxOuts)
  BY DEF BlockContents
<1>2. CASE AuditBurnMove(s, s2, w, w2, c)
  <2>1. /\ s.pc = "audit_burns" /\ s.pos \in DOMAIN c.outputs /\ c.outputs[s.pos].burn
        /\ w2 \in try_match_burn_with_withdrawal(w, c.outputs[s.pos])
    BY <1>2 DEF AuditBurnMove
  <2>2. PICK o \in TxOuts : o = c.outputs[s.pos]
    BY <1>1, <2>1
  <2>3. s.pos \in StoredBurns(s, c)
    BY <2>1 DEF StoredBurns, AfterFinish
  <2>4. \A b \in d.burn_tx_outs : b.public_key # o.public_key
    BY <2>2, <2>3 DEF BlockUnit
  <2>5. \/ w2.audited_burns = w.audited_burns
        \/ \E row \in AuditedBurnRows : /\ row.burn = o.public_key
                                        /\ w2.audited_burns = Append(w.audited_burns, row)
    BY <2>1, <2>2, NewBurnEntry
  <2> QED
    BY <2>4, <2>5, NewPairStays
<1>3. CASE AuditMintMove(s, s2, w, w2, c)
  <2>1. TriesMint(w, w2)
    BY <1>1, <1>3, MintTries DEF AuditMintMove
  <2>2. w2.audited_burns = w.audited_burns
    BY <2>1, TriesKeep DEF Keeps, AllBut, Fields
  <2> QED
    BY <2>2, NewPairStays
<1>4. CASE ~AuditBurnMove(s, s2, w, w2, c) /\ ~AuditMintMove(s, s2, w, w2, c)
  <2>1. w2.audited_burns = w.audited_burns
    <3>1. CASE ConfigMove(s, s2, w, w2, c)
      BY <3>1 DEF ConfigMove, StoresConfig, Keeps, AllBut, Fields
    <3>2. CASE MintMove(s, s2, w, w2, c)
      BY <3>2 DEF MintMove, StoresMint, Keeps, AllBut, Fields
    <3>3. CASE BurnMove(s, s2, w, w2, c)
      BY <3>3 DEF BurnMove, StoresBurn, Keeps, AllBut, Fields
    <3>4. CASE FinishMove(s, s2, w, w2, c)
      BY <3>4 DEF FinishMove, FinishesBlock, Keeps, AllBut, Fields
    <3> QED
      BY <1>4, <3>1, <3>2, <3>3, <3>4
         DEF ScanMove, CheckMove, ConfigsDone, MintsDone, SkipMove, AuditMintsEnd, AuditBurnsEnd
  <2> QED
    BY <2>1, NewPairStays
<1> QED
  BY <1>2, <1>3, <1>4

----------------------------------------------------------------------------
(* An Ethereum transaction is a unit.                                      *)

\* So are the withdrawals a safe thread audits.
LEMMA WorkMovePairs ==
  ASSUME NEW s, NEW s2, NEW d \in Databases, NEW w \in Databases, NEW w2, NEW x,
         NEW k \in DOMAIN Config, WorkMove(s, s2, w, w2, x, Config[k]),
         TxUnit(s, d, w, x, Config[k]), NewPairsAreNew(d, w),
         \A v \in d.withdrawals : v.eth_tx_hash \in d.gnosis_safe_txs
  PROVE  NewPairsAreNew(d, w2)
<1>1. CASE WithdrawalMove(s, s2, w, w2, x, Config[k])
  <2>1. PICK v \in WithdrawalRows : /\ v.eth_tx_hash = x.tx_hash
                                    /\ StoresWithdrawal(w, w2, v, Config[k])
    BY <1>1 DEF WithdrawalMove
  <2>2. PICK w1 \in Databases : /\ Keeps(w, w1, AllBut({"withdrawals"}))
                                /\ w2 \in try_match_withdrawal_with_burn(w1, v, Config[k])
    BY <2>1 DEF StoresWithdrawal
  <2>3. w1.audited_burns = w.audited_burns
    BY <2>2 DEF Keeps, AllBut, Fields
  <2>4. \/ w2.audited_burns = w1.audited_burns
        \/ \E row \in AuditedBurnRows : /\ row.withdrawal = v.eth_tx_hash
                                        /\ w2.audited_burns = Append(w1.audited_burns, row)
    BY <2>2, NewBurnEntry
  <2>5. x.tx_hash \notin d.gnosis_safe_txs
    BY <1>1 DEF WithdrawalMove, TxUnit
  <2>6. \A u \in d.withdrawals : u.eth_tx_hash # v.eth_tx_hash
    BY <2>1, <2>5
  <2> QED
    BY <2>3, <2>4, <2>6, NewPairStays
<1>2. CASE DepositMove(s, s2, w, w2, x, Config[k])
  <2>1. PICK e \in DepositRows : StoresDeposit(w, w2, e, Config[k])
    BY <1>2 DEF DepositMove
  <2>2. w2.audited_burns = w.audited_burns
    BY <2>1, SafeStores DEF Keeps, AllBut, Fields
  <2> QED
    BY <2>2, NewPairStays
<1>3. CASE ~DepositMove(s, s2, w, w2, x, Config[k]) /\ ~WithdrawalMove(s, s2, w, w2, x, Config[k])
  <2>1. \/ Keeps(w, w2, AllBut({"gnosis_safe_txs"}))
        \/ Counted(w, w2, "num_invalid_ethereum_transactions")
        \/ Counted(w, w2, "num_invalid_multi_sig_transactions")
    BY <1>3 DEF WorkMove, SkipTxMove, InsertMove, ForeignTransferMove, UnknownTokenMove,
                TransfersEnd, NoWithdrawalMove, Keeps
  <2>2. w2.audited_burns = w.audited_burns
    BY <2>1 DEF Counted, Keeps, AllBut, Fields
  <2> QED
    BY <2>2, NewPairStays
<1> QED
  BY <1>1, <1>2, <1>3

\* Which transfers processing looks at, once all before position n are of
\* audited tokens: those before n if n is past the last one, and n as well if
\* its token is not audited.
LEMMA ReachedUpTo ==
  ASSUME NEW x \in EthereumTransactions, NEW cfg, NEW n \in Nat \ {0},
         \A f \in TransfersBefore(x, cfg, n) : TokensOf(cfg, f) # {}
  PROVE  /\ (\A i \in DOMAIN x.transfers : i < n) =>
              ReachedTransfers(x, cfg) = TransfersBefore(x, cfg, n)
         /\ (/\ n \in DOMAIN x.transfers /\ x.transfers[n].to = cfg.safe_addr
             /\ TokensOf(cfg, x.transfers[n]) = {}) =>
              ReachedTransfers(x, cfg) = TransfersBefore(x, cfg, n) \cup {x.transfers[n]}
<1>1. DOMAIN x.transfers \subseteq Nat
  BY DEF EthereumTransactions
<1>2. PICK T : T = {k \in DOMAIN x.transfers : x.transfers[k].to = cfg.safe_addr}
  OBVIOUS
<1>3. \A i \in T : i \in Nat /\ i \in DOMAIN x.transfers
  BY <1>1, <1>2
<1>4. \A i \in T : i < n => TokensOf(cfg, x.transfers[i]) # {}
  BY <1>2 DEF TransfersBefore
<1>5. PICK R : R = {j \in T : \A i \in T : i < j => TokensOf(cfg, x.transfers[i]) # {}}
  OBVIOUS
<1>6. ReachedTransfers(x, cfg) = {x.transfers[j] : j \in R}
  BY <1>2, <1>5 DEF ReachedTransfers, ReachedAt
<1>7. PICK B : B = {j \in T : j < n}
  OBVIOUS
<1>8. TransfersBefore(x, cfg, n) = {x.transfers[j] : j \in B}
  <2>1. B = {j \in DOMAIN x.transfers : j < n /\ x.transfers[j].to = cfg.safe_addr}
    BY <1>2, <1>7
  <2> QED
    BY <2>1 DEF TransfersBefore
<1>9. B \subseteq R
  BY <1>3, <1>4, <1>5, <1>7
<1>10. ASSUME \A i \in DOMAIN x.transfers : i < n
       PROVE  R = B
  BY <1>3, <1>5, <1>7, <1>9, <1>10
<1>11. ASSUME n \in T, TokensOf(cfg, x.transfers[n]) = {}
       PROVE  R = B \cup {n}
  <2>1. n \in R
    BY <1>4, <1>5, <1>11
  <2>2. \A j \in R : ~(n < j)
    BY <1>5, <1>11
  <2>3. \A j \in R : j \in B \cup {n}
    BY <1>3, <1>5, <1>7, <2>2
  <2> QED
    BY <1>9, <2>1, <2>3
<1> QED
  BY <1>2, <1>6, <1>8, <1>10, <1>11

\* The transfers to the safe before the next position.
LEMMA NextTransfersBefore ==
  ASSUME NEW x \in EthereumTransactions, NEW cfg, NEW n \in DOMAIN x.transfers
  PROVE  /\ TransfersBefore(x, cfg, 1) = {}
         /\ x.transfers[n].to # cfg.safe_addr =>
              TransfersBefore(x, cfg, n + 1) = TransfersBefore(x, cfg, n)
         /\ x.transfers[n].to = cfg.safe_addr =>
              TransfersBefore(x, cfg, n + 1) = TransfersBefore(x, cfg, n) \cup {x.transfers[n]}
<1>1. DOMAIN x.transfers \subseteq Nat \ {0}
  BY DEF EthereumTransactions
<1>2. PICK B : B = {j \in DOMAIN x.transfers : j < n /\ x.transfers[j].to = cfg.safe_addr}
  OBVIOUS
<1>3. PICK C : C = {j \in DOMAIN x.transfers : j < n + 1 /\ x.transfers[j].to = cfg.safe_addr}
  OBVIOUS
<1>4. /\ TransfersBefore(x, cfg, n) = {x.transfers[k] : k \in B}
      /\ TransfersBefore(x, cfg, n + 1) = {x.transfers[k] : k \in C}
  BY <1>2, <1>3 DEF TransfersBefore
<1>5. x.transfers[n].to # cfg.safe_addr => C = B
  BY <1>1, <1>2, <1>3
<1>6. x.transfers[n].to = cfg.safe_addr => C = B \cup {n}
  BY <1>1, <1>2, <1>3
<1>7. {j \in DOMAIN x.transfers : j < 1 /\ x.transfers[j].to = cfg.safe_addr} = {}
  BY <1>1
<1>8. TransfersBefore(x, cfg, 1) = {}
  BY <1>7 DEF TransfersBefore
<1> QED
  BY <1>4, <1>5, <1>6, <1>8

\* A transaction that has been looked at up to the end, or up to a transfer of
\* a token that is not audited, has all its deposits stored.
LEMMA TransfersComplete ==
  ASSUME NEW x \in EthereumTransactions, NEW cfg, NEW n \in Nat \ {0},
         \A f \in TransfersBefore(x, cfg, n) : TransferRows(x, f, cfg) # {},
         \/ \A i \in DOMAIN x.transfers : i < n
         \/ /\ n \in DOMAIN x.transfers /\ x.transfers[n].to = cfg.safe_addr
            /\ x.transfers[n].token_addr # {} /\ TokensOf(cfg, x.transfers[n]) = {}
  PROVE  /\ DepositsOf(x, cfg)
              = UNION {TransferRows(x, f, cfg) : f \in TransfersBefore(x, cfg, n)}
         /\ WellFormed(x, cfg)
<1>1. DepositsOf(x, cfg) = UNION {TransferRows(x, f, cfg) : f \in ReachedTransfers(x, cfg)}
  BY DEF DepositsOf, TransferRows
<1>2. \A f : TransferRows(x, f, cfg) # {} =>
        f.token_addr # {} /\ f.value # {} /\ TokensOf(cfg, f) # {}
  <2> SUFFICES ASSUME NEW f, NEW e \in TransferRows(x, f, cfg)
               PROVE  f.token_addr # {} /\ f.value # {} /\ TokensOf(cfg, f) # {}
    OBVIOUS
  <2>1. PICK a \in f.token_addr, v \in f.value, token \in TokensOf(cfg, f) : TRUE
    BY DEF TransferRows
  <2> QED
    BY <2>1
<1>3. \A f : TokensOf(cfg, f) = {} => TransferRows(x, f, cfg) = {}
  BY <1>2
<1>4. \A f \in TransfersBefore(x, cfg, n) : TokensOf(cfg, f) # {}
  BY <1>2
<1>5. CASE \A i \in DOMAIN x.transfers : i < n
  <2>1. ReachedTransfers(x, cfg) = TransfersBefore(x, cfg, n)
    BY <1>4, <1>5, ReachedUpTo
  <2> QED
    BY <1>1, <1>2, <2>1 DEF WellFormed
<1>6. CASE /\ n \in DOMAIN x.transfers /\ x.transfers[n].to = cfg.safe_addr
           /\ x.transfers[n].token_addr # {} /\ TokensOf(cfg, x.transfers[n]) = {}
  <2>1. PICK g : g = x.transfers[n]
    OBVIOUS
  <2>2. ReachedTransfers(x, cfg) = TransfersBefore(x, cfg, n) \cup {g}
    BY <1>4, <1>6, <2>1, ReachedUpTo
  <2>3. TransferRows(x, g, cfg) = {} /\ g.token_addr # {} /\ TokensOf(cfg, g) = {}
    BY <1>3, <1>6, <2>1
  <2>4. UNION {TransferRows(x, f, cfg) : f \in ReachedTransfers(x, cfg)}
          = UNION {TransferRows(x, f, cfg) : f \in TransfersBefore(x, cfg, n)}
    BY <2>2, <2>3
  <2>5. WellFormed(x, cfg)
    BY <1>2, <2>2, <2>3 DEF WellFormed
  <2> QED
    BY <1>1, <2>4, <2>5
<1> QED
  BY <1>5, <1>6

\* The open transaction of a safe thread, once its hash is stored.
OpenTxUnit(s, d, w, x, cfg) ==
  /\ Keeps(d, w, LedgerTables)
  /\ x.tx_hash \notin d.gnosis_safe_txs
  /\ w.gnosis_safe_txs = d.gnosis_safe_txs \cup {x.tx_hash}
  /\ w.deposits = d.deposits \cup StoredDeposits(s, x, cfg)
  /\ w.withdrawals = d.withdrawals \cup StoredWithdrawals(s, x, cfg)

\* A write that leaves all but the deposits, the withdrawals, the logs and the
\* counters alone.
LEMMA OpenTxFrame ==
  ASSUME NEW s, NEW s2, NEW d, NEW w, NEW w2, NEW x, NEW cfg, OpenTxUnit(s, d, w, x, cfg),
         Keeps(w, w2, AllBut({"deposits", "withdrawals", "audited_mints", "audited_burns",
                              "counters"})),
         w2.deposits = d.deposits \cup StoredDeposits(s2, x, cfg),
         w2.withdrawals = d.withdrawals \cup StoredWithdrawals(s2, x, cfg)
  PROVE  OpenTxUnit(s2, d, w2, x, cfg)
<1>1. Keeps(d, w2, LedgerTables)
  BY DEF OpenTxUnit, Keeps, LedgerTables, AllBut, Fields
<1>2. w2.gnosis_safe_txs = w.gnosis_safe_txs
  BY DEF Keeps, AllBut, Fields
<1> QED
  BY <1>1, <1>2 DEF OpenTxUnit

\* The moves of a safe thread: its open transaction stays one Ethereum
\* transaction and what of it has been processed.
LEMMA WorkMoveUnit ==
  ASSUME NEW s, s.pos \in Nat \ {0}, NEW s2, NEW d, NEW w \in Databases, NEW w2,
         NEW x \in RawGnosisTransactions, NEW k \in DOMAIN Config,
         s.pc = "transfers" => x \in EthereumTransactions,
         s.pc = "multi_sig" => x \in MultiSigTransactions,
         WorkMove(s, s2, w, w2, x, Config[k]), TxUnit(s, d, w, x, Config[k])
  PROVE  TxUnit(s2, d, w2, x, Config[k])
<1>1. PICK cfg : cfg = Config[k]
  OBVIOUS
<1>2. x.kind = "ethereum" => x \in EthereumTransactions
  BY DEF RawGnosisTransactions, MultiSigTransactions, OtherTransactions
<1>3. /\ x \in EthereumTransactions => x.kind = "ethereum"
      /\ x \in MultiSigTransactions => x.kind = "multi_sig"
  BY DEF EthereumTransactions, MultiSigTransactions
<1>4. s.pc \in {"transfers", "multi_sig"} =>
        /\ OpenTxUnit(s, d, w, x, cfg)
        /\ s.pc = "transfers" =>
             \A f \in TransfersBefore(x, cfg, s.pos) : TransferRows(x, f, cfg) # {}
  BY <1>1 DEF TxUnit, OpenTxUnit
<1>5. CASE SkipTxMove(s, s2, w, w2, x)
  BY <1>5 DEF SkipTxMove, WorkGoes, TxUnit
<1>6. CASE InsertMove(s, s2, w, w2, x)
  <2>1. s.pc = "insert" /\ w = d
    BY <1>6 DEF InsertMove, TxUnit
  <2>2. /\ x.tx_hash \notin d.gnosis_safe_txs
        /\ w2.gnosis_safe_txs = d.gnosis_safe_txs \cup {x.tx_hash}
        /\ w2.deposits = d.deposits /\ w2.withdrawals = d.withdrawals
        /\ Keeps(d, w2, LedgerTables)
    BY <1>6, <2>1 DEF InsertMove, Keeps, LedgerTables, AllBut, Fields
  <2>3. \/ x.kind = "ethereum" /\ s2.pc = "transfers" /\ s2.pos = 1
        \/ x.kind = "multi_sig" /\ s2.pc = "multi_sig"
        \/ x.kind = "module" /\ s2.pc = "commit"
    BY <1>6 DEF InsertMove, WorkGoes
  <2>4. s2.pc = "transfers" => TransfersBefore(x, cfg, s2.pos) = {}
    <3> SUFFICES ASSUME s2.pc = "transfers" PROVE TransfersBefore(x, cfg, s2.pos) = {}
      OBVIOUS
    <3>1. DOMAIN x.transfers \subseteq Nat \ {0} /\ s2.pos = 1
      BY <1>2, <2>3 DEF EthereumTransactions
    <3>2. {j \in DOMAIN x.transfers : j < s2.pos /\ x.transfers[j].to = cfg.safe_addr} = {}
      BY <3>1
    <3> QED
      BY <3>2 DEF TransfersBefore
  <2>5. StoredDeposits(s2, x, cfg) = {}
    BY <2>3, <2>4 DEF StoredDeposits
  <2>6. StoredWithdrawals(s2, x, cfg) = {}
    BY <2>3 DEF StoredWithdrawals
  <2> QED
    BY <1>1, <2>2, <2>3, <2>4, <2>5, <2>6 DEF TxUnit
<1>7. CASE s.pc = "transfers"
  <2>1. x \in EthereumTransactions /\ x.kind = "ethereum"
    BY <1>3, <1>7
  <2>2. /\ w.deposits = d.deposits
               \cup UNION {TransferRows(x, f, cfg) : f \in TransfersBefore(x, cfg, s.pos)}
        /\ w.withdrawals = d.withdrawals
    BY <1>4, <1>7 DEF OpenTxUnit, StoredDeposits, StoredWithdrawals
  <2>3. StoredWithdrawals(s2, x, cfg) = {}
    BY <2>1 DEF StoredWithdrawals
  <2>4. CASE ForeignTransferMove(s, s2, w, w2, x, cfg)
    <3>1. w2 = w /\ s2.pc = "transfers" /\ s2.pos = s.pos + 1
      BY <2>4 DEF ForeignTransferMove, AtTransferOf, WorkGoes
    <3>2. TransfersBefore(x, cfg, s2.pos) = TransfersBefore(x, cfg, s.pos)
      BY <2>1, <2>4, <3>1, NextTransfersBefore DEF ForeignTransferMove, AtTransferOf
    <3>3. w2.deposits = d.deposits \cup StoredDeposits(s2, x, cfg)
      BY <2>2, <3>1, <3>2 DEF StoredDeposits
    <3>4. Keeps(w, w2, AllBut({"deposits", "withdrawals", "audited_mints", "audited_burns",
                               "counters"}))
      BY <3>1 DEF Keeps
    <3>5. OpenTxUnit(s2, d, w2, x, cfg)
      BY <1>4, <1>7, <2>2, <2>3, <3>1, <3>3, <3>4, OpenTxFrame
    <3> QED
      BY <1>1, <1>4, <1>7, <3>1, <3>2, <3>5 DEF TxUnit, OpenTxUnit
  <2>5. CASE DepositMove(s, s2, w, w2, x, cfg)
    <3>1. PICK e \in DepositRows : /\ TransferRows(x, x.transfers[s.pos], cfg) = {e}
                                   /\ StoresDeposit(w, w2, e, Config[k])
      BY <1>1, <2>5 DEF DepositMove
    <3>2. /\ s2.pc = "transfers" /\ s2.pos = s.pos + 1 /\ s.pos \in DOMAIN x.transfers
          /\ x.transfers[s.pos].to = cfg.safe_addr
      BY <1>7, <2>5 DEF DepositMove, WorkGoes, AtTransferOf
    <3>3. /\ w2.deposits = w.deposits \cup {e}
          /\ Keeps(w, w2, AllBut({"deposits", "audited_mints", "counters"}))
      BY <3>1, SafeStores
    <3>4. TransfersBefore(x, cfg, s2.pos)
            = TransfersBefore(x, cfg, s.pos) \cup {x.transfers[s.pos]}
      BY <2>1, <3>2, NextTransfersBefore
    <3>5. PICK A, A2, g : /\ A = TransfersBefore(x, cfg, s.pos) /\ g = x.transfers[s.pos]
                          /\ A2 = TransfersBefore(x, cfg, s2.pos)
      OBVIOUS
    <3>6. w2.deposits = d.deposits \cup StoredDeposits(s2, x, cfg)
      <4>1. A2 = A \cup {g} /\ TransferRows(x, g, cfg) = {e}
        BY <3>1, <3>4, <3>5
      <4>2. PICK U, U2 : /\ U = UNION {TransferRows(x, f, cfg) : f \in A}
                         /\ U2 = UNION {TransferRows(x, f, cfg) : f \in A2}
        OBVIOUS
      <4>3. U2 = U \cup {e}
        BY ONLY <4>1, <4>2
      <4>4. w.deposits = d.deposits \cup U
        BY <2>2, <3>5, <4>2
      <4>5. StoredDeposits(s2, x, cfg) = U2
        BY <3>2, <3>5, <4>2 DEF StoredDeposits
      <4> QED
        BY ONLY <3>3, <4>3, <4>4, <4>5
    <3>7. /\ Keeps(w, w2, AllBut({"deposits", "withdrawals", "audited_mints", "audited_burns",
                                  "counters"}))
          /\ w2.withdrawals = w.withdrawals
      BY <3>3 DEF Keeps, AllBut, Fields
    <3>8. OpenTxUnit(s2, d, w2, x, cfg)
      BY <1>4, <1>7, <2>2, <2>3, <3>6, <3>7, OpenTxFrame
    <3>9. \A f \in TransfersBefore(x, cfg, s2.pos) : TransferRows(x, f, cfg) # {}
      BY <1>4, <1>7, <3>1, <3>4
    <3> QED
      BY <1>1, <3>2, <3>8, <3>9 DEF TxUnit, OpenTxUnit
  <2>6. CASE UnknownTokenMove(s, s2, w, w2, x, cfg) \/ TransfersEnd(s, s2, w, w2, x)
    <3>1. /\ s2.pc = "commit"
          /\ \/ \A i \in DOMAIN x.transfers : i < s.pos
             \/ /\ s.pos \in DOMAIN x.transfers /\ x.transfers[s.pos].to = cfg.safe_addr
                /\ x.transfers[s.pos].token_addr # {}
                /\ TokensOf(cfg, x.transfers[s.pos]) = {}
      BY <2>6 DEF UnknownTokenMove, TransfersEnd, AtTransferOf, WorkGoes
    <3>2. /\ DepositsOf(x, cfg)
               = UNION {TransferRows(x, f, cfg) : f \in TransfersBefore(x, cfg, s.pos)}
          /\ WellFormed(x, cfg)
      BY <1>4, <1>7, <2>1, <3>1, TransfersComplete
    <3>3. /\ Keeps(w, w2, AllBut({"deposits", "withdrawals", "audited_mints", "audited_burns",
                                  "counters"}))
          /\ w2.deposits = w.deposits /\ w2.withdrawals = w.withdrawals
      BY <2>6 DEF UnknownTokenMove, TransfersEnd, Counted, Keeps, AllBut, Fields
    <3>4. StoredDeposits(s2, x, cfg) = DepositsOf(x, cfg)
      BY <2>1, <3>1 DEF StoredDeposits
    <3>5. OpenTxUnit(s2, d, w2, x, cfg)
      BY <1>4, <1>7, <2>2, <2>3, <3>2, <3>3, <3>4, OpenTxFrame
    <3> QED
      BY <1>1, <3>1, <3>2, <3>5 DEF TxUnit, OpenTxUnit
  <2> QED
    BY <1>1, <1>7, <2>4, <2>5, <2>6
       DEF WorkMove, SkipTxMove, InsertMove, NoWithdrawalMove, WithdrawalMove
<1>8. CASE s.pc = "multi_sig"
  <2>1. x.kind = "multi_sig" /\ s2.pc = "commit"
    BY <1>3, <1>8 DEF WorkMove, SkipTxMove, InsertMove, ForeignTransferMove, UnknownTokenMove,
                      DepositMove, AtTransferOf, TransfersEnd, NoWithdrawalMove, WithdrawalMove,
                      WorkGoes
  <2>2. w.deposits = d.deposits /\ w.withdrawals = d.withdrawals
    BY <1>4, <1>8 DEF OpenTxUnit, StoredDeposits, StoredWithdrawals
  <2>3. StoredDeposits(s2, x, cfg) = {} /\ StoredWithdrawals(s2, x, cfg) = WithdrawalsOf(x, cfg)
    BY <2>1 DEF StoredDeposits, StoredWithdrawals
  <2>4. CASE NoWithdrawalMove(s, s2, w, w2, x, cfg)
    <3>1. WithdrawalsOf(x, cfg) = {}
      BY <2>4 DEF NoWithdrawalMove
    <3>2. /\ Keeps(w, w2, AllBut({"deposits", "withdrawals", "audited_mints", "audited_burns",
                                  "counters"}))
          /\ w2.deposits = w.deposits /\ w2.withdrawals = w.withdrawals
      BY <2>4 DEF NoWithdrawalMove, Counted, Keeps, AllBut, Fields
    <3>3. OpenTxUnit(s2, d, w2, x, cfg)
      BY <1>4, <1>8, <2>2, <2>3, <3>1, <3>2, OpenTxFrame
    <3> QED
      BY <1>1, <2>1, <3>3 DEF TxUnit, OpenTxUnit
  <2>5. CASE WithdrawalMove(s, s2, w, w2, x, cfg)
    <3>1. PICK v \in WithdrawalRows : /\ WithdrawalsOf(x, cfg) = {v}
                                      /\ StoresWithdrawal(w, w2, v, Config[k])
      BY <1>1, <2>5 DEF WithdrawalMove
    <3>2. /\ w2.withdrawals = w.withdrawals \cup {v}
          /\ Keeps(w, w2, AllBut({"withdrawals", "audited_burns", "counters"}))
      BY <3>1, SafeStores
    <3>3. /\ Keeps(w, w2, AllBut({"deposits", "withdrawals", "audited_mints", "audited_burns",
                                  "counters"}))
          /\ w2.deposits = w.deposits
      BY <3>2 DEF Keeps, AllBut, Fields
    <3>4. OpenTxUnit(s2, d, w2, x, cfg)
      BY <1>4, <1>8, <2>2, <2>3, <3>1, <3>2, <3>3, OpenTxFrame
    <3> QED
      BY <1>1, <2>1, <3>4 DEF TxUnit, OpenTxUnit
  <2> QED
    BY <1>1, <1>8, <2>4, <2>5
       DEF WorkMove, SkipTxMove, InsertMove, ForeignTransferMove, UnknownTokenMove,
           DepositMove, AtTransferOf, TransfersEnd
<1> QED
  BY <1>1, <1>5, <1>6, <1>7, <1>8
     DEF WorkMove, ForeignTransferMove, UnknownTokenMove, DepositMove, AtTransferOf, TransfersEnd,
         NoWithdrawalMove, WithdrawalMove

----------------------------------------------------------------------------
(* Listings.                                                               *)

Shows(listing, x) == \E k \in DOMAIN listing : listing[k] = x

\* Every entry of one list is in another one.
ShowsAll(listing, todo) == \A i \in DOMAIN todo : Shows(listing, todo[i])

\* A listing forgets nothing.
ApiGrows == \A a \in AuditedSafes : ShowsAll(api'[a], api[a])

\* What a thread has to do was there before, or comes from the listing.
TodoComesFrom(t) ==
  \/ ShowsAll(work[t].todo, work'[t].todo)
  \/ ShowsAll(api[audited_safe(t).safe_addr], work'[t].todo)

\* A listing shows itself and its tail, and what a shown listing shows.
LEMMA ShowsFacts ==
  /\ \A l : ShowsAll(l, l) /\ ShowsAll(l, << >>)
  /\ \A l, m, q : ShowsAll(l, m) /\ ShowsAll(m, q) => ShowsAll(l, q)
  /\ \A S : \A q \in Seq(S) : q # << >> => ShowsAll(q, Tail(q))
  /\ \A S : \A q \in Seq(S), x \in S : ShowsAll(<<x>> \o q, q)
<1>1. \A S : \A q \in Seq(S) : q # << >> => ShowsAll(q, Tail(q))
  <2> SUFFICES ASSUME NEW S, NEW q \in Seq(S), q # << >>, NEW i \in DOMAIN Tail(q)
               PROVE  Shows(q, Tail(q)[i])
    BY DEF ShowsAll
  <2>1. i \in 1 .. Len(q) - 1 /\ Len(q) \in Nat
    OBVIOUS
  <2>2. Tail(q)[i] = q[i + 1] /\ i + 1 \in DOMAIN q
    BY <2>1
  <2> QED
    BY <2>2 DEF Shows
<1>2. \A S : \A q \in Seq(S), x \in S : ShowsAll(<<x>> \o q, q)
  <2> SUFFICES ASSUME NEW S, NEW q \in Seq(S), NEW x \in S, NEW i \in DOMAIN q
               PROVE  Shows(<<x>> \o q, q[i])
    BY DEF ShowsAll
  <2>1. <<x>> \in Seq(S) /\ Len(<<x>>) = 1
    OBVIOUS
  <2>2. (<<x>> \o q)[i + 1] = q[i] /\ i + 1 \in DOMAIN (<<x>> \o q)
    BY <2>1
  <2> QED
    BY <2>2 DEF Shows
<1>3. \A l : ShowsAll(l, l) /\ ShowsAll(l, << >>)
  BY DEF ShowsAll, Shows
<1>4. \A l, m, q : ShowsAll(l, m) /\ ShowsAll(m, q) => ShowsAll(l, q)
  BY DEF ShowsAll, Shows
<1> QED
  BY <1>1, <1>2, <1>3, <1>4

\* A step of the system, seen from the listings.
LEMMA ListingStep ==
  ASSUME IInv, [Next]_vars
  PROVE  ApiGrows /\ \A t \in Workers : TodoComesFrom(t)
<1>1. /\ work \in [Workers -> WorkStates]
      /\ api \in [AuditedSafes -> Seq(RawGnosisTransactions)]
  BY TypeFacts
<1>2. api' = api => ApiGrows
  BY ShowsFacts DEF ApiGrows
<1>3. \A t \in Workers : work'[t].todo = work[t].todo \/ work'[t].todo = << >> => TodoComesFrom(t)
  BY ShowsFacts DEF TodoComesFrom
<1>4. CASE UNCHANGED vars \/ (LedgerNext /\ UNCHANGED gnosisVars)
  BY <1>2, <1>3, <1>4 DEF vars, gnosisVars
<1>5. CASE \E p \in Procs : Crash(p) \/ Restart(p)
  <2>1. api' = api
    BY <1>5 DEF Crash, Restart
  <2>2. \A t \in Workers : work'[t] = work[t] \/ work'[t].todo = << >>
    BY <1>5 DEF Crash, Restart, WorkAt
  <2> QED
    BY <1>2, <1>3, <2>1, <2>2
<1>6. CASE \E a \in AuditedSafes : ListTx(a)
  <2>1. PICK a \in AuditedSafes : ListTx(a)
    BY <1>6
  <2>2. PICK x \in ApiTxs[a] : api' = [api EXCEPT ![a] = <<x>> \o @]
    BY <2>1 DEF ListTx
  <2>3. x \in RawGnosisTransactions
    BY <2>2, GnosisAssumption
  <2>4. PICK l : l = <<x>> \o api[a]
    OBVIOUS
  <2>5. api' = [api EXCEPT ![a] = l]
    BY <2>2, <2>4
  <2>6. ShowsAll(l, api[a])
    BY <1>1, <2>3, <2>4, ShowsFacts
  <2>7. \A b \in AuditedSafes : ShowsAll(api'[b], api[b])
    BY <1>1, <2>5, <2>6, ShowsFacts
  <2>8. work' = work
    BY <2>1 DEF ListTx
  <2> QED
    BY <1>3, <2>7, <2>8 DEF ApiGrows
<1>7. ASSUME NEW t \in Workers, WorkStep(t) \/ BeginTx(t) \/ TxLockTimeout(t)
      PROVE  ApiGrows /\ \A u \in Workers : TodoComesFrom(u)
  <2>1. CASE Poll(t)
    <3>1. PICK l : l = api[audited_safe(t).safe_addr]
      OBVIOUS
    <3>2. work' = [work EXCEPT ![t].pc = "begin", ![t].todo = l] /\ api' = api
      BY <2>1, <3>1 DEF Poll
    <3>3. (\A u \in Workers \ {t} : work'[u] = work[u]) /\ work'[t].todo = l
      BY <1>1, <3>2 DEF WorkStates
    <3>4. TodoComesFrom(t)
      BY <3>1, <3>3, ShowsFacts DEF TodoComesFrom
    <3> QED
      BY <1>2, <1>3, <3>2, <3>3, <3>4
  <2>2. CASE CommitTx(t)
    <3>1. PICK l : l = Tail(work[t].todo)
      OBVIOUS
    <3>2. PICK s : s = [WorkAt("begin") EXCEPT !.todo = l]
      OBVIOUS
    <3>3. work' = [work EXCEPT ![t] = s] /\ api' = api
      BY <2>2, <3>1, <3>2 DEF CommitTx
    <3>4. (\A u \in Workers \ {t} : work'[u] = work[u]) /\ work'[t].todo = l
      BY <1>1, <3>2, <3>3 DEF WorkAt
    <3>5. work[t].todo \in Seq(RawGnosisTransactions) /\ work[t].todo # << >>
      BY <2>2, TxType DEF CommitTx, WorkInTx
    <3>6. TodoComesFrom(t)
      BY <3>1, <3>4, <3>5, ShowsFacts DEF TodoComesFrom
    <3> QED
      BY <1>2, <1>3, <3>3, <3>4, <3>6
  <2>3. CASE TxLockTimeout(t) \/ DecodeFails(t) \/ DepositFails(t) \/ MultiSigFails(t)
    <3>1. work' = [work EXCEPT ![t] = WorkAt("dead")] /\ api' = api
      BY <2>3 DEF TxLockTimeout, DecodeFails, DepositFails, MultiSigFails, WorkFails
    <3>2. (\A u \in Workers \ {t} : work'[u] = work[u]) /\ work'[t].todo = << >>
      BY <1>1, <3>1 DEF WorkAt
    <3> QED
      BY <1>2, <1>3, <3>1, <3>2
  <2>4. CASE UnknownTransfer(t) \/ StoreDeposit(t)
    <3>1. work' = [work EXCEPT ![t].pos = @ + 1] /\ api' = api
      BY <2>4 DEF UnknownTransfer, StoreDeposit
    <3>2. (\A u \in Workers \ {t} : work'[u] = work[u]) /\ work'[t].todo = work[t].todo
      BY <1>1, <3>1, NextTransferFacts
    <3> QED
      BY <1>2, <1>3, <3>1, <3>2
  <2>5. CASE \/ PollDone(t) \/ BeginTx(t) \/ SkipTx(t) \/ InsertTx(t) \/ UnknownTokenTransfer(t)
             \/ TransfersDone(t) \/ OtherSafeMultiSig(t) \/ InvalidMultiSig(t)
             \/ StoreWithdrawal(t)
    <3>1. api' = api /\ \E pc : WorkGoto(t, pc)
      BY <2>5 DEF PollDone, BeginTx, SkipTx, InsertTx, UnknownTokenTransfer, TransfersDone,
                  OtherSafeMultiSig, InvalidMultiSig, StoreWithdrawal
    <3>2. PICK pc : work' = [work EXCEPT ![t].pc = pc, ![t].pos = 1]
      BY <3>1 DEF WorkGoto
    <3>3. PICK x \in WorkStates : x = work[t]
      BY <1>1
    <3>4. PICK s : s = [x EXCEPT !.pc = pc, !.pos = 1]
      OBVIOUS
    <3>5. s.todo = x.todo
      BY <3>4 DEF WorkStates
    <3>6. work' = [work EXCEPT ![t] = s]
      BY <3>2, <3>3, <3>4
    <3>7. (\A u \in Workers \ {t} : work'[u] = work[u]) /\ work'[t].todo = work[t].todo
      BY <1>1, <3>3, <3>5, <3>6
    <3> QED
      BY <1>2, <1>3, <3>1, <3>7
  <2> QED
    BY <1>7, <2>1, <2>2, <2>3, <2>4, <2>5 DEF WorkStep
<1> QED
  BY <1>4, <1>5, <1>6, <1>7 DEF Next, GnosisNext

\* What the threads have to do stays listed.
LEMMA TodoStaysListed ==
  ASSUME IInv, [Next]_vars, TodoIsListed
  PROVE  TodoIsListed'
<1>1. \A t \in Workers : ShowsAll(api[audited_safe(t).safe_addr], work[t].todo)
  BY DEF TodoIsListed, ShowsAll, Shows
<1>2. ASSUME NEW t \in Workers
      PROVE  ShowsAll(api'[audited_safe(t).safe_addr], work'[t].todo)
  <2>1. PICK a \in AuditedSafes : a = audited_safe(t).safe_addr
    BY SafeOfThread
  <2>2. ShowsAll(api'[a], api[a]) /\ TodoComesFrom(t)
    BY ListingStep DEF ApiGrows
  <2>3. ShowsAll(api[a], work'[t].todo)
    BY <1>1, <2>1, <2>2, ShowsFacts DEF TodoComesFrom
  <2>4. ShowsAll(api'[a], work'[t].todo)
    BY <2>2, <2>3, ShowsFacts
  <2> QED
    BY <2>1, <2>4
<1>3. \A t \in Workers : audited_safe(t)' = audited_safe(t)
  BY DEF audited_safe
<1> QED
  BY <1>2, <1>3 DEF TodoIsListed, ShowsAll, Shows

----------------------------------------------------------------------------
(* Recorded transactions are whole.                                        *)

\* ProcessedTxsAreWhole, of a database d and the listings A.
WholeTxs(d, A) ==
  /\ \A h \in d.gnosis_safe_txs : \E i \in DOMAIN Config : \E x :
       /\ Shows(A[Config[i].safe_addr], x)
       /\ x.tx_hash = h /\ IsWholeTx(d, x, Config[i])
  /\ \A e \in d.deposits : e.eth_tx_hash \in d.gnosis_safe_txs
  /\ \A w \in d.withdrawals : w.eth_tx_hash \in d.gnosis_safe_txs

\* The invariant that the runs check, in that form.
LEMMA WholeTxsMeans == ProcessedTxsAreWhole <=> WholeTxs(db, api)
<1>1. \A h, i : (\E x : /\ Shows(api[Config[i].safe_addr], x)
                        /\ x.tx_hash = h /\ IsWholeTx(db, x, Config[i]))
        <=> \E k \in DOMAIN api[Config[i].safe_addr] :
              LET x == api[Config[i].safe_addr][k]
              IN  x.tx_hash = h /\ IsWholeTx(db, x, Config[i])
  BY DEF Shows
<1> QED
  BY <1>1 DEF ProcessedTxsAreWhole, WholeTxs

\* The rows of one transaction determine whether it is whole.
LEMMA WholeFrame ==
  ASSUME NEW d, NEW w, NEW x, NEW cfg, IsWholeTx(d, x, cfg),
         {e \in w.deposits : e.eth_tx_hash = x.tx_hash}
           = {e \in d.deposits : e.eth_tx_hash = x.tx_hash},
         {v \in w.withdrawals : v.eth_tx_hash = x.tx_hash}
           = {v \in d.withdrawals : v.eth_tx_hash = x.tx_hash}
  PROVE  IsWholeTx(w, x, cfg)
  BY DEF IsWholeTx

\* Longer listings, and new blocks, change nothing.
LEMMA WholeTxsStay ==
  ASSUME NEW d, NEW w, NEW A, NEW B, WholeTxs(d, A),
         \A i \in DOMAIN Config : ShowsAll(B[Config[i].safe_addr], A[Config[i].safe_addr]),
         Keeps(d, w, SafeTables)
  PROVE  WholeTxs(w, B)
<1>1. /\ w.gnosis_safe_txs = d.gnosis_safe_txs /\ w.deposits = d.deposits
      /\ w.withdrawals = d.withdrawals
  BY DEF Keeps, SafeTables
<1>2. \A x, i : IsWholeTx(d, x, Config[i]) => IsWholeTx(w, x, Config[i])
  BY <1>1, WholeFrame
<1>3. \A i \in DOMAIN Config : \A x :
        Shows(A[Config[i].safe_addr], x) => Shows(B[Config[i].safe_addr], x)
  BY DEF ShowsAll, Shows
<1> QED
  BY <1>1, <1>2, <1>3 DEF WholeTxs

\* The deposits and the withdrawal of a transaction carry its hash.
LEMMA StoredHashes ==
  ASSUME NEW s, NEW x, NEW cfg
  PROVE  /\ s.pc = "commit" => \A e \in StoredDeposits(s, x, cfg) : e.eth_tx_hash = x.tx_hash
         /\ \A v \in StoredWithdrawals(s, x, cfg) : v.eth_tx_hash = x.tx_hash
<1>1. \A e \in DepositsOf(x, cfg) : e.eth_tx_hash = x.tx_hash
  <2>1. \A f : \A e \in TransferRows(x, f, cfg) : e.eth_tx_hash = x.tx_hash
    BY DEF TransferRows
  <2> QED
    BY <2>1 DEF DepositsOf
<1>2. \A v \in WithdrawalsOf(x, cfg) : v.eth_tx_hash = x.tx_hash
  BY DEF WithdrawalsOf
<1> QED
  BY <1>1, <1>2 DEF StoredDeposits, StoredWithdrawals

\* A commit of a safe thread adds a whole transaction, or nothing.
LEMMA WholeTxsCommit ==
  ASSUME NEW s, s.pc = "commit", NEW d, NEW w, NEW x, NEW k \in DOMAIN Config, NEW A,
         TxUnit(s, d, w, x, Config[k]), Shows(A[Config[k].safe_addr], x), WholeTxs(d, A)
  PROVE  WholeTxs(w, A)
<1>1. CASE w = d
  BY <1>1
<1>2. CASE w # d
  <2>1. PICK cfg : cfg = Config[k]
    OBVIOUS
  <2>2. PICK D, W : D = StoredDeposits(s, x, cfg) /\ W = StoredWithdrawals(s, x, cfg)
    OBVIOUS
  <2>3. /\ x.tx_hash \notin d.gnosis_safe_txs
        /\ w.gnosis_safe_txs = d.gnosis_safe_txs \cup {x.tx_hash}
        /\ w.deposits = d.deposits \cup D
        /\ w.withdrawals = d.withdrawals \cup W
        /\ x.kind = "ethereum" => WellFormed(x, cfg)
    BY <1>2, <2>1, <2>2 DEF TxUnit
  <2>4. /\ \A e \in D : e.eth_tx_hash = x.tx_hash
        /\ \A v \in W : v.eth_tx_hash = x.tx_hash
    BY <2>2, StoredHashes
  <2>5. /\ \A e \in d.deposits : e.eth_tx_hash \in d.gnosis_safe_txs
        /\ \A v \in d.withdrawals : v.eth_tx_hash \in d.gnosis_safe_txs
    BY DEF WholeTxs
  <2>6. /\ \A e \in w.deposits : e.eth_tx_hash \in w.gnosis_safe_txs
        /\ \A v \in w.withdrawals : v.eth_tx_hash \in w.gnosis_safe_txs
    BY <2>3, <2>4, <2>5
  <2>7. IsWholeTx(w, x, cfg)
    <3>1. {e \in w.deposits : e.eth_tx_hash = x.tx_hash} = D
      BY <2>3, <2>4, <2>5
    <3>2. {v \in w.withdrawals : v.eth_tx_hash = x.tx_hash} = W
      BY <2>3, <2>4, <2>5
    <3>3. /\ D = IF x.kind = "ethereum" THEN DepositsOf(x, cfg) ELSE {}
          /\ W = IF x.kind = "multi_sig" THEN WithdrawalsOf(x, cfg) ELSE {}
      BY <2>2 DEF StoredDeposits, StoredWithdrawals
    <3> QED
      BY <2>3, <3>1, <3>2, <3>3 DEF IsWholeTx, WellFormed
  <2>8. ASSUME NEW h \in d.gnosis_safe_txs
        PROVE  \E i \in DOMAIN Config : \E y :
                 /\ Shows(A[Config[i].safe_addr], y)
                 /\ y.tx_hash = h /\ IsWholeTx(w, y, Config[i])
    <3>1. PICK i \in DOMAIN Config : \E y :
            /\ Shows(A[Config[i].safe_addr], y)
            /\ y.tx_hash = h /\ IsWholeTx(d, y, Config[i])
      BY DEF WholeTxs
    <3>2. PICK y : /\ Shows(A[Config[i].safe_addr], y)
                  /\ y.tx_hash = h /\ IsWholeTx(d, y, Config[i])
      BY <3>1
    <3>3. h # x.tx_hash
      BY <2>3
    <3>4. {e \in w.deposits : e.eth_tx_hash = h} = {e \in d.deposits : e.eth_tx_hash = h}
      BY <2>3, <2>4, <3>3
    <3>5. {v \in w.withdrawals : v.eth_tx_hash = h} = {v \in d.withdrawals : v.eth_tx_hash = h}
      BY <2>3, <2>4, <3>3
    <3>6. IsWholeTx(w, y, Config[i])
      BY <3>2, <3>4, <3>5, WholeFrame
    <3> QED
      BY <3>2, <3>6
  <2> QED
    BY <2>1, <2>3, <2>6, <2>7, <2>8 DEF WholeTxs
<1> QED
  BY <1>1, <1>2

----------------------------------------------------------------------------
(* UnitInv is inductive.                                                   *)

\* The block a thread in the burns loop works on has as index the number of
\* blocks recorded.
LEMMA NextBlockIndex ==
  ASSUME IInv, NEW p \in Procs, scan[p].pc = "burns"
  PROVE  scan[p].block_index = Cardinality(wdb.block_audit_data)
<1>1. wdb.counters["num_blocks_synced"] \in Nat
  BY TypeFacts DEF Databases, CounterNames
<1>2. PICK n \in Nat : n = wdb.counters["num_blocks_synced"]
  BY <1>1
<1>3. scan[p].block_index = n
  BY <1>2 DEF IInv, ScanInv
<1>4. wdb.block_audit_data = 0 .. n - 1
  BY <1>2 DEF IInv, DbInv
<1>5. Cardinality(0 .. n - 1) = IF 0 > n - 1 THEN 0 ELSE n - 1 - 0 + 1
  BY FS_Interval
<1> QED
  BY <1>3, <1>4, <1>5

\* A transaction that has just begun has changed nothing.
LEMMA UnitStarts ==
  ASSUME NEW d \in Databases
  PROVE  /\ GrowsFrom(d, d) /\ NewPairsAreNew(d, d)
         /\ \A s, c : s.pc = "check_index" => BlockUnit(s, d, d, c)
         /\ \A s, x, cfg : s.pc = "insert" => TxUnit(s, d, d, x, cfg)
<1>1. GrowsFrom(d, d)
  BY GrowthComposes
<1>2. NewPairsAreNew(d, d)
  <2>1. \A i \in DOMAIN d.audited_burns : ~(i > Len(d.audited_burns))
    BY DEF Databases
  <2> QED
    BY <2>1 DEF NewPairsAreNew
<1>3. \A s, c : s.pc = "check_index" => BlockUnit(s, d, d, c)
  BY DEF BlockUnit, Keeps, StoredBurns, AfterFinish
<1>4. \A s, x, cfg : s.pc = "insert" => TxUnit(s, d, d, x, cfg)
  BY DEF TxUnit
<1> QED
  BY <1>1, <1>2, <1>3, <1>4

\* What a commit writes, from what is committed to it.
LEMMA CommitWhole ==
  ASSUME IInv, UnitInv, Commits
  PROVE  WholeTxs(wdb, api)
<1>1. WholeTxs(db, api)
  BY WholeTxsMeans DEF UnitInv
<1>2. ASSUME NEW p \in Procs, scan[p].pc = "commit"
      PROVE  WholeTxs(wdb, api)
  <2>1. Keeps(db, wdb, SafeTables)
    BY <1>2 DEF UnitInv, BlockUnit, ScanInTx
  <2> QED
    BY <1>1, <2>1, WholeTxsStay, ShowsFacts
<1>3. ASSUME NEW t \in Workers, work[t].pc = "commit"
      PROVE  WholeTxs(wdb, api)
  <2>1. t[2] \in DOMAIN Config /\ audited_safe(t) = Config[t[2]]
    BY SafeOfThread
  <2>2. work[t].todo \in Seq(RawGnosisTransactions) /\ work[t].todo # << >>
    BY <1>3, TxType DEF WorkInTx
  <2>3. 1 \in DOMAIN work[t].todo /\ Tx(t) = work[t].todo[1]
    BY <2>2 DEF Tx
  <2>4. Shows(api[Config[t[2]].safe_addr], Tx(t))
    BY <2>1, <2>3 DEF UnitInv, TodoIsListed, Shows
  <2>5. TxUnit(work[t], db, wdb, Tx(t), Config[t[2]])
    BY <1>3, <2>1 DEF UnitInv, WorkInTx
  <2> QED
    BY <1>1, <1>3, <2>1, <2>4, <2>5, WholeTxsCommit
<1> QED
  BY <1>2, <1>3 DEF Commits

\* A step of the auditor.
LEMMA NextUnitInv ==
  ASSUME IInv, IInv', [Next]_vars, UnitInv
  PROVE  UnitInv'
<1>1. /\ db \in Databases /\ wdb \in Databases /\ db' \in Databases /\ wdb' \in Databases
  <2>1. db \in Databases /\ wdb \in Databases
    BY TypeFacts
  <2>2. db' \in Databases /\ wdb' \in Databases
    BY DEF IInv, TypeOK, LedgerTypeOK, StoreTypeOK
  <2> QED
    BY <2>1, <2>2
<1>2. /\ \A p \in Procs : scan[p].pc \in ScanInTx =>
           /\ BlockUnit(scan[p], db, wdb, Contents(p))
           /\ GrowsFrom(db, wdb) /\ NewPairsAreNew(db, wdb)
      /\ \A t \in Workers : work[t].pc \in WorkInTx =>
           /\ TxUnit(work[t], db, wdb, Tx(t), audited_safe(t))
           /\ GrowsFrom(db, wdb) /\ NewPairsAreNew(db, wdb)
      /\ WholeTxs(db, api)
  BY WholeTxsMeans DEF UnitInv
<1>3. TodoIsListed'
  BY TodoStaysListed DEF UnitInv
<1>4. \A i \in DOMAIN Config : ShowsAll(api'[Config[i].safe_addr], api[Config[i].safe_addr])
  BY ListingStep DEF ApiGrows, AuditedSafes
<1>5. ProcessedTxsAreWhole'
  <2>1. WholeTxs(db', api)
    <3>1. db' = db \/ Commits
      BY StepCases DEF Idles, Begins, ScanProceeds, WorkProceeds
    <3> QED
      BY <1>2, <3>1, CommitWhole DEF Commits
  <2>2. WholeTxs(db', api')
    BY <1>4, <2>1, WholeTxsStay DEF Keeps
  <2>3. ProcessedTxsAreWhole' <=> WholeTxs(db, api)'
    BY WholeTxsMeans, PTL
  <2> QED
    BY <2>2, <2>3
<1>6. /\ \A p \in Procs : scan'[p].pc \in ScanInTx =>
           /\ BlockUnit(scan'[p], db', wdb', Contents(p)')
           /\ GrowsFrom(db', wdb') /\ NewPairsAreNew(db', wdb')
      /\ \A t \in Workers : work'[t].pc \in WorkInTx =>
           /\ TxUnit(work'[t], db', wdb', Tx(t)', audited_safe(t))
           /\ GrowsFrom(db', wdb') /\ NewPairsAreNew(db', wdb')
  <2>1. CASE Idles
    <3>1. \A t \in Workers : work'[t] = work[t] => Tx(t)' = Tx(t)
      BY DEF Tx
    <3> QED
      BY <1>2, <2>1, <3>1 DEF Idles
  <2>2. CASE Begins
    BY <1>1, <2>2, UnitStarts DEF Begins
  <2>3. CASE Commits
    BY <2>3 DEF Commits
  <2>4. CASE \E p \in Procs : ScanProceeds(p)
    <3>1. PICK p \in Procs : ScanProceeds(p)
      BY <2>4
    <3>2. Contents(p) \in BlockContents /\ scan[p].pos \in Nat \ {0}
      BY <3>1, ContentsType DEF ScanProceeds, ScanInTx
    <3>3. /\ BlockUnit(scan[p], db, wdb, Contents(p)) /\ GrowsFrom(db, wdb)
          /\ NewPairsAreNew(db, wdb) /\ ScanMove(scan[p], scan'[p], wdb, wdb', Contents(p))
      BY <1>2, <3>1 DEF ScanProceeds
    <3>4. BlockUnit(scan'[p], db, wdb', Contents(p))
      BY <1>1, <3>2, <3>3, NextBlockIndex, ScanMoveUnit
    <3>5. AddsAtMostOne(wdb, wdb')
      BY <1>1, <3>2, <3>3, ScanMoveAddsOne
    <3>6. GrowsFrom(db, wdb')
      BY <1>1, <3>3, <3>5, GrowthComposes
    <3>7. NewPairsAreNew(db, wdb')
      BY <1>1, <3>2, <3>3, ScanMovePairs
    <3> QED
      BY <3>1, <3>4, <3>6, <3>7 DEF ScanProceeds
  <2>5. CASE \E t \in Workers : WorkProceeds(t)
    <3>1. PICK t \in Workers : WorkProceeds(t)
      BY <2>5
    <3>2. PICK k \in DOMAIN Config : audited_safe(t) = Config[k]
      BY SafeOfThread
    <3>3. /\ TxUnit(work[t], db, wdb, Tx(t), Config[k]) /\ GrowsFrom(db, wdb)
          /\ NewPairsAreNew(db, wdb)
          /\ WorkMove(work[t], work'[t], wdb, wdb', Tx(t), Config[k])
      BY <1>2, <3>1, <3>2 DEF WorkProceeds
    <3>4. /\ Tx(t) \in RawGnosisTransactions /\ work[t].pos \in Nat \ {0}
          /\ work[t].pc = "transfers" => Tx(t) \in EthereumTransactions
          /\ work[t].pc = "multi_sig" => Tx(t) \in MultiSigTransactions
      BY <3>1, TxType, TypeFacts DEF WorkProceeds, WorkStates
    <3>5. TxUnit(work'[t], db, wdb', Tx(t), Config[k])
      BY <1>1, <3>3, <3>4, WorkMoveUnit
    <3>6. AddsAtMostOne(wdb, wdb')
      BY <1>1, <3>3, WorkMoveAddsOne
    <3>7. GrowsFrom(db, wdb')
      BY <1>1, <3>3, <3>6, GrowthComposes
    <3>8. \A v \in db.withdrawals : v.eth_tx_hash \in db.gnosis_safe_txs
      BY <1>2 DEF WholeTxs
    <3>9. NewPairsAreNew(db, wdb')
      BY <1>1, <3>3, <3>8, WorkMovePairs
    <3> QED
      BY <3>1, <3>2, <3>5, <3>7, <3>9 DEF WorkProceeds
  <2> QED
    BY <2>1, <2>2, <2>3, <2>4, <2>5, StepCases
<1>7. \A t \in Workers : audited_safe(t)' = audited_safe(t)
  BY DEF audited_safe
<1> QED
  BY <1>3, <1>5, <1>6, <1>7 DEF UnitInv

\* Units stay units in every reachable state.
LEMMA UnitInvariance == Spec => []UnitInv
<1>1. Init => UnitInv
  <2> SUFFICES ASSUME Init PROVE UnitInv
    OBVIOUS
  <2>1. /\ \A p \in Procs : scan[p].pc \notin ScanInTx
        /\ \A t \in Workers : work[t].pc \notin WorkInTx /\ work[t].todo = << >>
    BY DEF Init, LedgerInit, GnosisInit, ScanAt, WorkAt, ScanInTx, WorkInTx
  <2>2. ProcessedTxsAreWhole
    BY DEF Init, StoreInit, EmptyDb, ProcessedTxsAreWhole
  <2>3. TodoIsListed
    BY <2>1 DEF TodoIsListed
  <2> QED
    BY <2>1, <2>2, <2>3 DEF UnitInv
<1>2. IInv /\ IInv' /\ [Next]_vars /\ UnitInv => UnitInv'
  BY NextUnitInv
<1> QED
  BY <1>1, <1>2, Invariance, PTL DEF Spec

\* A hash recorded in gnosis_safe_txs, the marker that makes every later poll of
\* every safe skip the transaction, stands for a transaction of the listing of
\* one safe, of which exactly that safe's part is stored: the deposits of the
\* transfers to it up to the first one of a token that is not audited, or its
\* withdrawal.  Nothing is stored without the hash, whatever crashed, timed out
\* or raced (process_transactions, process_eth_transaction,
\* process_multi_sig_transaction).
THEOREM TransactionsAreWhole == Spec => []ProcessedTxsAreWhole
<1>1. UnitInv => ProcessedTxsAreWhole
  BY DEF UnitInv
<1> QED
  BY <1>1, UnitInvariance, PTL

\* A step adds at most one transaction to one listing.
LEMMA ApiStep ==
  ASSUME [Next]_vars, api' # api
  PROVE  \E a \in AuditedSafes : ListTx(a)
<1>1. CASE UNCHANGED vars \/ (LedgerNext /\ UNCHANGED gnosisVars)
  BY <1>1 DEF vars, gnosisVars
<1>2. CASE \E p \in Procs : Crash(p) \/ Restart(p)
  BY <1>2 DEF Crash, Restart
<1>3. \A t \in Workers : ~WorkStep(t)
  BY DEF WorkStep, Poll, PollDone, SkipTx, InsertTx, DecodeFails, CommitTx, UnknownTransfer,
         UnknownTokenTransfer, StoreDeposit, DepositFails, TransfersDone, OtherSafeMultiSig,
         InvalidMultiSig, StoreWithdrawal, MultiSigFails, WorkFails
<1>4. \A t \in Workers : ~BeginTx(t) /\ ~TxLockTimeout(t)
  BY DEF BeginTx, TxLockTimeout
<1> QED
  BY <1>1, <1>2, <1>3, <1>4 DEF Next, GnosisNext

\* One more transaction, of a new hash, at the front of a listing.
LEMMA FrontOnce ==
  ASSUME NEW S, NEW q \in Seq(S), NEW x \in S,
         \A j, k \in DOMAIN q : q[j].tx_hash = q[k].tx_hash => j = k,
         \A i \in DOMAIN q : q[i].tx_hash # x.tx_hash,
         NEW l, l = <<x>> \o q,
         NEW j \in DOMAIN l, NEW k \in DOMAIN l, l[j].tx_hash = l[k].tx_hash
  PROVE  j = k
<1>1. /\ Len(q) \in Nat /\ DOMAIN q = 1 .. Len(q) /\ DOMAIN l = 1 .. Len(q) + 1
      /\ l[1] = x
  OBVIOUS
<1>2. \A i \in DOMAIN l : i # 1 => i - 1 \in DOMAIN q /\ l[i] = q[i - 1]
  OBVIOUS
<1>3. CASE j = 1 /\ k # 1
  BY <1>1, <1>2, <1>3
<1>4. CASE j # 1 /\ k = 1
  BY <1>1, <1>2, <1>4
<1>5. CASE j # 1 /\ k # 1
  <2>1. j - 1 = k - 1
    BY <1>2, <1>5
  <2> QED
    BY <1>1, <2>1
<1> QED
  BY <1>3, <1>4, <1>5

\* No listing shows a transaction twice.
LEMMA ListingsAreUnique == Spec => []HashListedOnce
<1>1. Init => HashListedOnce
  BY DEF Init, GnosisInit, HashListedOnce
<1>2. IInv /\ [Next]_vars /\ HashListedOnce => HashListedOnce'
  <2> SUFFICES ASSUME IInv, [Next]_vars, HashListedOnce PROVE HashListedOnce'
    OBVIOUS
  <2>1. CASE api' = api
    BY <2>1 DEF HashListedOnce
  <2>2. CASE api' # api
    <3>1. PICK a \in AuditedSafes : ListTx(a)
      BY <2>2, ApiStep
    <3>2. PICK x \in ApiTxs[a] : /\ \A i \in DOMAIN api[a] : api[a][i].tx_hash # x.tx_hash
                                /\ api' = [api EXCEPT ![a] = <<x>> \o @]
      BY <3>1 DEF ListTx
    <3>3. x \in RawGnosisTransactions
      BY <3>2, GnosisAssumption
    <3>4. api \in [AuditedSafes -> Seq(RawGnosisTransactions)]
      BY TypeFacts
    <3>5. PICK l : l = <<x>> \o api[a]
      OBVIOUS
    <3>6. api'[a] = l /\ \A b \in AuditedSafes \ {a} : api'[b] = api[b]
      BY <3>2, <3>4, <3>5
    <3>7. \A j, k \in DOMAIN l : l[j].tx_hash = l[k].tx_hash => j = k
      BY <3>2, <3>3, <3>4, <3>5, FrontOnce DEF HashListedOnce
    <3> QED
      BY <3>6, <3>7 DEF HashListedOnce
  <2> QED
    BY <2>1, <2>2
<1> QED
  BY <1>1, <1>2, Invariance, PTL DEF Spec

\* A transaction that is whole for a safe, and transfers only audited tokens to
\* it, is complete for it.
LEMMA WholeIsComplete ==
  ASSUME NEW d, NEW x, NEW cfg, IsWholeTx(d, x, cfg), ~HasUnknownToken(x, cfg)
  PROVE  IsComplete(d, x, cfg)
<1>1. x.kind = "multi_sig" => WithdrawalsOf(x, cfg) \subseteq d.withdrawals
  BY DEF IsWholeTx
<1>2. ASSUME NEW f \in TransfersTo(x, cfg.safe_addr)
      PROVE  \E e \in TransferRows(x, f, cfg) : e \in d.deposits
  <2>1. x.kind = "ethereum"
    BY <1>2 DEF TransfersTo
  <2>2. PICK k \in DOMAIN x.transfers : f = x.transfers[k] /\ f.to = cfg.safe_addr
    BY <1>2, <2>1 DEF TransfersTo
  <2>3. \A i \in DOMAIN x.transfers : x.transfers[i].to = cfg.safe_addr =>
          TokensOf(cfg, x.transfers[i]) # {}
    BY <2>1 DEF HasUnknownToken, TransfersTo
  <2>4. k \in ReachedAt(x, cfg)
    BY <2>2, <2>3 DEF ReachedAt
  <2>5. f \in ReachedTransfers(x, cfg) /\ TokensOf(cfg, f) # {}
    BY <2>2, <2>3, <2>4 DEF ReachedTransfers
  <2>6. f.token_addr # {} /\ f.value # {}
    BY <2>1, <2>5 DEF IsWholeTx
  <2>7. PICK e : e \in TransferRows(x, f, cfg)
    <3>1. PICK a \in f.token_addr : TRUE
      BY <2>6
    <3>2. PICK v \in f.value : TRUE
      BY <2>6
    <3>3. PICK token \in TokensOf(cfg, f) : TRUE
      BY <2>5
    <3> DEFINE row(b, u, tok) ==
                 [eth_tx_hash |-> x.tx_hash, safe_addr |-> cfg.safe_addr, token_addr |-> b,
                  amount |-> truncated(u, tok.decimals, cfg.token_decimals_max)]
    <3>4. TransferRows(x, f, cfg)
            = {row(b, u, tok) : b \in f.token_addr, u \in f.value, tok \in TokensOf(cfg, f)}
      BY DEF TransferRows
    <3> HIDE DEF row
    <3>5. row(a, v, token) \in TransferRows(x, f, cfg)
      BY <3>1, <3>2, <3>3, <3>4
    <3> QED
      BY <3>5
  <2>8. e \in DepositsOf(x, cfg)
    BY <2>5, <2>7 DEF DepositsOf
  <2>9. e \in d.deposits
    BY <2>1, <2>8 DEF IsWholeTx
  <2> QED
    BY <2>7, <2>9
<1> QED
  BY <1>1, <1>2 DEF IsComplete

\* Of a recorded transaction, a safe that lists it misses nothing, unless
\* another safe lists it as well (AlreadyExists in process_transactions) or it
\* transfers a token to the safe that is not audited (UnknownToken in
\* process_eth_transaction), for any configuration and any listings.
THEOREM NothingElseIsLost == Spec => []LossesAreExplained
<1>1. UnitInv /\ HashListedOnce => LossesAreExplained
  <2> SUFFICES ASSUME UnitInv, HashListedOnce, NEW i \in DOMAIN Config,
                      NEW k \in DOMAIN api[Config[i].safe_addr],
                      NEW x, x = api[Config[i].safe_addr][k],
                      x.tx_hash \in db.gnosis_safe_txs,
                      ListedBy(x.tx_hash) = {i}, ~HasUnknownToken(x, Config[i])
               PROVE  IsComplete(db, x, Config[i])
    BY DEF LossesAreExplained
  <2>0. PICK j \in DOMAIN Config : \E n \in DOMAIN api[Config[j].safe_addr] :
          /\ api[Config[j].safe_addr][n].tx_hash = x.tx_hash
          /\ IsWholeTx(db, api[Config[j].safe_addr][n], Config[j])
    BY DEF UnitInv, ProcessedTxsAreWhole
  <2>1. PICK n \in DOMAIN api[Config[j].safe_addr] :
          /\ api[Config[j].safe_addr][n].tx_hash = x.tx_hash
          /\ IsWholeTx(db, api[Config[j].safe_addr][n], Config[j])
    BY <2>0
  <2>2. j = i
    BY <2>1 DEF ListedBy
  <2>3. Config[i].safe_addr \in AuditedSafes
    BY DEF AuditedSafes
  <2>4. n = k
    BY <2>1, <2>2, <2>3 DEF HashListedOnce
  <2> QED
    BY <2>1, <2>2, <2>4, WholeIsComplete
<1> QED
  BY <1>1, UnitInvariance, ListingsAreUnique, PTL

\* Every change of the committed database is the next block or one new Ethereum
\* transaction, never a part of one or a mixture, and it keeps the audit log
\* and the counts made before (exclusive_transaction around
\* sync_block_with_conn and process_transactions).
THEOREM CommitsAreUnits == Spec => OneUnitPerCommit
<1>1. IInv /\ IInv' /\ UnitInv /\ [Next]_vars => [CommitsOneUnit]_db
  <2> SUFFICES ASSUME IInv, IInv', UnitInv, [Next]_vars, db' # db
               PROVE  CommitsOneUnit
    OBVIOUS
  <2>1. Commits
    BY StepCases DEF Idles, Begins, ScanProceeds, WorkProceeds
  <2>2. db' = wdb
    BY <2>1 DEF Commits
  <2>3. CASE \E p \in Procs : scan[p].pc = "commit"
    <3>1. PICK p \in Procs : scan[p].pc = "commit"
      BY <2>3
    <3>2. BlockUnit(scan[p], db, wdb, Contents(p)) /\ GrowsFrom(db, wdb)
      BY <3>1 DEF UnitInv, ScanInTx
    <3>3. /\ wdb.gnosis_safe_txs = db.gnosis_safe_txs /\ wdb.deposits = db.deposits
          /\ wdb.withdrawals = db.withdrawals
          /\ wdb.block_audit_data = db.block_audit_data \cup {Cardinality(db.block_audit_data)}
      BY <3>1, <3>2 DEF BlockUnit, Keeps, SafeTables, AfterFinish
    <3> QED
      BY <2>2, <3>2, <3>3 DEF CommitsOneUnit, GrowsFrom
  <2>4. CASE \E t \in Workers : work[t].pc = "commit"
    <3>1. PICK t \in Workers : work[t].pc = "commit"
      BY <2>4
    <3>2. PICK h, D, W : /\ h = Tx(t).tx_hash /\ D = StoredDeposits(work[t], Tx(t), audited_safe(t))
                         /\ W = StoredWithdrawals(work[t], Tx(t), audited_safe(t))
      OBVIOUS
    <3>3. TxUnit(work[t], db, wdb, Tx(t), audited_safe(t)) /\ GrowsFrom(db, wdb)
      BY <3>1 DEF UnitInv, WorkInTx
    <3>4. /\ h \notin db.gnosis_safe_txs
          /\ wdb.gnosis_safe_txs = db.gnosis_safe_txs \cup {h}
          /\ wdb.deposits = db.deposits \cup D
          /\ wdb.withdrawals = db.withdrawals \cup W
          /\ Keeps(db, wdb, LedgerTables)
      BY <2>2, <3>2, <3>3 DEF TxUnit
    <3>5. h \in EthTxHashes
      BY <3>1, <3>2, TxType DEF WorkInTx
    <3>6. (\A e \in D : e.eth_tx_hash = h) /\ (\A v \in W : v.eth_tx_hash = h)
      BY <3>1, <3>2, StoredHashes
    <3>7. /\ \A e \in db.deposits : e.eth_tx_hash \in db.gnosis_safe_txs
          /\ \A v \in db.withdrawals : v.eth_tx_hash \in db.gnosis_safe_txs
      BY DEF UnitInv, ProcessedTxsAreWhole
    <3>8. /\ db.deposits = {e \in wdb.deposits : e.eth_tx_hash # h}
          /\ db.withdrawals = {v \in wdb.withdrawals : v.eth_tx_hash # h}
      BY <3>4, <3>6, <3>7
    <3>9. /\ wdb.block_audit_data = db.block_audit_data
          /\ wdb.block_balance = db.block_balance
          /\ wdb.mint_config_txs = db.mint_config_txs
          /\ wdb.mint_txs = db.mint_txs
          /\ wdb.burn_tx_outs = db.burn_tx_outs
      BY <3>4 DEF Keeps, LedgerTables
    <3> QED
      BY <2>2, <3>3, <3>4, <3>5, <3>8, <3>9 DEF CommitsOneUnit, GrowsFrom
  <2> QED
    BY <2>1, <2>3, <2>4 DEF Commits
<1> QED
  BY <1>1, Invariance, UnitInvariance, PTL DEF Spec, OneUnitPerCommit

----------------------------------------------------------------------------
(* The image of the ledger, without the ledger: lc, lm and lb are the mint *)
(* configs, mints and burns of the blocks that are synced.                 *)

WholeOf(d, lc, lm, lb) == ConfigFacts(d) = lc /\ MintFacts(d) = lm /\ d.burn_tx_outs = lb

ConfigPart(n, c, I) ==
  {<<n, c.mint_config_txs[i].token_id, c.mint_config_txs[i].nonce>> : i \in I}

MintPart(n, c, I) == {MintFact(n, c.mint_txs[i]) : i \in I}

BurnPart(n, c, I) == {burn_tx_out_row(n, c.outputs[i]) : i \in I}

PartOf(s, d, c, lc, lm, lb) ==
  /\ ConfigFacts(d) = lc \cup ConfigPart(s.block_index, c, StoredConfigs(s, c))
  /\ MintFacts(d) = lm \cup MintPart(s.block_index, c, StoredMints(s, c))
  /\ d.burn_tx_outs = lb \cup BurnPart(s.block_index, c, StoredBurns(s, c))

\* The image of the ledger, table by table.
LEMMA ImageParts ==
  ASSUME NEW d, NEW s, NEW c
  PROVE  /\ \A n : n = d.counters["num_blocks_synced"] =>
              (WholeImage(d) <=> WholeOf(d, LedgerConfigFacts(n), LedgerMintFacts(n), LedgerBurns(n)))
         /\ \A n : n = s.block_index =>
              (PartImage(s, d, c)
                 <=> PartOf(s, d, c, LedgerConfigFacts(n), LedgerMintFacts(n), LedgerBurns(n)))
<1>1. \A n : n = d.counters["num_blocks_synced"] =>
        (WholeImage(d) <=> WholeOf(d, LedgerConfigFacts(n), LedgerMintFacts(n), LedgerBurns(n)))
  BY DEF WholeImage, Image, WholeOf
<1>2. \A n : n = s.block_index =>
        (PartImage(s, d, c)
           <=> PartOf(s, d, c, LedgerConfigFacts(n), LedgerMintFacts(n), LedgerBurns(n)))
  BY DEF PartImage, Image, PartOf, ConfigPart, MintPart, BurnPart
<1> QED
  BY <1>1, <1>2

\* Nothing stored is no row.
LEMMA NoParts ==
  ASSUME NEW n, NEW c
  PROVE  ConfigPart(n, c, {}) = {} /\ MintPart(n, c, {}) = {} /\ BurnPart(n, c, {}) = {}
  BY DEF ConfigPart, MintPart, BurnPart

\* The facts depend on their tables only, and a new row adds its own.
LEMMA FactsGrow ==
  ASSUME NEW d, NEW d2
  PROVE  /\ d2.mint_config_txs = d.mint_config_txs => ConfigFacts(d2) = ConfigFacts(d)
         /\ d2.mint_txs = d.mint_txs => MintFacts(d2) = MintFacts(d)
         /\ \A r : d2.mint_config_txs = d.mint_config_txs \cup {r} =>
              ConfigFacts(d2) = ConfigFacts(d) \cup {<<r.block_index, r.token_id, r.nonce>>}
         /\ \A n, tx, m : /\ d2.mint_txs = d.mint_txs \cup {m}
                          /\ m.block_index = n /\ m.token_id = tx.token_id
                          /\ m.amount = tx.amount /\ m.nonce = tx.nonce
              => MintFacts(d2) = MintFacts(d) \cup {MintFact(n, tx)}
<1>1. \A r : d2.mint_config_txs = d.mint_config_txs \cup {r} =>
        ConfigFacts(d2) = ConfigFacts(d) \cup {<<r.block_index, r.token_id, r.nonce>>}
  BY DEF ConfigFacts
<1>2. ASSUME NEW n, NEW tx, NEW m, d2.mint_txs = d.mint_txs \cup {m},
             m.block_index = n, m.token_id = tx.token_id, m.amount = tx.amount,
             m.nonce = tx.nonce
      PROVE  MintFacts(d2) = MintFacts(d) \cup {MintFact(n, tx)}
  <2>1. MintFact(n, tx) = [block_index |-> m.block_index, token_id |-> m.token_id,
                           amount |-> m.amount, nonce |-> m.nonce]
    BY <1>2 DEF MintFact
  <2> QED
    BY <1>2, <2>1 DEF MintFacts
<1>3. d2.mint_config_txs = d.mint_config_txs => ConfigFacts(d2) = ConfigFacts(d)
  BY DEF ConfigFacts
<1>4. d2.mint_txs = d.mint_txs => MintFacts(d2) = MintFacts(d)
  BY DEF MintFacts
<1> QED
  BY <1>1, <1>2, <1>3, <1>4

\* At first nothing of the block is stored.
LEMMA PartStarts ==
  ASSUME NEW s, s.pc = "check_index", NEW w, NEW c, NEW lc, NEW lm, NEW lb, WholeOf(w, lc, lm, lb)
  PROVE  PartOf(s, w, c, lc, lm, lb)
<1>1. StoredConfigs(s, c) = {} /\ StoredMints(s, c) = {} /\ StoredBurns(s, c) = {}
  BY DEF StoredConfigs, StoredMints, StoredBurns, AfterConfigs, AfterMints, AfterFinish
<1> QED
  BY <1>1, NoParts DEF WholeOf, PartOf

\* The moves of the main thread store its block, row by row.
LEMMA ScanMoveImage ==
  ASSUME NEW s, s.pos \in Nat \ {0}, NEW s2, NEW w \in Databases, NEW w2,
         NEW c \in BlockContents, ScanMove(s, s2, w, w2, c), NEW lc, NEW lm, NEW lb,
         PartOf(s, w, c, lc, lm, lb)
  PROVE  PartOf(s2, w2, c, lc, lm, lb)
<1>1. PICK n : n = s.block_index
  OBVIOUS
<1>2. s2.block_index = n
  BY <1>1 DEF ScanMove, CheckMove, ConfigMove, ConfigsDone, MintMove, MintsDone, SkipMove, BurnMove,
              FinishMove, AuditMintMove, AuditMintsEnd, AuditBurnMove, AuditBurnsEnd, ScanGoes
<1>3. PICK I, J, K : I = StoredConfigs(s, c) /\ J = StoredMints(s, c) /\ K = StoredBurns(s, c)
  OBVIOUS
<1>4. PICK I2, J2, K2 : /\ I2 = StoredConfigs(s2, c) /\ J2 = StoredMints(s2, c)
                        /\ K2 = StoredBurns(s2, c)
  OBVIOUS
<1>5. /\ ConfigFacts(w) = lc \cup ConfigPart(n, c, I)
      /\ MintFacts(w) = lm \cup MintPart(n, c, J)
      /\ w.burn_tx_outs = lb \cup BurnPart(n, c, K)
  BY <1>1, <1>3 DEF PartOf
<1> SUFFICES /\ ConfigFacts(w2) = lc \cup ConfigPart(n, c, I2)
             /\ MintFacts(w2) = lm \cup MintPart(n, c, J2)
             /\ w2.burn_tx_outs = lb \cup BurnPart(n, c, K2)
  BY <1>2, <1>4 DEF PartOf
<1>6. AuditMintMove(s, s2, w, w2, c) \/ AuditBurnMove(s, s2, w, w2, c)
         => TriesMint(w, w2) \/ TriesBurn(w, w2)
  <2>1. c.mint_txs \in Seq(CoreMintTxs) /\ c.outputs \in Seq(TxOuts)
    BY DEF BlockContents
  <2>2. CASE AuditMintMove(s, s2, w, w2, c)
    BY <2>1, <2>2, MintTries DEF AuditMintMove
  <2>3. CASE AuditBurnMove(s, s2, w, w2, c)
    BY <2>1, <2>3, BurnTries DEF AuditBurnMove
  <2> QED
    BY <2>2, <2>3
<1>7. \/ ConfigMove(s, s2, w, w2, c) \/ MintMove(s, s2, w, w2, c) \/ BurnMove(s, s2, w, w2, c)
       \/ FinishMove(s, s2, w, w2, c) \/ AuditMintMove(s, s2, w, w2, c)
       \/ AuditBurnMove(s, s2, w, w2, c) \/ w2 = w
  BY DEF ScanMove, CheckMove, ConfigsDone, MintsDone, SkipMove, AuditMintsEnd, AuditBurnsEnd
<1>8. ConfigFacts(w2) = lc \cup ConfigPart(n, c, I2)
  <2>1. CASE ConfigMove(s, s2, w, w2, c)
    <3>1. I2 = I \cup {s.pos}
      BY <1>3, <1>4, <2>1, StoredConfigsMove
    <3>2. PICK r : /\ r.block_index = n /\ r.token_id = c.mint_config_txs[s.pos].token_id
                   /\ r.nonce = c.mint_config_txs[s.pos].nonce
                   /\ w2.mint_config_txs = w.mint_config_txs \cup {r}
      BY <1>1, <2>1 DEF ConfigMove, StoresConfig
    <3>3. ConfigFacts(w2) = ConfigFacts(w) \cup {<<r.block_index, r.token_id, r.nonce>>}
      BY <3>2, FactsGrow
    <3>4. ConfigPart(n, c, I \cup {s.pos}) = ConfigPart(n, c, I) \cup
            {<<n, c.mint_config_txs[s.pos].token_id, c.mint_config_txs[s.pos].nonce>>}
      BY ONLY TRUE DEF ConfigPart
    <3> QED
      BY <1>5, <3>1, <3>2, <3>3, <3>4
  <2>2. CASE ~ConfigMove(s, s2, w, w2, c)
    <3>1. I2 = I
      BY <1>3, <1>4, <2>2, StoredConfigsMove
    <3>2. w2.mint_config_txs = w.mint_config_txs
      <4>1. CASE MintMove(s, s2, w, w2, c)
        BY <4>1 DEF MintMove, StoresMint, Keeps, AllBut, Fields
      <4>2. CASE BurnMove(s, s2, w, w2, c)
        BY <4>2 DEF BurnMove, StoresBurn, Keeps, AllBut, Fields
      <4>3. CASE FinishMove(s, s2, w, w2, c)
        BY <4>3 DEF FinishMove, FinishesBlock, Keeps, AllBut, Fields
      <4>4. CASE AuditMintMove(s, s2, w, w2, c) \/ AuditBurnMove(s, s2, w, w2, c)
        BY <1>6, <4>4, TriesKeep DEF Keeps, AllBut, Fields
      <4> QED
        BY <1>7, <2>2, <4>1, <4>2, <4>3, <4>4
    <3> QED
      BY <1>5, <3>1, <3>2, FactsGrow
  <2> QED
    BY <2>1, <2>2
<1>9. MintFacts(w2) = lm \cup MintPart(n, c, J2)
  <2>1. CASE MintMove(s, s2, w, w2, c)
    <3>1. J2 = J \cup {s.pos}
      BY <1>3, <1>4, <2>1, StoredMintsMove
    <3>2. PICK tx : tx = c.mint_txs[s.pos]
      OBVIOUS
    <3>3. PICK m : /\ m.block_index = n /\ m.token_id = tx.token_id /\ m.amount = tx.amount
                   /\ m.nonce = tx.nonce /\ w2.mint_txs = w.mint_txs \cup {m}
      BY <1>1, <2>1, <3>2 DEF MintMove, StoresMint
    <3>4. MintFacts(w2) = MintFacts(w) \cup {MintFact(n, tx)}
      BY <3>3, FactsGrow
    <3>5. MintPart(n, c, J \cup {s.pos}) = MintPart(n, c, J) \cup {MintFact(n, c.mint_txs[s.pos])}
      BY ONLY TRUE DEF MintPart
    <3> QED
      BY <1>5, <3>1, <3>2, <3>4, <3>5
  <2>2. CASE ~MintMove(s, s2, w, w2, c)
    <3>1. J2 = J
      BY <1>3, <1>4, <2>2, StoredMintsMove
    <3>2. w2.mint_txs = w.mint_txs
      <4>1. CASE ConfigMove(s, s2, w, w2, c)
        BY <4>1 DEF ConfigMove, StoresConfig, Keeps, AllBut, Fields
      <4>2. CASE BurnMove(s, s2, w, w2, c)
        BY <4>2 DEF BurnMove, StoresBurn, Keeps, AllBut, Fields
      <4>3. CASE FinishMove(s, s2, w, w2, c)
        BY <4>3 DEF FinishMove, FinishesBlock, Keeps, AllBut, Fields
      <4>4. CASE AuditMintMove(s, s2, w, w2, c) \/ AuditBurnMove(s, s2, w, w2, c)
        BY <1>6, <4>4, TriesKeep DEF Keeps, AllBut, Fields
      <4> QED
        BY <1>7, <2>2, <4>1, <4>2, <4>3, <4>4
    <3> QED
      BY <1>5, <3>1, <3>2, FactsGrow
  <2> QED
    BY <2>1, <2>2
<1>10. w2.burn_tx_outs = lb \cup BurnPart(n, c, K2)
  <2>1. CASE BurnMove(s, s2, w, w2, c)
    <3>1. K2 = K \cup {s.pos}
      BY <1>3, <1>4, <2>1, StoredBurnsMove
    <3>2. PICK r : r = burn_tx_out_row(n, c.outputs[s.pos])
      OBVIOUS
    <3>3. w2.burn_tx_outs = w.burn_tx_outs \cup {r}
      BY <1>1, <2>1, <3>2 DEF BurnMove, StoresBurn
    <3>4. BurnPart(n, c, K \cup {s.pos})
            = BurnPart(n, c, K) \cup {burn_tx_out_row(n, c.outputs[s.pos])}
      BY ONLY TRUE DEF BurnPart
    <3> QED
      BY <1>5, <3>1, <3>2, <3>3, <3>4
  <2>2. CASE ~BurnMove(s, s2, w, w2, c)
    <3>1. K2 = K
      BY <1>3, <1>4, <2>2, StoredBurnsMove
    <3>2. w2.burn_tx_outs = w.burn_tx_outs
      <4>1. CASE ConfigMove(s, s2, w, w2, c)
        BY <4>1 DEF ConfigMove, StoresConfig, Keeps, AllBut, Fields
      <4>2. CASE MintMove(s, s2, w, w2, c)
        BY <4>2 DEF MintMove, StoresMint, Keeps, AllBut, Fields
      <4>3. CASE FinishMove(s, s2, w, w2, c)
        BY <4>3 DEF FinishMove, FinishesBlock, Keeps, AllBut, Fields
      <4>4. CASE AuditMintMove(s, s2, w, w2, c) \/ AuditBurnMove(s, s2, w, w2, c)
        BY <1>6, <4>4, TriesKeep DEF Keeps, AllBut, Fields
      <4> QED
        BY <1>7, <2>2, <4>1, <4>2, <4>3, <4>4
    <3> QED
      BY <1>5, <3>1, <3>2
  <2> QED
    BY <2>1, <2>2
<1> QED
  BY <1>8, <1>9, <1>10

----------------------------------------------------------------------------
(* Which moves record a block.                                             *)

\* How many blocks are synced, and their balances, stay.
SameBlocks(d, d2) ==
  /\ d2.block_balance = d.block_balance
  /\ d2.counters["num_blocks_synced"] = d.counters["num_blocks_synced"]

\* An attempt at matching changes no table of the ledger.
LEMMA TriesKeepLedger ==
  ASSUME NEW d, NEW d2, TriesMint(d, d2) \/ TriesBurn(d, d2)
  PROVE  Keeps(d, d2, LedgerTables) /\ SameBlocks(d, d2)
<1>1. Keeps(d, d2, LedgerTables)
  BY TriesKeep DEF Keeps, AllBut, Fields, LedgerTables
<1>2. d2.counters["num_blocks_synced"] = d.counters["num_blocks_synced"]
  <2>1. CASE \E c \in MintErrors \cup BurnErrors : Counted(d, d2, c)
    <3>1. PICK c \in MintErrors \cup BurnErrors : Counted(d, d2, c)
      BY <2>1
    <3>2. c # "num_blocks_synced"
      BY <3>1 DEF MintErrors, BurnErrors
    <3> QED
      BY <3>1, <3>2 DEF Counted, CountsOne, CounterNames
  <2>2. CASE d2.counters = d.counters
    BY <2>2
  <2> QED
    BY <2>1, <2>2 DEF TriesMint, TriesBurn, Keeps, AllBut, Fields
<1> QED
  BY <1>1, <1>2 DEF SameBlocks, Keeps, LedgerTables

\* Nor does a safe thread.
LEMMA WorkMoveKeepsLedger ==
  ASSUME NEW s, NEW s2, NEW d \in Databases, NEW d2, NEW x, NEW k \in DOMAIN Config,
         WorkMove(s, s2, d, d2, x, Config[k])
  PROVE  Keeps(d, d2, LedgerTables) /\ SameBlocks(d, d2)
<1>1. CASE DepositMove(s, s2, d, d2, x, Config[k])
  <2>1. PICK e \in DepositRows : StoresDeposit(d, d2, e, Config[k])
    BY <1>1 DEF DepositMove
  <2>2. PICK d1 \in Databases : Keeps(d, d1, AllBut({"deposits"})) /\ TriesMint(d1, d2)
    BY <2>1, MintTries DEF StoresDeposit
  <2>3. Keeps(d1, d2, LedgerTables) /\ SameBlocks(d1, d2)
    BY <2>2, TriesKeepLedger
  <2>4. Keeps(d, d1, LedgerTables) /\ SameBlocks(d, d1)
    BY <2>2 DEF Keeps, AllBut, Fields, LedgerTables, SameBlocks
  <2> QED
    BY <2>3, <2>4 DEF Keeps, SameBlocks
<1>2. CASE WithdrawalMove(s, s2, d, d2, x, Config[k])
  <2>1. PICK w \in WithdrawalRows : StoresWithdrawal(d, d2, w, Config[k])
    BY <1>2 DEF WithdrawalMove
  <2>2. PICK d1 \in Databases : Keeps(d, d1, AllBut({"withdrawals"})) /\ TriesBurn(d1, d2)
    BY <2>1, BurnTries DEF StoresWithdrawal
  <2>3. Keeps(d1, d2, LedgerTables) /\ SameBlocks(d1, d2)
    BY <2>2, TriesKeepLedger
  <2>4. Keeps(d, d1, LedgerTables) /\ SameBlocks(d, d1)
    BY <2>2 DEF Keeps, AllBut, Fields, LedgerTables, SameBlocks
  <2> QED
    BY <2>3, <2>4 DEF Keeps, SameBlocks
<1>3. CASE ~DepositMove(s, s2, d, d2, x, Config[k]) /\ ~WithdrawalMove(s, s2, d, d2, x, Config[k])
  <2>1. \/ Keeps(d, d2, AllBut({"gnosis_safe_txs"}))
        \/ Counted(d, d2, "num_invalid_ethereum_transactions")
        \/ Counted(d, d2, "num_invalid_multi_sig_transactions")
    BY <1>3 DEF WorkMove, SkipTxMove, InsertMove, ForeignTransferMove, UnknownTokenMove,
                TransfersEnd, NoWithdrawalMove, Keeps
  <2>2. Keeps(d, d2, LedgerTables)
    BY <2>1 DEF Counted, Keeps, AllBut, Fields, LedgerTables
  <2>3. d2.counters["num_blocks_synced"] = d.counters["num_blocks_synced"]
    BY <2>1 DEF Counted, CountsOne, CounterNames, Keeps, AllBut, Fields
  <2> QED
    BY <2>2, <2>3 DEF SameBlocks, Keeps, LedgerTables
<1> QED
  BY <1>1, <1>2, <1>3

AddsMint(d, d2) == d2.mint_txs = d.mint_txs \/ \E m : d2.mint_txs = d.mint_txs \cup {m}

\* The main thread records its block when its burns are stored, and otherwise
\* changes neither the balances nor how many blocks are synced.
LEMMA ScanMoveBlocks ==
  ASSUME NEW s, NEW s2, NEW d \in Databases, NEW d2, NEW c \in BlockContents,
         ScanMove(s, s2, d, d2, c)
  PROVE  /\ SameBlocks(d, d2) \/ (FinishesBlock(d, d2, s.block_index) /\ s.pc = "burns")
         /\ AddsMint(d, d2)
<1> USE DEF AddsMint
<1>1. CASE ConfigMove(s, s2, d, d2, c)
  BY <1>1 DEF ConfigMove, StoresConfig, Keeps, AllBut, Fields, SameBlocks
<1>2. CASE MintMove(s, s2, d, d2, c)
  <2>1. PICK tx : StoresMint(d, d2, s.block_index, tx)
    BY <1>2 DEF MintMove
  <2>2. PICK m : d2.mint_txs = d.mint_txs \cup {m}
    BY <2>1 DEF StoresMint
  <2>3. d2.block_balance = d.block_balance
    BY <2>1 DEF StoresMint, Keeps, AllBut, Fields
  <2>4. \/ d2.counters = d.counters
        \/ CountsOne(d, d2, "num_mint_txs_without_matching_mint_config")
    BY <2>1 DEF StoresMint
  <2> QED
    BY <2>2, <2>3, <2>4 DEF SameBlocks, CountsOne, CounterNames
<1>3. CASE BurnMove(s, s2, d, d2, c)
  <2>1. PICK o : StoresBurn(d, d2, s.block_index, o)
    BY <1>3 DEF BurnMove
  <2>2. d2.block_balance = d.block_balance /\ d2.mint_txs = d.mint_txs
    BY <2>1 DEF StoresBurn, Keeps, AllBut, Fields
  <2>3. d2.counters = d.counters \/ CountsOne(d, d2, "num_burns_exceeding_balance")
    BY <2>1 DEF StoresBurn
  <2> QED
    BY <2>2, <2>3 DEF SameBlocks, CountsOne, CounterNames
<1>4. CASE FinishMove(s, s2, d, d2, c)
  BY <1>4 DEF FinishMove, FinishesBlock, Keeps, AllBut, Fields
<1>5. CASE AuditMintMove(s, s2, d, d2, c) \/ AuditBurnMove(s, s2, d, d2, c)
  <2>1. c.mint_txs \in Seq(CoreMintTxs) /\ c.outputs \in Seq(TxOuts)
    BY DEF BlockContents
  <2>2. TriesMint(d, d2) \/ TriesBurn(d, d2)
    BY <1>5, <2>1, MintTries, BurnTries DEF AuditMintMove, AuditBurnMove
  <2> QED
    BY <2>2, TriesKeepLedger DEF Keeps, LedgerTables
<1>6. CASE d2 = d
  BY <1>6 DEF SameBlocks
<1> QED
  BY <1>1, <1>2, <1>3, <1>4, <1>5, <1>6
     DEF ScanMove, CheckMove, ConfigsDone, MintsDone, SkipMove, AuditMintsEnd, AuditBurnsEnd

\* The balance rows of d, of a ledger of len blocks.
Balanced(d, len) ==
  \E n \in Nat : /\ n = d.counters["num_blocks_synced"] /\ n <= len
                 /\ {r.block_index : r \in d.block_balance} = 0 .. n - 1
                 /\ IsFiniteSet(d.block_balance) /\ Cardinality(d.block_balance) = n
                 /\ IsFiniteSet(d.mint_txs)

\* Recording the next block adds its balance row; storing a mint keeps the mints
\* finite.
LEMMA BalancedMove ==
  ASSUME NEW d, NEW d2, NEW len \in Nat, Balanced(d, len), NEW i \in Nat, i < len,
         \/ SameBlocks(d, d2)
         \/ FinishesBlock(d, d2, i) /\ i = d.counters["num_blocks_synced"],
         AddsMint(d, d2)
  PROVE  Balanced(d2, len)
<1>1. PICK n \in Nat : /\ n = d.counters["num_blocks_synced"] /\ n <= len
                       /\ {r.block_index : r \in d.block_balance} = 0 .. n - 1
                       /\ IsFiniteSet(d.block_balance) /\ Cardinality(d.block_balance) = n
                       /\ IsFiniteSet(d.mint_txs)
  BY DEF Balanced
<1>2. IsFiniteSet(d2.mint_txs)
  <2>1. CASE d2.mint_txs = d.mint_txs
    BY <1>1, <2>1
  <2>2. CASE \E m : d2.mint_txs = d.mint_txs \cup {m}
    <3>1. PICK m : d2.mint_txs = d.mint_txs \cup {m}
      BY <2>2
    <3> QED
      BY <1>1, <3>1, FS_AddElement
  <2> QED
    BY <2>1, <2>2 DEF AddsMint
<1>3. CASE SameBlocks(d, d2)
  BY <1>1, <1>2, <1>3 DEF SameBlocks, Balanced
<1>4. CASE FinishesBlock(d, d2, i) /\ i = n
  <2>1. PICK r : r.block_index = n /\ d2.block_balance = d.block_balance \cup {r}
    <3>1. PICK bal : d2.block_balance = d.block_balance \cup {[block_index |-> n, balances |-> bal]}
      BY <1>4 DEF FinishesBlock
    <3>2. [block_index |-> n, balances |-> bal].block_index = n
      OBVIOUS
    <3> QED
      BY <3>1, <3>2
  <2>2. r \notin d.block_balance
    BY <1>1, <2>1
  <2>3. IsFiniteSet(d2.block_balance) /\ Cardinality(d2.block_balance) = n + 1
    <3>1. PICK S : S = d.block_balance
      OBVIOUS
    <3>2. /\ IsFiniteSet(S \cup {r})
          /\ Cardinality(S \cup {r}) = IF r \in S THEN Cardinality(S) ELSE Cardinality(S) + 1
      BY <1>1, <3>1, FS_AddElement
    <3> QED
      BY <1>1, <2>1, <2>2, <3>1, <3>2
  <2>4. {x.block_index : x \in d2.block_balance} = {x.block_index : x \in d.block_balance} \cup {n}
    BY <2>1
  <2>5. {x.block_index : x \in d2.block_balance} = 0 .. (n + 1) - 1
    <3>1. n \in Nat => 0 .. (n + 1) - 1 = (0 .. n - 1) \cup {n}
      BY ONLY TRUE
    <3>2. PICK A, B : A = {x.block_index : x \in d.block_balance}
                      /\ B = {x.block_index : x \in d2.block_balance}
      OBVIOUS
    <3>3. A = 0 .. n - 1 /\ B = A \cup {n}
      BY <1>1, <2>4, <3>2
    <3> QED
      BY <3>1, <3>2, <3>3
  <2>6. d2.counters["num_blocks_synced"] = n + 1
    BY <1>1, <1>4 DEF FinishesBlock, CountsOne, CounterNames
  <2> QED
    BY <1>2, <1>4, <2>3, <2>5, <2>6 DEF Balanced
<1> QED
  BY <1>1, <1>3, <1>4

----------------------------------------------------------------------------
(* What the first n blocks of a ledger l hold.                             *)

BurnOutputs(c) == {i \in DOMAIN c.outputs : c.outputs[i].burn}

ConfigsUpTo(l, n) ==
  UNION {ConfigPart(b - 1, l[b], DOMAIN l[b].mint_config_txs) : b \in 1 .. n}

MintsUpTo(l, n) == UNION {MintPart(b - 1, l[b], DOMAIN l[b].mint_txs) : b \in 1 .. n}

BurnsUpTo(l, n) == UNION {BurnPart(b - 1, l[b], BurnOutputs(l[b])) : b \in 1 .. n}

\* The rows of the ledger are those of its first blocks.
LEMMA LedgerUpTo ==
  ASSUME NEW n
  PROVE  /\ LedgerConfigFacts(n) = ConfigsUpTo(ledger, n)
         /\ LedgerMintFacts(n) = MintsUpTo(ledger, n)
         /\ LedgerBurns(n) = BurnsUpTo(ledger, n)
<1>1. LedgerMintFacts(n) = MintsUpTo(ledger, n)
  BY DEF LedgerMintFacts, MintsUpTo, MintPart, MintFact
<1>2. LedgerBurns(n) = BurnsUpTo(ledger, n)
  BY DEF LedgerBurns, BurnsUpTo, BurnPart, BurnOutputs
<1>3. LedgerConfigFacts(n) = ConfigsUpTo(ledger, n)
  <2>1. ASSUME NEW y \in LedgerConfigFacts(n)
        PROVE  y \in ConfigsUpTo(ledger, n)
    <3>1. PICK x \in LedgerMintConfigs(n) : y = <<x[1], x[2].token_id, x[2].nonce>>
      BY <2>1 DEF LedgerConfigFacts
    <3>2. PICK b \in 1 .. n : \E i \in DOMAIN ledger[b].mint_config_txs :
            x = <<b - 1, ledger[b].mint_config_txs[i]>>
      BY <3>1 DEF LedgerMintConfigs
    <3>3. PICK i \in DOMAIN ledger[b].mint_config_txs :
            x = <<b - 1, ledger[b].mint_config_txs[i]>>
      BY <3>2
    <3>4. y \in ConfigPart(b - 1, ledger[b], DOMAIN ledger[b].mint_config_txs)
      BY <3>1, <3>3 DEF ConfigPart
    <3> QED
      BY <3>4 DEF ConfigsUpTo
  <2>2. ASSUME NEW y \in ConfigsUpTo(ledger, n)
        PROVE  y \in LedgerConfigFacts(n)
    <3>1. PICK b \in 1 .. n : y \in ConfigPart(b - 1, ledger[b], DOMAIN ledger[b].mint_config_txs)
      BY <2>2 DEF ConfigsUpTo
    <3>2. PICK i \in DOMAIN ledger[b].mint_config_txs :
            y = <<b - 1, ledger[b].mint_config_txs[i].token_id, ledger[b].mint_config_txs[i].nonce>>
      BY <3>1 DEF ConfigPart
    <3>3. PICK x : x = <<b - 1, ledger[b].mint_config_txs[i]>>
      OBVIOUS
    <3>4. x \in LedgerMintConfigs(n)
      BY <3>3 DEF LedgerMintConfigs
    <3>5. y = <<x[1], x[2].token_id, x[2].nonce>>
      BY <3>2, <3>3
    <3> QED
      BY <3>4, <3>5 DEF LedgerConfigFacts
  <2> QED
    BY <2>1, <2>2
<1> QED
  BY <1>1, <1>2, <1>3

\* A longer ledger begins with the same rows.
LEMMA UpToStays ==
  ASSUME NEW l, NEW l2, NEW n, \A b \in 1 .. n : l2[b] = l[b]
  PROVE  /\ ConfigsUpTo(l2, n) = ConfigsUpTo(l, n)
         /\ MintsUpTo(l2, n) = MintsUpTo(l, n)
         /\ BurnsUpTo(l2, n) = BurnsUpTo(l, n)
<1>1. ConfigsUpTo(l2, n) = ConfigsUpTo(l, n)
  BY DEF ConfigsUpTo
<1>2. MintsUpTo(l2, n) = MintsUpTo(l, n)
  BY DEF MintsUpTo
<1>3. BurnsUpTo(l2, n) = BurnsUpTo(l, n)
  BY DEF BurnsUpTo
<1> QED
  BY <1>1, <1>2, <1>3

\* The next block adds its own.
LEMMA UpToNext ==
  ASSUME NEW l, NEW n \in Nat
  PROVE  /\ ConfigsUpTo(l, n + 1)
              = ConfigsUpTo(l, n) \cup ConfigPart(n, l[n + 1], DOMAIN l[n + 1].mint_config_txs)
         /\ MintsUpTo(l, n + 1)
              = MintsUpTo(l, n) \cup MintPart(n, l[n + 1], DOMAIN l[n + 1].mint_txs)
         /\ BurnsUpTo(l, n + 1)
              = BurnsUpTo(l, n) \cup BurnPart(n, l[n + 1], BurnOutputs(l[n + 1]))
<1> DEFINE c == l[n + 1]
<1>1. 1 .. n + 1 = (1 .. n) \cup {n + 1} /\ (n + 1) - 1 = n
  OBVIOUS
<1>2. ConfigsUpTo(l, n + 1) = ConfigsUpTo(l, n) \cup ConfigPart(n, c, DOMAIN c.mint_config_txs)
  BY <1>1 DEF ConfigsUpTo
<1>3. MintsUpTo(l, n + 1) = MintsUpTo(l, n) \cup MintPart(n, c, DOMAIN c.mint_txs)
  BY <1>1 DEF MintsUpTo
<1>4. BurnsUpTo(l, n + 1) = BurnsUpTo(l, n) \cup BurnPart(n, c, BurnOutputs(c))
  BY <1>1 DEF BurnsUpTo
<1> QED
  BY <1>2, <1>3, <1>4

\* An empty ledger has none.
LEMMA UpToNone ==
  ASSUME NEW l
  PROVE  ConfigsUpTo(l, 0) = {} /\ MintsUpTo(l, 0) = {} /\ BurnsUpTo(l, 0) = {}
<1>1. 1 .. 0 = {}
  OBVIOUS
<1> QED
  BY <1>1 DEF ConfigsUpTo, MintsUpTo, BurnsUpTo

----------------------------------------------------------------------------
(* The database mirrors the ledger.                                        *)

\* d holds what the blocks it has synced hold.
Mirrors(d, l) ==
  \E n : /\ n = d.counters["num_blocks_synced"]
         /\ WholeOf(d, ConfigsUpTo(l, n), MintsUpTo(l, n), BurnsUpTo(l, n))

\* The main thread in state s adds what it has stored of its block.
ScanMirrors(s, d, l) ==
  /\ IF s.pc = "check_index"
     THEN Mirrors(d, l)
     ELSE \E n : /\ n = s.block_index
                 /\ PartOf(s, d, l[n + 1], ConfigsUpTo(l, n), MintsUpTo(l, n), BurnsUpTo(l, n))
  /\ s.pc \in AfterFinish => d.counters["num_blocks_synced"] = s.block_index + 1

PrefixForm ==
  /\ Balanced(db, Len(ledger)) /\ Balanced(wdb, Len(ledger))
  /\ Mirrors(db, ledger)
  /\ \A p \in Procs : scan[p].pc \in ScanInTx => ScanMirrors(scan[p], wdb, ledger)
  /\ \A t \in Workers : work[t].pc \in WorkInTx => Mirrors(wdb, ledger)

\* This is PrefixInv.
LEMMA PrefixMeans ==
  db \in Databases /\ wdb \in Databases => (PrefixInv <=> PrefixForm)
<1> SUFFICES ASSUME db \in Databases, wdb \in Databases
             PROVE  PrefixInv <=> PrefixForm
  OBVIOUS
<1>1. \A d \in Databases : BalanceRows(d) <=> Balanced(d, Len(ledger))
  <2> TAKE d \in Databases
  <2>1. d.counters["num_blocks_synced"] \in Nat
    BY DEF Databases, CounterNames
  <2> QED
    BY <2>1 DEF BalanceRows, Balanced
<1>2. \A d : WholeImage(d) <=> Mirrors(d, ledger)
  <2> TAKE d
  <2>1. PICK n : n = d.counters["num_blocks_synced"]
    OBVIOUS
  <2>2. WholeImage(d) <=> WholeOf(d, LedgerConfigFacts(n), LedgerMintFacts(n), LedgerBurns(n))
    BY <2>1, ImageParts
  <2>3. Mirrors(d, ledger) <=> WholeOf(d, ConfigsUpTo(ledger, n), MintsUpTo(ledger, n),
                                       BurnsUpTo(ledger, n))
    BY <2>1 DEF Mirrors
  <2> QED
    BY <2>2, <2>3, LedgerUpTo
<1>3. ASSUME NEW p \in Procs
      PROVE  ScanMirrors(scan[p], wdb, ledger)
               <=> /\ IF scan[p].pc = "check_index" THEN WholeImage(wdb)
                                                   ELSE PartImage(scan[p], wdb, Contents(p))
                   /\ scan[p].pc \in AfterFinish =>
                        wdb.counters["num_blocks_synced"] = scan[p].block_index + 1
  <2>1. PICK n : n = scan[p].block_index
    OBVIOUS
  <2>2. PICK c : c = Contents(p)
    OBVIOUS
  <2>3. PartImage(scan[p], wdb, c)
          <=> PartOf(scan[p], wdb, c, LedgerConfigFacts(n), LedgerMintFacts(n), LedgerBurns(n))
    BY <2>1, ImageParts
  <2>4. PartImage(scan[p], wdb, c)
          <=> PartOf(scan[p], wdb, c, ConfigsUpTo(ledger, n), MintsUpTo(ledger, n),
                     BurnsUpTo(ledger, n))
    BY <2>3, LedgerUpTo
  <2>5. c = ledger[n + 1]
    BY <2>1, <2>2 DEF Contents
  <2> QED
    BY <1>2, <2>1, <2>2, <2>4, <2>5 DEF ScanMirrors
<1> QED
  BY <1>1, <1>2, <1>3 DEF PrefixInv, PrefixForm

\* The ledger only grows.
LEMMA LedgerStep ==
  ASSUME IInv, [Next]_vars
  PROVE  /\ Len(ledger) \in Nat /\ Len(ledger') \in Nat /\ Len(ledger) <= Len(ledger')
         /\ \A b \in 1 .. Len(ledger) : ledger'[b] = ledger[b]
<1>1. ledger \in Seq(Blocks)
  BY TypeFacts
<1>2. CASE ledger' = ledger
  BY <1>1, <1>2
<1>3. CASE GrowLedger
  BY <1>1, <1>3 DEF GrowLedger
<1>4. ASSUME NEW p \in Procs, ScanStep(p) \/ BeginBlock(p) \/ BlockLockTimeout(p)
      PROVE  ledger' = ledger
  BY <1>4 DEF ScanStep, BeginBlock, BlockLockTimeout, SyncLoop, CheckBlockIndex,
              StoreMintConfigTx, LoadBalances, StoreMintTx, MintTxsDone, SkipOutput,
              StoreBurnTxOut, FinishBlock, SyncBlockFails, AuditMint, AuditMintsDone, AuditBurn,
              AuditBurnsDone, CommitBlock
<1> QED
  BY <1>2, <1>3, <1>4 DEF Next, LedgerNext, vars, ledgerVars, Crash, Restart

\* A mirror of a ledger mirrors a longer one.
LEMMA MirrorsStay ==
  ASSUME NEW l, NEW l2, Len(l) \in Nat, Len(l2) \in Nat, Len(l) <= Len(l2),
         \A b \in 1 .. Len(l) : l2[b] = l[b], NEW d
  PROVE  /\ Balanced(d, Len(l)) => Balanced(d, Len(l2))
         /\ Balanced(d, Len(l)) /\ Mirrors(d, l) => Mirrors(d, l2)
         /\ \A s : /\ Balanced(d, Len(l)) /\ ScanMirrors(s, d, l)
                   /\ s.block_index \in Nat
                   /\ s.pc # "check_index" => s.block_index < Len(l)
                   => ScanMirrors(s, d, l2)
<1>1. Balanced(d, Len(l)) => Balanced(d, Len(l2))
  BY DEF Balanced
<1>2. ASSUME Balanced(d, Len(l)), Mirrors(d, l)
      PROVE  Mirrors(d, l2)
  <2>1. PICK n \in Nat : n = d.counters["num_blocks_synced"] /\ n <= Len(l)
    BY <1>2 DEF Balanced
  <2>2. \A b \in 1 .. n : l2[b] = l[b]
    BY <2>1
  <2>3. WholeOf(d, ConfigsUpTo(l, n), MintsUpTo(l, n), BurnsUpTo(l, n))
    BY <1>2, <2>1 DEF Mirrors
  <2> QED
    BY <2>1, <2>2, <2>3, UpToStays DEF Mirrors
<1>3. ASSUME NEW s, Balanced(d, Len(l)), ScanMirrors(s, d, l), s.block_index \in Nat,
             s.pc # "check_index" => s.block_index < Len(l)
      PROVE  ScanMirrors(s, d, l2)
  <2>1. CASE s.pc = "check_index"
    BY <1>2, <1>3, <2>1 DEF ScanMirrors
  <2>2. CASE s.pc # "check_index"
    <3>1. PICK n \in Nat : n = s.block_index
      BY <1>3
    <3>2. (\A b \in 1 .. n : l2[b] = l[b]) /\ l2[n + 1] = l[n + 1]
      BY <1>3, <2>2, <3>1
    <3>3. PartOf(s, d, l[n + 1], ConfigsUpTo(l, n), MintsUpTo(l, n), BurnsUpTo(l, n))
      BY <1>3, <2>2, <3>1 DEF ScanMirrors
    <3>4. PartOf(s, d, l2[n + 1], ConfigsUpTo(l2, n), MintsUpTo(l2, n), BurnsUpTo(l2, n))
      BY <3>2, <3>3, UpToStays
    <3> QED
      BY <1>3, <2>2, <3>1, <3>4 DEF ScanMirrors
  <2> QED
    BY <2>1, <2>2
<1> QED
  BY <1>1, <1>2, <1>3

\* A move of the main thread keeps its mirror.
LEMMA ScanMoveMirrors ==
  ASSUME NEW s, s.pos \in Nat \ {0}, s.block_index \in Nat, NEW s2,
         NEW d \in Databases, NEW d2, NEW l, l[s.block_index + 1] \in BlockContents,
         ScanMove(s, s2, d, d2, l[s.block_index + 1]), ScanMirrors(s, d, l),
         s.pc = "burns" => s.block_index = d.counters["num_blocks_synced"]
  PROVE  ScanMirrors(s2, d2, l) /\ s2.block_index = s.block_index
<1>1. PICK n \in Nat : n = s.block_index
  OBVIOUS
<1>2. PICK c \in BlockContents : c = l[n + 1] /\ ScanMove(s, s2, d, d2, c)
  BY <1>1
<1>3. s2.block_index = n /\ s2.pc # "check_index"
  BY <1>1, <1>2 DEF ScanMove, CheckMove, ConfigMove, ConfigsDone, MintMove, MintsDone, SkipMove, BurnMove,
              FinishMove, AuditMintMove, AuditMintsEnd, AuditBurnMove, AuditBurnsEnd, ScanGoes
<1>4. PICK lc, lm, lb : lc = ConfigsUpTo(l, n) /\ lm = MintsUpTo(l, n) /\ lb = BurnsUpTo(l, n)
  OBVIOUS
<1>5. PartOf(s, d, c, lc, lm, lb)
  <2>1. CASE s.pc = "check_index"
    <3>1. s.block_index = d.counters["num_blocks_synced"]
      BY <1>2, <2>1 DEF ScanMove, CheckMove, ConfigMove, ConfigsDone, MintMove, MintsDone, SkipMove,
                  BurnMove, FinishMove, AuditMintMove, AuditMintsEnd, AuditBurnMove, AuditBurnsEnd
    <3>2. WholeOf(d, lc, lm, lb)
      BY <1>1, <1>4, <2>1, <3>1 DEF ScanMirrors, Mirrors
    <3> QED
      BY <2>1, <3>2, PartStarts
  <2>2. CASE s.pc # "check_index"
    BY <1>1, <1>2, <1>4, <2>2 DEF ScanMirrors
  <2> QED
    BY <2>1, <2>2
<1>6. PartOf(s2, d2, c, lc, lm, lb)
  BY <1>2, <1>5, ScanMoveImage
<1>7. s2.pc \in AfterFinish => d2.counters["num_blocks_synced"] = n + 1
  <2>1. CASE FinishMove(s, s2, d, d2, c)
    <3>1. FinishesBlock(d, d2, n) /\ d.counters["num_blocks_synced"] = n
      BY <1>1, <2>1 DEF FinishMove
    <3> QED
      BY <3>1 DEF FinishesBlock, CountsOne, CounterNames
  <2>2. CASE ~FinishMove(s, s2, d, d2, c) /\ s2.pc \in AfterFinish
    <3>1. s.pc \in AfterFinish
      BY <1>2, <2>2 DEF ScanMove, CheckMove, ConfigMove, ConfigsDone, MintMove, MintsDone, SkipMove,
                  BurnMove, AuditMintMove, AuditMintsEnd, AuditBurnMove, AuditBurnsEnd, ScanGoes,
                  AfterFinish
    <3>2. SameBlocks(d, d2)
      BY <1>2, <3>1, ScanMoveBlocks DEF AfterFinish
    <3> QED
      BY <1>1, <3>1, <3>2 DEF ScanMirrors, SameBlocks
  <2> QED
    BY <2>1, <2>2
<1> QED
  BY <1>1, <1>2, <1>3, <1>4, <1>6, <1>7 DEF ScanMirrors

\* At its commit the main thread has stored the whole of its block.
LEMMA WholeAtCommit ==
  ASSUME NEW s, s.pc = "commit", s.block_index \in Nat, NEW d, NEW l, ScanMirrors(s, d, l)
  PROVE  Mirrors(d, l)
<1>1. PICK n \in Nat : n = s.block_index
  OBVIOUS
<1>2. PICK c : c = l[n + 1]
  OBVIOUS
<1>3. PartOf(s, d, c, ConfigsUpTo(l, n), MintsUpTo(l, n), BurnsUpTo(l, n))
  BY <1>1, <1>2 DEF ScanMirrors
<1>4. /\ StoredConfigs(s, c) = DOMAIN c.mint_config_txs
      /\ StoredMints(s, c) = DOMAIN c.mint_txs
      /\ StoredBurns(s, c) = BurnOutputs(c)
  BY DEF StoredConfigs, StoredMints, StoredBurns, BurnOutputs, AfterConfigs, AfterMints, AfterFinish
<1>5. WholeOf(d, ConfigsUpTo(l, n + 1), MintsUpTo(l, n + 1), BurnsUpTo(l, n + 1))
  <2>1. /\ ConfigsUpTo(l, n + 1)
             = ConfigsUpTo(l, n) \cup ConfigPart(n, l[n + 1], DOMAIN l[n + 1].mint_config_txs)
        /\ MintsUpTo(l, n + 1)
             = MintsUpTo(l, n) \cup MintPart(n, l[n + 1], DOMAIN l[n + 1].mint_txs)
        /\ BurnsUpTo(l, n + 1)
             = BurnsUpTo(l, n) \cup BurnPart(n, l[n + 1], BurnOutputs(l[n + 1]))
    BY UpToNext
  <2> QED
    BY ONLY <1>1, <1>2, <1>3, <1>4, <2>1 DEF PartOf, WholeOf
<1>6. d.counters["num_blocks_synced"] = n + 1
  BY <1>1 DEF ScanMirrors, AfterFinish
<1> QED
  BY <1>5, <1>6 DEF Mirrors

\* A mirror depends on the tables of the ledger only.
LEMMA MirrorsFrame ==
  ASSUME NEW d, NEW d2, Keeps(d, d2, LedgerTables), SameBlocks(d, d2), NEW l
  PROVE  /\ Mirrors(d, l) => Mirrors(d2, l)
         /\ Balanced(d, Len(l)) => Balanced(d2, Len(l))
<1>1. /\ d2.mint_config_txs = d.mint_config_txs /\ d2.mint_txs = d.mint_txs
      /\ d2.burn_tx_outs = d.burn_tx_outs
  BY DEF Keeps, LedgerTables
<1>2. ConfigFacts(d2) = ConfigFacts(d) /\ MintFacts(d2) = MintFacts(d)
  BY <1>1, FactsGrow
<1>3. Mirrors(d, l) => Mirrors(d2, l)
  BY <1>1, <1>2 DEF Mirrors, WholeOf, SameBlocks
<1>4. Balanced(d, Len(l)) => Balanced(d2, Len(l))
  BY <1>1 DEF Balanced, SameBlocks
<1> QED
  BY <1>3, <1>4

\* A step of the auditor, seen against the ledger before it.
LEMMA StepMirrors ==
  ASSUME IInv, IInv', [Next]_vars, PrefixForm
  PROVE  /\ Balanced(db', Len(ledger)) /\ Balanced(wdb', Len(ledger))
         /\ Mirrors(db', ledger)
         /\ \A p \in Procs : scan'[p].pc \in ScanInTx =>
              /\ ScanMirrors(scan'[p], wdb', ledger)
              /\ scan'[p].pc # "check_index" => scan'[p].block_index < Len(ledger)
         /\ \A t \in Workers : work'[t].pc \in WorkInTx => Mirrors(wdb', ledger)
<1>1. db \in Databases /\ wdb \in Databases /\ Len(ledger) \in Nat
  BY TypeFacts
<1>2. /\ Balanced(db, Len(ledger)) /\ Balanced(wdb, Len(ledger)) /\ Mirrors(db, ledger)
      /\ \A p \in Procs : scan[p].pc \in ScanInTx => ScanMirrors(scan[p], wdb, ledger)
      /\ \A t \in Workers : work[t].pc \in WorkInTx => Mirrors(wdb, ledger)
  BY DEF PrefixForm
<1>3. \A p \in Procs : /\ scan[p].block_index \in Nat /\ scan[p].pos \in Nat \ {0}
                       /\ scan[p].pc \in ScanInTx => scan[p].block_index < Len(ledger)
  BY TypeFacts DEF IInv, ScanInv, ScanInTx, ScanStates
<1>4. CASE Idles
  BY <1>2, <1>3, <1>4 DEF Idles
<1>5. CASE Begins
  BY <1>2, <1>5 DEF Begins, ScanMirrors, AfterFinish
<1>6. CASE Commits
  <2>1. Mirrors(wdb, ledger)
    <3>1. ASSUME NEW p \in Procs, scan[p].pc = "commit"
          PROVE  Mirrors(wdb, ledger)
      <4>1. ScanMirrors(scan[p], wdb, ledger)
        BY <1>2, <3>1 DEF ScanInTx
      <4> QED
        BY <1>3, <3>1, <4>1, WholeAtCommit
    <3>2. ASSUME NEW t \in Workers, work[t].pc = "commit"
          PROVE  Mirrors(wdb, ledger)
      BY <1>2, <3>2 DEF WorkInTx
    <3> QED
      BY <1>6, <3>1, <3>2 DEF Commits
  <2> QED
    BY <1>2, <1>6, <2>1 DEF Commits
<1>7. CASE \E p \in Procs : ScanProceeds(p)
  <2>1. PICK p \in Procs : ScanProceeds(p)
    BY <1>7
  <2>2. PICK s, s2, w, w2, l : s = scan[p] /\ s2 = scan'[p] /\ w = wdb /\ w2 = wdb' /\ l = ledger
    OBVIOUS
  <2>3. PICK c \in BlockContents : c = Contents(p)
    BY <2>1, ContentsType DEF ScanProceeds, ScanInTx
  <2>4. c = l[s.block_index + 1]
    BY <2>2, <2>3 DEF Contents
  <2>5. w \in Databases /\ ScanMove(s, s2, w, w2, c) /\ ScanMirrors(s, w, l)
    BY <1>1, <1>2, <2>1, <2>2, <2>3 DEF ScanProceeds
  <2>6. s.pc = "burns" => s.block_index = w.counters["num_blocks_synced"]
    BY <2>2 DEF IInv, ScanInv
  <2>7. s.block_index \in Nat /\ s.pos \in Nat \ {0} /\ s.block_index < Len(l)
    BY <1>3, <2>1, <2>2 DEF ScanProceeds
  <2>8. ScanMirrors(s2, w2, l) /\ s2.block_index = s.block_index
    BY <2>4, <2>5, <2>6, <2>7, ScanMoveMirrors
  <2>9. SameBlocks(w, w2) \/ (FinishesBlock(w, w2, s.block_index) /\ s.pc = "burns")
    BY <2>5, ScanMoveBlocks
  <2>10. AddsMint(w, w2)
    BY <2>5, ScanMoveBlocks
  <2>11. Balanced(w2, Len(l))
    BY <1>1, <1>2, <2>2, <2>6, <2>7, <2>9, <2>10, BalancedMove
  <2> QED
    BY <1>2, <2>1, <2>2, <2>7, <2>8, <2>11 DEF ScanProceeds
<1>8. CASE \E t \in Workers : WorkProceeds(t)
  <2>1. PICK t \in Workers : WorkProceeds(t)
    BY <1>8
  <2>2. PICK k \in DOMAIN Config : audited_safe(t) = Config[k]
    BY SafeOfThread
  <2>3. WorkMove(work[t], work'[t], wdb, wdb', Tx(t), Config[k]) /\ Mirrors(wdb, ledger)
    BY <1>2, <2>1, <2>2 DEF WorkProceeds
  <2>4. Keeps(wdb, wdb', LedgerTables) /\ SameBlocks(wdb, wdb')
    BY <1>1, <2>3, WorkMoveKeepsLedger
  <2>5. Mirrors(wdb', ledger) /\ Balanced(wdb', Len(ledger))
    BY <1>2, <2>3, <2>4, MirrorsFrame
  <2> QED
    BY <1>2, <2>1, <2>5 DEF WorkProceeds
<1> QED
  BY <1>4, <1>5, <1>6, <1>7, <1>8, StepCases

\* The database stays the image of a prefix of the ledger.
LEMMA NextPrefixInv ==
  ASSUME IInv, IInv', [Next]_vars, PrefixInv
  PROVE  PrefixInv'
<1>1. PrefixForm
  BY TypeFacts, PrefixMeans
<1>2. /\ Balanced(db', Len(ledger)) /\ Balanced(wdb', Len(ledger))
      /\ Mirrors(db', ledger)
      /\ \A p \in Procs : scan'[p].pc \in ScanInTx =>
           /\ ScanMirrors(scan'[p], wdb', ledger)
           /\ scan'[p].pc # "check_index" => scan'[p].block_index < Len(ledger)
      /\ \A t \in Workers : work'[t].pc \in WorkInTx => Mirrors(wdb', ledger)
  BY <1>1, StepMirrors
<1>3. PICK l, l2 : l = ledger /\ l2 = ledger'
  OBVIOUS
<1>4. /\ Len(l) \in Nat /\ Len(l2) \in Nat /\ Len(l) <= Len(l2)
      /\ \A b \in 1 .. Len(l) : l2[b] = l[b]
  BY <1>3, LedgerStep
<1>5. \A p \in Procs : scan'[p].block_index \in Nat
  BY DEF IInv, TypeOK, LedgerTypeOK, ScanStates
<1>6. Balanced(db', Len(l2)) /\ Balanced(wdb', Len(l2)) /\ Mirrors(db', l2)
  BY <1>2, <1>3, <1>4, MirrorsStay
<1>7. \A p \in Procs : scan'[p].pc \in ScanInTx => ScanMirrors(scan'[p], wdb', l2)
  <2> TAKE p \in Procs
  <2>1. PICK s, d : s = scan'[p] /\ d = wdb'
    OBVIOUS
  <2>2. s.pc \in ScanInTx => /\ Balanced(d, Len(l)) /\ ScanMirrors(s, d, l) /\ s.block_index \in Nat
                             /\ s.pc # "check_index" => s.block_index < Len(l)
    BY <1>2, <1>3, <1>5, <2>1
  <2>3. s.pc \in ScanInTx => ScanMirrors(s, d, l2)
    BY ONLY <1>4, <2>2, MirrorsStay
  <2> QED
    BY <2>1, <2>3
<1>8. \A t \in Workers : work'[t].pc \in WorkInTx => Mirrors(wdb', l2)
  BY <1>2, <1>3, <1>4, MirrorsStay
<1>9. PrefixForm'
  BY <1>3, <1>6, <1>7, <1>8 DEF PrefixForm
<1>10. db' \in Databases /\ wdb' \in Databases
  BY DEF IInv, TypeOK, LedgerTypeOK, StoreTypeOK
<1>11. (db \in Databases /\ wdb \in Databases)' => (PrefixInv' <=> PrefixForm')
  BY PrefixMeans, PTL
<1> QED
  BY <1>9, <1>10, <1>11

\* In every reachable state the database mirrors a prefix of the ledger.
LEMMA PrefixInvariance == Spec => []PrefixInv
<1>1. Init => PrefixInv
  <2> SUFFICES ASSUME Init PROVE PrefixInv
    OBVIOUS
  <2>1. db = EmptyDb /\ wdb = EmptyDb /\ ledger = << >>
    BY DEF Init, StoreInit, LedgerInit
  <2>2. /\ \A p \in Procs : scan[p].pc \notin ScanInTx
        /\ \A t \in Workers : work[t].pc \notin WorkInTx
    BY DEF Init, LedgerInit, GnosisInit, ScanAt, WorkAt, ScanInTx, WorkInTx
  <2>3. EmptyDb \in Databases
    BY <2>1, InitInv, TypeFacts
  <2>4. EmptyDb.counters["num_blocks_synced"] = 0
    BY DEF EmptyDb, CounterNames
  <2>5. Balanced(EmptyDb, 0)
    <3>1. /\ EmptyDb.block_balance = {} /\ EmptyDb.mint_txs = {}
          /\ {r.block_index : r \in EmptyDb.block_balance} = 0 .. 0 - 1
      BY DEF EmptyDb
    <3>2. IsFiniteSet({}) /\ Cardinality({}) = 0
      BY FS_EmptySet
    <3> QED
      BY <2>4, <3>1, <3>2 DEF Balanced
  <2>6. Mirrors(EmptyDb, << >>)
    <3>1. ConfigFacts(EmptyDb) = {} /\ MintFacts(EmptyDb) = {} /\ EmptyDb.burn_tx_outs = {}
      BY DEF EmptyDb, ConfigFacts, MintFacts
    <3> QED
      BY <2>4, <3>1, UpToNone DEF Mirrors, WholeOf
  <2>7. PrefixForm
    BY <2>1, <2>2, <2>5, <2>6 DEF PrefixForm
  <2> QED
    BY <2>1, <2>3, <2>7, PrefixMeans
<1>2. IInv /\ IInv' /\ [Next]_vars /\ PrefixInv => PrefixInv'
  BY NextPrefixInv
<1> QED
  BY <1>1, <1>2, Invariance, PTL DEF Spec

\* As many facts as mints: no nonce is stored twice.
LEMMA OneRowPerMint ==
  ASSUME NEW d, UniqueRows(d), IsFiniteSet(d.mint_txs)
  PROVE  Cardinality(d.mint_txs) = Cardinality(MintFacts(d))
<1>1. PICK S : S = d.mint_txs
  OBVIOUS
<1>2. PICK T : T = MintFacts(d)
  OBVIOUS
<1>3. PICK f : f = [m \in S |-> [block_index |-> m.block_index, token_id |-> m.token_id,
                                 amount |-> m.amount, nonce |-> m.nonce]]
  OBVIOUS
<1>4. f \in [S -> T]
  BY <1>1, <1>2, <1>3 DEF MintFacts
<1>5. \A t \in T : \E m \in S : f[m] = t
  BY <1>1, <1>2, <1>3 DEF MintFacts
<1>6. \A a, b \in S : f[a] = f[b] => a = b
  <2>1. \A m \in S : f[m].nonce = m.nonce
    BY <1>3
  <2>2. \A a, b \in S : a.nonce = b.nonce => a = b
    BY <1>1 DEF UniqueRows
  <2> QED
    BY <2>1, <2>2
<1>7. f \in Surjection(S, T)
  BY <1>4, <1>5, Fun_IsSurj
<1>8. f \in Injection(S, T)
  BY <1>4, <1>6, Fun_IsInj
<1>9. Cardinality(T) = Cardinality(S)
  BY <1>1, <1>7, <1>8, FS_Surjection
<1> QED
  BY <1>1, <1>2, <1>9

\* The committed database is always the image of a prefix of the ledger: the
\* counter, block_audit_data and block_balance say the same number of blocks,
\* and the mint configs, mints and burns are exactly those of these blocks,
\* whatever crashed, timed out or raced (sync_block_with_conn inside
\* exclusive_transaction).
THEOREM DbMirrorsLedger == Spec => []DbIsLedgerPrefix
<1>1. IInv /\ UniqueRows(db) /\ PrefixInv => DbIsLedgerPrefix
  <2> SUFFICES ASSUME IInv, UniqueRows(db), PrefixInv PROVE DbIsLedgerPrefix
    OBVIOUS
  <2>1. PICK n : n = db.counters["num_blocks_synced"]
    OBVIOUS
  <2>2. /\ n <= Len(ledger)
        /\ {r.block_index : r \in db.block_balance} = 0 .. n - 1
        /\ Cardinality(db.block_balance) = n /\ IsFiniteSet(db.mint_txs)
    BY <2>1 DEF PrefixInv, BalanceRows
  <2>3. WholeOf(db, LedgerConfigFacts(n), LedgerMintFacts(n), LedgerBurns(n))
    BY <2>1, ImageParts DEF PrefixInv
  <2>4. Cardinality(db.mint_txs) = Cardinality(MintFacts(db))
    BY <2>2, OneRowPerMint
  <2>5. db.block_audit_data = 0 .. n - 1
    BY <2>1 DEF IInv, DbInv
  <2>6. {<<c.block_index, c.token_id, c.nonce>> : c \in db.mint_config_txs}
          = {<<x[1], x[2].token_id, x[2].nonce>> : x \in LedgerMintConfigs(n)}
    BY <2>3 DEF WholeOf, ConfigFacts, LedgerConfigFacts
  <2> QED
    BY <2>1, <2>2, <2>3, <2>4, <2>5, <2>6 DEF DbIsLedgerPrefix, WholeOf
<1> QED
  BY <1>1, Invariance, RowsStayUnique, PrefixInvariance, PTL

----------------------------------------------------------------------------
(* The refinement of the abstract audit log.  A commit is one unit, what   *)
(* is in the log is sound and one to one (InvariantProofs), what belongs   *)
(* in it is there (MatchProofs), and a new pair of the burn log has a new  *)
(* row (NewPairsAreNew): that is what a step of AuditLog asks for, of the  *)
(* rows the log's ids stand for.                                           *)

\* The log of a database d with rows for ids.

MintPairs(d) ==
  [i \in DOMAIN d.audited_mints |->
     <<CHOOSE m \in d.mint_txs : m.nonce = d.audited_mints[i].mint,
       CHOOSE e \in d.deposits : e.eth_tx_hash = d.audited_mints[i].deposit>>]

BurnPairs(d) ==
  [i \in DOMAIN d.audited_burns |->
     <<CHOOSE b \in d.burn_tx_outs : b.public_key = d.audited_burns[i].burn,
       CHOOSE w \in d.withdrawals : w.eth_tx_hash = d.audited_burns[i].withdrawal>>]

EntriesOf(log) == {log[i] : i \in DOMAIN log}

Appended(older, log) == Len(older) <= Len(log) /\ \A i \in DOMAIN older : log[i] = older[i]

RecordsMints(d, d2) ==
  /\ Appended(MintPairs(d), MintPairs(d2))
  /\ EntriesOf(MintPairs(d2)) = {x \in d2.mint_txs \X d2.deposits : Backs(x[2], x[1])}
  /\ \A i, j \in DOMAIN MintPairs(d2) :
       (MintPairs(d2)[i][1] = MintPairs(d2)[j][1] \/ MintPairs(d2)[i][2] = MintPairs(d2)[j][2])
       => i = j

RecordsBurns(d, d2) ==
  /\ Appended(BurnPairs(d), BurnPairs(d2))
  /\ \A x \in EntriesOf(BurnPairs(d2)) \ EntriesOf(BurnPairs(d)) :
       /\ x \in d2.burn_tx_outs \X d2.withdrawals /\ Redeems(x[2], x[1])
       /\ x[1] \notin d.burn_tx_outs \/ x[2] \notin d.withdrawals
  /\ \A b \in d2.burn_tx_outs, w \in d2.withdrawals :
       (Redeems(w, b) /\ \A v \in d2.withdrawals : v.public_key = b.public_key => v = w)
       => <<b, w>> \in EntriesOf(BurnPairs(d2))
  /\ \A i, j \in DOMAIN BurnPairs(d2) :
       (BurnPairs(d2)[i][1] = BurnPairs(d2)[j][1] \/ BurnPairs(d2)[i][2] = BurnPairs(d2)[j][2])
       => i = j

\* These are the actions of AuditLog under the refinement mapping.
LEMMA RecordsMeans ==
  /\ Log!RecordMints <=> RecordsMints(db, db')
  /\ Log!RecordBurns <=> RecordsBurns(db, db')
<1>1. Log!RecordMints <=> RecordsMints(db, db')
  BY DEF Log!RecordMints, RecordsMints, MintPairs, EntriesOf, Appended, Log!Entries, Log!IsAppended,
         WithNonce, DepositOf
<1>2. Log!RecordBurns <=> RecordsBurns(db, db')
  BY DEF Log!RecordBurns, RecordsBurns, BurnPairs, EntriesOf, Appended, Log!Entries,
         Log!IsAppended, WithKey, WithdrawalOf
<1> QED
  BY <1>1, <1>2

\* What is known of a committed database.
Recorded(d) ==
  /\ d \in Databases /\ UniqueRows(d)
  /\ SoundMintLog(d) /\ OneToOneMints(d)
  /\ SoundBurnLog(d) /\ OneToOneBurns(d)
  /\ \A m \in d.mint_txs, e \in d.deposits :
       Backs(e, m) => \E i \in DOMAIN d.audited_mints :
         d.audited_mints[i] = [mint |-> m.nonce, deposit |-> e.eth_tx_hash]
  /\ \A b \in d.burn_tx_outs, w \in d.withdrawals :
       (Redeems(w, b) /\ \A v \in d.withdrawals : v.public_key = w.public_key => v = w)
       => \E i \in DOMAIN d.audited_burns :
            d.audited_burns[i] = [burn |-> b.public_key, withdrawal |-> w.eth_tx_hash]

\* An id stands for the one row that carries it.
LEMMA MintPairOf ==
  ASSUME NEW d, UniqueRows(d), NEW i \in DOMAIN d.audited_mints,
         NEW m \in d.mint_txs, NEW e \in d.deposits,
         d.audited_mints[i] = [mint |-> m.nonce, deposit |-> e.eth_tx_hash]
  PROVE  MintPairs(d)[i] = <<m, e>>
<1>1. d.audited_mints[i].mint = m.nonce /\ d.audited_mints[i].deposit = e.eth_tx_hash
  OBVIOUS
<1>2. (CHOOSE x \in d.mint_txs : x.nonce = d.audited_mints[i].mint) = m
  BY <1>1 DEF UniqueRows
<1>3. (CHOOSE x \in d.deposits : x.eth_tx_hash = d.audited_mints[i].deposit) = e
  BY <1>1 DEF UniqueRows
<1> QED
  BY <1>2, <1>3 DEF MintPairs

\* The same for the burn log.
LEMMA BurnPairOf ==
  ASSUME NEW d, UniqueRows(d), NEW i \in DOMAIN d.audited_burns,
         NEW b \in d.burn_tx_outs, NEW w \in d.withdrawals,
         d.audited_burns[i] = [burn |-> b.public_key, withdrawal |-> w.eth_tx_hash]
  PROVE  BurnPairs(d)[i] = <<b, w>>
<1>1. d.audited_burns[i].burn = b.public_key /\ d.audited_burns[i].withdrawal = w.eth_tx_hash
  OBVIOUS
<1>2. (CHOOSE x \in d.burn_tx_outs : x.public_key = d.audited_burns[i].burn) = b
  BY <1>1 DEF UniqueRows
<1>3. (CHOOSE x \in d.withdrawals : x.eth_tx_hash = d.audited_burns[i].withdrawal) = w
  BY <1>1 DEF UniqueRows
<1> QED
  BY <1>2, <1>3 DEF BurnPairs

\* Rows for ids leave the length alone.
LEMMA PairsShape ==
  ASSUME NEW d \in Databases
  PROVE  /\ DOMAIN MintPairs(d) = DOMAIN d.audited_mints
         /\ Len(MintPairs(d)) = Len(d.audited_mints)
         /\ DOMAIN BurnPairs(d) = DOMAIN d.audited_burns
         /\ Len(BurnPairs(d)) = Len(d.audited_burns)
<1>1. d.audited_mints \in Seq(AuditedMintRows) /\ d.audited_burns \in Seq(AuditedBurnRows)
  BY DEF Databases
<1>2. DOMAIN MintPairs(d) = DOMAIN d.audited_mints /\ DOMAIN BurnPairs(d) = DOMAIN d.audited_burns
  BY DEF MintPairs, BurnPairs
<1>3. \A s, n : n \in Nat /\ DOMAIN s = 1 .. n => Len(s) = n
  OBVIOUS
<1> QED
  BY <1>1, <1>2, <1>3

----------------------------------------------------------------------------
(* A commit records what it should.                                        *)

\* Every entry of the mint log is a pair that belongs together.
LEMMA MintEntry ==
  ASSUME NEW d, Recorded(d), NEW i \in DOMAIN d.audited_mints
  PROVE  \E m \in d.mint_txs, e \in d.deposits :
           /\ d.audited_mints[i] = [mint |-> m.nonce, deposit |-> e.eth_tx_hash]
           /\ Backs(e, m) /\ MintPairs(d)[i] = <<m, e>>
<1>1. PICK m \in d.mint_txs, e \in d.deposits :
        /\ d.audited_mints[i] = [mint |-> m.nonce, deposit |-> e.eth_tx_hash]
        /\ Backs(e, m)
  BY DEF Recorded, SoundMintLog
<1>2. MintPairs(d)[i] = <<m, e>>
  BY <1>1, MintPairOf DEF Recorded
<1> QED
  BY <1>1, <1>2

\* The same for the burn log.
LEMMA BurnEntry ==
  ASSUME NEW d, Recorded(d), NEW i \in DOMAIN d.audited_burns
  PROVE  \E b \in d.burn_tx_outs, w \in d.withdrawals :
           /\ d.audited_burns[i] = [burn |-> b.public_key, withdrawal |-> w.eth_tx_hash]
           /\ Redeems(w, b) /\ BurnPairs(d)[i] = <<b, w>>
<1>1. PICK b \in d.burn_tx_outs, w \in d.withdrawals :
        /\ d.audited_burns[i] = [burn |-> b.public_key, withdrawal |-> w.eth_tx_hash]
        /\ Redeems(w, b)
  BY DEF Recorded, SoundBurnLog
<1>2. BurnPairs(d)[i] = <<b, w>>
  BY <1>1, BurnPairOf DEF Recorded
<1> QED
  BY <1>1, <1>2

\* The mint log after a commit: longer, exact and one to one.
LEMMA MintsRecorded ==
  ASSUME NEW d, NEW d2, Recorded(d), Recorded(d2),
         d.mint_txs \subseteq d2.mint_txs, d.deposits \subseteq d2.deposits,
         Extends(d2.audited_mints, d.audited_mints)
  PROVE  RecordsMints(d, d2)
<1>1. d \in Databases /\ d2 \in Databases
  BY DEF Recorded
<1>2. d.audited_mints \in Seq(AuditedMintRows) /\ d2.audited_mints \in Seq(AuditedMintRows)
  BY <1>1 DEF Databases
<1>3. /\ DOMAIN MintPairs(d) = DOMAIN d.audited_mints
      /\ Len(MintPairs(d)) = Len(d.audited_mints)
      /\ DOMAIN MintPairs(d2) = DOMAIN d2.audited_mints
      /\ Len(MintPairs(d2)) = Len(d2.audited_mints)
  BY <1>1, PairsShape
<1>4. /\ Len(d.audited_mints) <= Len(d2.audited_mints)
      /\ \A i \in DOMAIN d.audited_mints :
           i \in DOMAIN d2.audited_mints /\ d2.audited_mints[i] = d.audited_mints[i]
  <2>1. /\ Len(d.audited_mints) <= Len(d2.audited_mints)
        /\ \A i \in 1 .. Len(d.audited_mints) : d2.audited_mints[i] = d.audited_mints[i]
    BY <1>2, ExtendsEntries
  <2> QED
    BY <1>2, <2>1
<1>5. \A i \in DOMAIN d2.audited_mints : \E m \in d2.mint_txs, e \in d2.deposits :
        /\ d2.audited_mints[i] = [mint |-> m.nonce, deposit |-> e.eth_tx_hash]
        /\ Backs(e, m) /\ MintPairs(d2)[i] = <<m, e>>
  BY MintEntry
<1>6. Appended(MintPairs(d), MintPairs(d2))
  <2>1. ASSUME NEW i \in DOMAIN d.audited_mints
        PROVE  MintPairs(d2)[i] = MintPairs(d)[i]
    <3>1. PICK m \in d.mint_txs, e \in d.deposits :
            /\ d.audited_mints[i] = [mint |-> m.nonce, deposit |-> e.eth_tx_hash]
            /\ MintPairs(d)[i] = <<m, e>>
      BY MintEntry
    <3>2. /\ i \in DOMAIN d2.audited_mints /\ m \in d2.mint_txs /\ e \in d2.deposits
          /\ d2.audited_mints[i] = [mint |-> m.nonce, deposit |-> e.eth_tx_hash]
      BY <1>4, <3>1
    <3>3. MintPairs(d2)[i] = <<m, e>>
      BY <3>2, MintPairOf DEF Recorded
    <3> QED
      BY <3>1, <3>3
  <2> QED
    BY <1>3, <1>4, <2>1 DEF Appended
<1>7. EntriesOf(MintPairs(d2)) = {x \in d2.mint_txs \X d2.deposits : Backs(x[2], x[1])}
  <2>1. ASSUME NEW x \in EntriesOf(MintPairs(d2))
        PROVE  x \in d2.mint_txs \X d2.deposits /\ Backs(x[2], x[1])
    <3>1. PICK i \in DOMAIN d2.audited_mints : x = MintPairs(d2)[i]
      BY <1>3, <2>1 DEF EntriesOf
    <3>2. PICK m \in d2.mint_txs, e \in d2.deposits : Backs(e, m) /\ MintPairs(d2)[i] = <<m, e>>
      BY <1>5
    <3>3. x = <<m, e>> /\ x[1] = m /\ x[2] = e
      BY <3>1, <3>2
    <3> QED
      BY <3>2, <3>3
  <2>2. ASSUME NEW x \in d2.mint_txs \X d2.deposits, Backs(x[2], x[1])
        PROVE  x \in EntriesOf(MintPairs(d2))
    <3>1. PICK m \in d2.mint_txs, e \in d2.deposits : x = <<m, e>> /\ Backs(e, m)
      BY <2>2
    <3>2. PICK i \in DOMAIN d2.audited_mints :
            d2.audited_mints[i] = [mint |-> m.nonce, deposit |-> e.eth_tx_hash]
      BY <3>1 DEF Recorded
    <3>3. MintPairs(d2)[i] = <<m, e>>
      BY <3>2, MintPairOf DEF Recorded
    <3> QED
      BY <1>3, <3>1, <3>3 DEF EntriesOf
  <2> QED
    BY <2>1, <2>2
<1>8. ASSUME NEW i \in DOMAIN d2.audited_mints, NEW j \in DOMAIN d2.audited_mints,
             \/ MintPairs(d2)[i][1] = MintPairs(d2)[j][1]
             \/ MintPairs(d2)[i][2] = MintPairs(d2)[j][2]
      PROVE  i = j
  <2>1. PICK m \in d2.mint_txs, e \in d2.deposits :
          /\ d2.audited_mints[i] = [mint |-> m.nonce, deposit |-> e.eth_tx_hash]
          /\ MintPairs(d2)[i] = <<m, e>>
    BY <1>5
  <2>2. PICK n \in d2.mint_txs, f \in d2.deposits :
          /\ d2.audited_mints[j] = [mint |-> n.nonce, deposit |-> f.eth_tx_hash]
          /\ MintPairs(d2)[j] = <<n, f>>
    BY <1>5
  <2>3. \/ d2.audited_mints[i].mint = d2.audited_mints[j].mint
        \/ d2.audited_mints[i].deposit = d2.audited_mints[j].deposit
    <3>1. /\ MintPairs(d2)[i][1] = m /\ MintPairs(d2)[i][2] = e
          /\ MintPairs(d2)[j][1] = n /\ MintPairs(d2)[j][2] = f
      BY <2>1, <2>2
    <3>2. m = n \/ e = f
      BY <1>8, <3>1
    <3> QED
      BY <2>1, <2>2, <3>2
  <2> QED
    BY <2>3 DEF Recorded, OneToOneMints
<1> QED
  BY <1>3, <1>6, <1>7, <1>8 DEF RecordsMints

\* The burn log after a commit.
LEMMA BurnsRecorded ==
  ASSUME NEW d, NEW d2, Recorded(d), Recorded(d2),
         d.burn_tx_outs \subseteq d2.burn_tx_outs, d.withdrawals \subseteq d2.withdrawals,
         Extends(d2.audited_burns, d.audited_burns), NewPairsAreNew(d, d2)
  PROVE  RecordsBurns(d, d2)
<1>1. d \in Databases /\ d2 \in Databases
  BY DEF Recorded
<1>2. d.audited_burns \in Seq(AuditedBurnRows) /\ d2.audited_burns \in Seq(AuditedBurnRows)
  BY <1>1 DEF Databases
<1>3. /\ DOMAIN BurnPairs(d) = DOMAIN d.audited_burns
      /\ Len(BurnPairs(d)) = Len(d.audited_burns)
      /\ DOMAIN BurnPairs(d2) = DOMAIN d2.audited_burns
      /\ Len(BurnPairs(d2)) = Len(d2.audited_burns)
  BY <1>1, PairsShape
<1>4. /\ Len(d.audited_burns) <= Len(d2.audited_burns)
      /\ \A i \in DOMAIN d.audited_burns :
           i \in DOMAIN d2.audited_burns /\ d2.audited_burns[i] = d.audited_burns[i]
  <2>1. /\ Len(d.audited_burns) <= Len(d2.audited_burns)
        /\ \A i \in 1 .. Len(d.audited_burns) : d2.audited_burns[i] = d.audited_burns[i]
    BY <1>2, ExtendsEntries
  <2> QED
    BY <1>2, <2>1
<1>5. \A i \in DOMAIN d2.audited_burns : \E b \in d2.burn_tx_outs, w \in d2.withdrawals :
         /\ d2.audited_burns[i] = [burn |-> b.public_key, withdrawal |-> w.eth_tx_hash]
         /\ Redeems(w, b) /\ BurnPairs(d2)[i] = <<b, w>>
  BY BurnEntry
<1>6. ASSUME NEW i \in DOMAIN d.audited_burns
      PROVE  BurnPairs(d2)[i] = BurnPairs(d)[i]
  <2>1. PICK b \in d.burn_tx_outs, w \in d.withdrawals :
          /\ d.audited_burns[i] = [burn |-> b.public_key, withdrawal |-> w.eth_tx_hash]
          /\ BurnPairs(d)[i] = <<b, w>>
    BY BurnEntry
  <2>2. /\ i \in DOMAIN d2.audited_burns /\ b \in d2.burn_tx_outs /\ w \in d2.withdrawals
        /\ d2.audited_burns[i] = [burn |-> b.public_key, withdrawal |-> w.eth_tx_hash]
    BY <1>4, <2>1
  <2>3. BurnPairs(d2)[i] = <<b, w>>
    BY <2>2, BurnPairOf DEF Recorded
  <2> QED
    BY <2>1, <2>3
<1>7. Appended(BurnPairs(d), BurnPairs(d2))
  BY <1>3, <1>4, <1>6 DEF Appended
<1>8. ASSUME NEW x \in EntriesOf(BurnPairs(d2)), x \notin EntriesOf(BurnPairs(d))
      PROVE  /\ x \in d2.burn_tx_outs \X d2.withdrawals /\ Redeems(x[2], x[1])
             /\ x[1] \notin d.burn_tx_outs \/ x[2] \notin d.withdrawals
  <2>1. PICK i \in DOMAIN d2.audited_burns : x = BurnPairs(d2)[i]
    BY <1>3, <1>8 DEF EntriesOf
  <2>2. PICK b \in d2.burn_tx_outs, w \in d2.withdrawals :
          /\ d2.audited_burns[i] = [burn |-> b.public_key, withdrawal |-> w.eth_tx_hash]
          /\ Redeems(w, b) /\ x = <<b, w>>
    BY <1>5, <2>1
  <2>3. i \notin DOMAIN d.audited_burns
    BY <1>3, <1>6, <1>8, <2>1 DEF EntriesOf
  <2>4. i > Len(d.audited_burns)
    BY <1>2, <2>3
  <2>5. \/ \A r \in d.burn_tx_outs : r.public_key # d2.audited_burns[i].burn
        \/ \A v \in d.withdrawals : v.eth_tx_hash # d2.audited_burns[i].withdrawal
    BY <2>4 DEF NewPairsAreNew
  <2>6. b \notin d.burn_tx_outs \/ w \notin d.withdrawals
    BY <2>2, <2>5
  <2> QED
    BY <2>2, <2>6
<1>9. ASSUME NEW b \in d2.burn_tx_outs, NEW w \in d2.withdrawals, Redeems(w, b),
             \A v \in d2.withdrawals : v.public_key = b.public_key => v = w
      PROVE  <<b, w>> \in EntriesOf(BurnPairs(d2))
  <2>1. b.public_key = w.public_key
    BY <1>9 DEF Redeems
  <2>2. PICK i \in DOMAIN d2.audited_burns :
          d2.audited_burns[i] = [burn |-> b.public_key, withdrawal |-> w.eth_tx_hash]
    BY <1>9, <2>1 DEF Recorded
  <2>3. BurnPairs(d2)[i] = <<b, w>>
    BY <2>2, BurnPairOf DEF Recorded
  <2> QED
    BY <1>3, <2>3 DEF EntriesOf
<1>10. ASSUME NEW i \in DOMAIN d2.audited_burns, NEW j \in DOMAIN d2.audited_burns,
             \/ BurnPairs(d2)[i][1] = BurnPairs(d2)[j][1]
             \/ BurnPairs(d2)[i][2] = BurnPairs(d2)[j][2]
      PROVE  i = j
  <2>1. PICK b \in d2.burn_tx_outs, w \in d2.withdrawals :
          /\ d2.audited_burns[i] = [burn |-> b.public_key, withdrawal |-> w.eth_tx_hash]
          /\ BurnPairs(d2)[i] = <<b, w>>
    BY <1>5
  <2>2. PICK a \in d2.burn_tx_outs, v \in d2.withdrawals :
          /\ d2.audited_burns[j] = [burn |-> a.public_key, withdrawal |-> v.eth_tx_hash]
          /\ BurnPairs(d2)[j] = <<a, v>>
    BY <1>5
  <2>3. \/ d2.audited_burns[i].burn = d2.audited_burns[j].burn
        \/ d2.audited_burns[i].withdrawal = d2.audited_burns[j].withdrawal
    <3>1. /\ BurnPairs(d2)[i][1] = b /\ BurnPairs(d2)[i][2] = w
          /\ BurnPairs(d2)[j][1] = a /\ BurnPairs(d2)[j][2] = v
      BY <2>1, <2>2
    <3>2. b = a \/ w = v
      BY <1>10, <3>1
    <3> QED
      BY <2>1, <2>2, <3>2
  <2> QED
    BY <2>3 DEF Recorded, OneToOneBurns
<1> QED
  BY <1>3, <1>7, <1>8, <1>9, <1>10 DEF RecordsBurns

----------------------------------------------------------------------------
(* The refinement.                                                         *)

\* A commit of the main thread stores a block.
LEMMA CommitStoresBlock ==
  ASSUME UnitInv, Recorded(db), Recorded(wdb), db' = wdb,
         NEW p \in Procs, scan[p].pc = "commit"
  PROVE  Log!StoreBlock
<1>1. /\ BlockUnit(scan[p], db, wdb, Contents(p)) /\ GrowsFrom(db, wdb)
      /\ NewPairsAreNew(db, wdb)
  BY DEF UnitInv, ScanInTx
<1>2. /\ wdb.deposits = db.deposits /\ wdb.withdrawals = db.withdrawals
      /\ db.mint_txs \subseteq wdb.mint_txs /\ db.burn_tx_outs \subseteq wdb.burn_tx_outs
  BY <1>1 DEF BlockUnit, Keeps, SafeTables
<1>3. /\ Extends(wdb.audited_mints, db.audited_mints)
      /\ Extends(wdb.audited_burns, db.audited_burns)
  BY <1>1 DEF GrowsFrom
<1>4. RecordsMints(db, wdb)
  BY <1>2, <1>3, MintsRecorded
<1>5. RecordsBurns(db, wdb)
  BY <1>1, <1>2, <1>3, BurnsRecorded
<1>6. Log!RecordMints /\ Log!RecordBurns
  BY <1>4, <1>5, RecordsMeans
<1> QED
  BY <1>2, <1>6 DEF Log!StoreBlock

\* A commit of a safe thread stores an Ethereum transaction, or nothing.
LEMMA CommitStoresTx ==
  ASSUME UnitInv, Recorded(db), Recorded(wdb), db' = wdb,
         NEW t \in Workers, work[t].pc = "commit"
  PROVE  db' = db \/ Log!StoreEthereumTx
<1>1. /\ TxUnit(work[t], db, wdb, Tx(t), audited_safe(t)) /\ GrowsFrom(db, wdb)
      /\ NewPairsAreNew(db, wdb)
  BY DEF UnitInv, WorkInTx
<1> SUFFICES ASSUME wdb # db PROVE Log!StoreEthereumTx
  OBVIOUS
<1>2. PICK D, W : /\ D = StoredDeposits(work[t], Tx(t), audited_safe(t))
                  /\ W = StoredWithdrawals(work[t], Tx(t), audited_safe(t))
  OBVIOUS
<1>3. /\ Keeps(db, wdb, LedgerTables)
      /\ wdb.deposits = db.deposits \cup D /\ wdb.withdrawals = db.withdrawals \cup W
  BY <1>1, <1>2 DEF TxUnit
<1>4. D = {} \/ W = {}
  BY <1>2 DEF StoredDeposits, StoredWithdrawals
<1>5. /\ wdb.mint_txs = db.mint_txs /\ wdb.burn_tx_outs = db.burn_tx_outs
      /\ db.deposits \subseteq wdb.deposits /\ db.withdrawals \subseteq wdb.withdrawals
      /\ wdb.deposits = db.deposits \/ wdb.withdrawals = db.withdrawals
  BY <1>3, <1>4 DEF Keeps, LedgerTables
<1>6. /\ Extends(wdb.audited_mints, db.audited_mints)
      /\ Extends(wdb.audited_burns, db.audited_burns)
  BY <1>1 DEF GrowsFrom
<1>7. RecordsMints(db, wdb)
  BY <1>5, <1>6, MintsRecorded
<1>8. RecordsBurns(db, wdb)
  BY <1>1, <1>5, <1>6, BurnsRecorded
<1>9. Log!RecordMints /\ Log!RecordBurns
  BY <1>7, <1>8, RecordsMeans
<1> QED
  BY <1>5, <1>9 DEF Log!StoreEthereumTx

\* Every step of the auditor is a step of the log, or none.
LEMMA StepRefines ==
  ASSUME IInv, IInv', [Next]_vars, UnitInv, Recorded(db), Recorded(db')
  PROVE  [Log!StoreBlock \/ Log!StoreEthereumTx]_(Log!logVars)
<1>1. CASE db' = db
  BY <1>1 DEF Log!logVars, WithNonce, DepositOf, WithKey, WithdrawalOf
<1>2. CASE Commits
  <2>1. db' = wdb /\ Recorded(wdb)
    BY <1>2 DEF Commits
  <2>2. CASE \E p \in Procs : scan[p].pc = "commit"
    BY <2>1, <2>2, CommitStoresBlock
  <2>3. CASE \E t \in Workers : work[t].pc = "commit"
    BY <1>1, <2>1, <2>3, CommitStoresTx
  <2> QED
    BY <1>2, <2>2, <2>3 DEF Commits
<1> QED
  BY <1>1, <1>2, StepCases DEF Idles, Begins, ScanProceeds, WorkProceeds

\* The committed database is recorded in every reachable state.
LEMMA StaysRecorded ==
  ASSUME AuditsGnosis, UniqueSafes
  PROVE  Spec => []Recorded(db)
<1>1. /\ IInv /\ UniqueRows(db) /\ LogInv(db)
      /\ BackedMintsAreMatched /\ RedeemedBurnsAreMatched
      => Recorded(db)
  BY TypeFacts DEF Recorded, LogInv, MintLogInv, BurnLogInv, BackedMintsAreMatched,
                   RedeemedBurnsAreMatched
<1> QED
  BY <1>1, Invariance, RowsStayUnique, LogsInvariance, MintCompleteness, BurnCompleteness, PTL

\* An auditor that audits Gnosis, with every safe configured once, implements
\* the abstract audit log, for any number of processes, safes, tokens and
\* blocks: each commit (of sync_block_with_conn or process_transactions) adds
\* one block or one Ethereum transaction together with exactly the pairs it
\* completes, and everything else, rollbacks and crashes included, is invisible.
THEOREM AuditorImplementsLog ==
  ASSUME AuditsGnosis, UniqueSafes
  PROVE  Spec => ImplementsAuditLog
<1>1. Init => Log!LogInit
  BY DEF Init, StoreInit, EmptyDb, Log!LogInit
<1>2. /\ IInv /\ IInv' /\ [Next]_vars /\ UnitInv /\ Recorded(db) /\ Recorded(db)'
      => [Log!StoreBlock \/ Log!StoreEthereumTx]_(Log!logVars)
  BY StepRefines
<1>3. Spec => []Recorded(db)
  BY StaysRecorded
<1> QED
  BY <1>1, <1>2, <1>3, Invariance, UnitInvariance, PTL DEF Spec, ImplementsAuditLog, Log!LogSpec

=============================================================================
