-------------------------------- MODULE OpenDb --------------------------------
(***************************************************************************)
(* Opening the database (db/mod.rs: new_from_path; db/models/counters.rs:  *)
(* ensure_exists and the inc_ methods).  scan-ledger, start-http-server    *)
(* and get-block-audit-data all migrate the file and insert the counters   *)
(* row, so on a new file they race.  What a process reads before it writes *)
(* may be outdated when it writes: SQLite then refuses the write, or the   *)
(* schema does, the process panics ("Could not open reserve auditor DB")   *)
(* and is started again.                                                   *)
(***************************************************************************)
EXTENDS Naturals, Sequences, FiniteSets

CONSTANTS Procs,        \* processes that open the file
          Scanners,     \* those that count blocks once they are open
          MaxBlocks,    \* bound on the blocks counted
          MaxCrashes    \* bound on crashes

ASSUME OpenDbAssumption ==
  Scanners \subseteq Procs /\ MaxBlocks \in Nat /\ MaxCrashes \in Nat

VARIABLES file,      \* the committed file
          opener,    \* the processes
          writer,    \* who is in a write transaction
          blocks,    \* history: blocks counted by committed transactions
          crashes    \* crashes so far

openVars == <<file, opener, writer, blocks, crashes>>

\* commits numbers the states of the file, recorded says whether
\* __diesel_schema_migrations lists the migration, counters holds the rows of
\* the table (num_blocks_synced of each; the id is always 0).
NewFile == [commits |-> 0, tables |-> FALSE, recorded |-> FALSE, counters |-> << >>]

Closed == [pc |-> "closed", snapshot |-> 0]

OpenDbInit ==
  /\ file = NewFile
  /\ opener = [p \in Procs |-> Closed]
  /\ writer = {}
  /\ blocks = 0
  /\ crashes = 0

----------------------------------------------------------------------------
(* Helpers.                                                                *)

Become(p, pc) == opener' = [opener EXCEPT ![p].pc = pc]

\* expect("Could not open reserve auditor DB")
Panics(p) == opener' = [opener EXCEPT ![p] = Closed] /\ UNCHANGED file

Commits(f) == file' = [f EXCEPT !.commits = @ + 1]

----------------------------------------------------------------------------
(* new_from_path.                                                          *)

\* The migrations that have run are read outside the transaction that runs one.
FindMigrations(p) ==
  /\ opener[p].pc = "closed"
  /\ Become(p, IF file.recorded THEN "find_counters" ELSE "migrate")
  /\ UNCHANGED <<file, writer, blocks, crashes>>

\* Mutant: the tables are created before the transaction.
MigrateUnprotected(p) ==
  /\ opener[p].pc = "migrate"
  /\ writer = {}
  /\ IF file.tables
     THEN Panics(p) /\ UNCHANGED writer
     ELSE writer' = {p} /\ Become(p, "record") /\ Commits([file EXCEPT !.tables = TRUE])
  /\ UNCHANGED <<blocks, crashes>>

\* up.sql: the first CREATE TABLE takes the write lock, and fails if another
\* process has been faster.
Migrate(p) ==
  /\ opener[p].pc = "migrate"
  /\ writer = {}
  /\ IF file.tables
     THEN Panics(p) /\ UNCHANGED writer
     ELSE writer' = {p} /\ Become(p, "record") /\ UNCHANGED file
  /\ UNCHANGED <<blocks, crashes>>

RecordMigration(p) ==
  /\ opener[p].pc = "record"
  /\ Commits([file EXCEPT !.tables = TRUE, !.recorded = TRUE])
  /\ writer' = {}
  /\ Become(p, "find_counters")
  /\ UNCHANGED <<blocks, crashes>>

\* ensure_exists, the query: the transaction sees the file as it is now.
FindCounters(p) ==
  /\ opener[p].pc = "find_counters"
  /\ opener' = [opener EXCEPT ![p] =
       IF file.counters # << >> THEN [pc |-> "open", snapshot |-> 0]
       ELSE [pc |-> "insert_counters", snapshot |-> file.commits]]
  /\ UNCHANGED <<file, writer, blocks, crashes>>

\* Mutant: the row is written whatever has happened since the query.
ReplaceCounters(p) ==
  /\ opener[p].pc = "insert_counters"
  /\ writer = {}
  /\ Commits([file EXCEPT !.counters = <<0>>])
  /\ Become(p, "open")
  /\ UNCHANGED <<writer, blocks, crashes>>

\* ensure_exists, the insert: the transaction began as a reader, so SQLite
\* refuses the write (BUSY_SNAPSHOT) when somebody has committed since.
InsertCounters(p) ==
  /\ opener[p].pc = "insert_counters"
  /\ writer = {}
  /\ IF file.commits # opener[p].snapshot
     THEN Panics(p)
     ELSE /\ Commits([file EXCEPT !.counters = Append(@, 0)])
          /\ Become(p, "open")
  /\ UNCHANGED <<writer, blocks, crashes>>

----------------------------------------------------------------------------

\* A scanner syncs a block: inc_num_blocks_synced needs exactly one row.
inc_num_blocks_synced(p) ==
  /\ opener[p].pc = "open"
  /\ writer = {}
  /\ blocks < MaxBlocks
  /\ Len(file.counters) = 1
  /\ Commits([file EXCEPT !.counters[1] = @ + 1])
  /\ blocks' = blocks + 1
  /\ UNCHANGED <<opener, writer, crashes>>

\* The process ends, of itself or by a crash; it will be started again.
Exit(p) ==
  /\ crashes < MaxCrashes
  /\ crashes' = crashes + 1
  /\ opener' = [opener EXCEPT ![p] = Closed]
  /\ writer' = writer \ {p}
  /\ UNCHANGED <<file, blocks>>

OpenStep(p) ==
  \/ FindMigrations(p) \/ Migrate(p) \/ RecordMigration(p)
  \/ FindCounters(p) \/ InsertCounters(p)

OpenDbNext ==
  \/ \E p \in Procs : OpenStep(p) \/ Exit(p)
  \/ \E p \in Scanners : inc_num_blocks_synced(p)

\* Every process goes on opening the file, and gets the write lock in the end.
OpenDbSpec ==
  /\ OpenDbInit /\ [][OpenDbNext]_openVars
  /\ \A p \in Procs : SF_openVars(OpenStep(p))

----------------------------------------------------------------------------

\* As long as any process has the file open, the counters table has one row,
\* without which inc_* fails, and no start of another process has reset what
\* the row counts.
CountersSurviveStarts ==
  (\E p \in Procs : opener[p].pc = "open") => file.counters = <<blocks>>

\* No crash in the middle of opening, and no race, leaves a file that cannot be
\* opened any more: every process gets it open in the end.
EveryoneOpens == \A p \in Procs : (opener[p].pc = "closed") ~> (opener[p].pc = "open")

=============================================================================
