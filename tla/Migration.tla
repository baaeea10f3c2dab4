----------------------------- MODULE Migration -----------------------------
(***************************************************************************)
(* migrate_kb.py, beside a server that boots, serves and dies.             *)
(*                                                                         *)
(* The migrator drops the table and creates it again, each statement       *)
(* committed by itself, and then inserts both files in one transaction,    *)
(* which begins with its first INSERT.  SQLite has one writer at a time:   *)
(* lock says whose transaction is open.  Another writer waits for some     *)
(* seconds and then fails; a reader sees the committed rows.               *)
(*                                                                         *)
(* The index knowledge_fts and the vector store are left out: no query of  *)
(* the repository reads them.  The reference file is a parameter of the    *)
(* actions that read it: its state and its facts.                          *)
(***************************************************************************)
EXTENDS Naturals, FiniteSets

CONSTANTS
  RowKeys,      \* the keys of the table
  LearnedFile,  \* the keys of knowledgebaselearned.json
  Seeds         \* the keys of the default rows of init_db

ASSUME MigrationAssumption ==
  LearnedFile \subseteq RowKeys /\ Seeds \subseteq RowKeys /\ Seeds # {}

VARIABLES
  exists,   \* whether there is a table
  rows,     \* where the committed row of each key comes from
  lock,     \* whose transaction is open: "none", "migrator" or "boot"
  work,     \* the rows as that transaction sees them
  mig,      \* where the migrator is
  entries,  \* the keys of the file it is inserting that are left
  phase,    \* where the server is
  outcome,  \* how the last migration ended
  missed,   \* history: the keys it could not insert
  read,     \* history: the keys the reference file had, last whole, when it was read
  laid,     \* history: the keys the open transaction has inserted from a file
  late      \* history: the keys whose saving was reported since the table was dropped
            \* and since a row of a file was last committed under them

dbVars   == <<exists, rows, lock, work, laid>>
migVars  == <<mig, entries, outcome, missed, read>>
bootVars == <<phase>>
migrationVars == <<dbVars, migVars, bootVars, late>>

Sources == {"reference", "learned", "boot", "seed", "saved"}

Tables == UNION {[S -> Sources] : S \in SUBSET RowKeys}

NoRows == [k \in {} |-> "seed"]

\* INSERT OR REPLACE of keys.
Put(table, keys, source) ==
  [k \in DOMAIN table \cup keys |-> IF k \in keys THEN source ELSE table[k]]

MigrationInit ==
  /\ exists = TRUE /\ rows = Put(NoRows, Seeds, "seed") /\ lock = "none" /\ work = NoRows
  /\ laid = {}
  /\ mig = "idle" /\ entries = {} /\ outcome = "none" /\ missed = {} /\ read = {}
  /\ phase = "up"
  /\ late = {}

-----------------------------------------------------------------------------
(***************************************************************************)
(* migrate_kb.py.                                                          *)
(***************************************************************************)

MigStart ==
  /\ mig = "idle" /\ mig' = "drop" /\ outcome' = "none" /\ missed' = {}
  /\ UNCHANGED <<dbVars, entries, read, bootVars, late>>

Drop ==
  /\ mig = "drop" /\ lock = "none" /\ mig' = "create"
  /\ exists' = FALSE /\ rows' = NoRows
  /\ late' = {}
  /\ UNCHANGED <<lock, work, laid, entries, outcome, missed, read, bootVars>>

\* It raises when a boot of the server has created the table in the meantime.
Create ==
  /\ mig = "create" /\ ~ exists /\ mig' = "find reference"
  /\ exists' = TRUE /\ rows' = NoRows
  /\ UNCHANGED <<lock, work, laid, entries, outcome, missed, read, bootVars, late>>

\* Faulty variant: a reference file that cannot be read is skipped.
FindReferenceOrSkip(found) ==
  /\ mig = "find reference" /\ mig' = "reference"
  /\ entries' = IF found.state = "whole" THEN DOMAIN found.facts ELSE {}
  /\ read' = DOMAIN found.facts
  /\ UNCHANGED <<dbVars, outcome, missed, bootVars, late>>

FindReference(found) ==
  /\ mig = "find reference" /\ found.state # "torn" /\ mig' = "reference"
  /\ entries' = DOMAIN found.facts
  /\ read' = DOMAIN found.facts
  /\ UNCHANGED <<dbVars, outcome, missed, bootVars, late>>

\* Between the two files.
FindLearned ==
  /\ mig = "reference" /\ entries = {} /\ mig' = "learned"
  /\ entries' = LearnedFile
  /\ UNCHANGED <<dbVars, outcome, missed, read, bootVars, late>>

\* The migrator's transaction, which begins with its first INSERT.
Transaction == IF lock = "migrator" THEN work ELSE rows

\* Faulty variant: every INSERT is committed by itself.
InsertCommitted(k) ==
  /\ mig \in {"reference", "learned"} /\ k \in entries /\ lock \in {"none", "migrator"}
  /\ entries' = entries \ {k}
  /\ lock' = "none" /\ rows' = Put(rows, {k}, mig)
  /\ late' = late \ {k}
  /\ UNCHANGED <<exists, work, laid, mig, outcome, missed, read, bootVars>>

\* Faulty variant: the rows go to a new table, which replaces the one that is there.
InsertAside(k) ==
  /\ mig \in {"reference", "learned"} /\ k \in entries /\ lock \in {"none", "migrator"}
  /\ entries' = entries \ {k}
  /\ lock' = "migrator" /\ work' = Put(IF lock = "none" THEN NoRows ELSE work, {k}, mig)
  /\ laid' = laid \cup {k}
  /\ UNCHANGED <<exists, rows, mig, outcome, missed, read, bootVars, late>>

Insert(k) ==
  /\ mig \in {"reference", "learned"} /\ k \in entries /\ lock \in {"none", "migrator"}
  /\ entries' = entries \ {k}
  /\ lock' = "migrator" /\ work' = Put(Transaction, {k}, mig)
  /\ laid' = laid \cup {k}
  /\ UNCHANGED <<exists, rows, mig, outcome, missed, read, bootVars, late>>

\* "[SQL ERROR]" is printed, and the row is passed over.
InsertLocked(k) ==
  /\ mig \in {"reference", "learned"} /\ k \in entries /\ lock = "boot"
  /\ entries' = entries \ {k}
  /\ missed' = missed \cup {k}
  /\ UNCHANGED <<dbVars, mig, outcome, read, bootVars, late>>

\* knowledge_fts is filled, the transaction is committed, "[SQLITE MIGRATION COMPLETE]"
\* is printed.
Complete ==
  /\ mig = "learned" /\ entries = {} /\ lock \in {"none", "migrator"}
  /\ mig' = "idle" /\ outcome' = "complete"
  /\ rows' = Transaction /\ lock' = "none" /\ work' = NoRows
  /\ laid' = {} /\ late' = late \ laid
  /\ UNCHANGED <<exists, entries, missed, read, bootVars>>

\* It is interrupted, or a statement outside the two loops raises: the table is
\* locked or exists, or a file cannot be read.  The transaction is rolled back.
MigDies ==
  /\ mig # "idle" /\ mig' = "idle" /\ outcome' = "failed"
  /\ entries' = {}
  /\ IF lock = "migrator" THEN lock' = "none" /\ work' = NoRows /\ laid' = {}
     ELSE UNCHANGED <<lock, work, laid>>
  /\ UNCHANGED <<exists, rows, missed, read, bootVars, late>>

-----------------------------------------------------------------------------
(***************************************************************************)
(* The server: init_db up to where it serves, and what its handlers do.    *)
(***************************************************************************)

\* CREATE TABLE IF NOT EXISTS.
BootCreates ==
  /\ phase = "down" /\ phase' = "created"
  /\ exists' = TRUE
  /\ UNCHANGED <<rows, lock, work, laid, migVars, late>>

\* The first INSERT opens the transaction.
BootInserts(found) ==
  /\ phase = "created" /\ phase' = "loading"
  /\ found.state = "whole" /\ DOMAIN found.facts # {} /\ exists /\ lock = "none"
  /\ lock' = "boot" /\ work' = Put(rows, DOMAIN found.facts, "boot")
  /\ laid' = DOMAIN found.facts
  /\ UNCHANGED <<exists, rows, migVars, late>>

\* No file, no fact, or "[INIT ERROR]": unreadable, no table any more, or locked.
BootLoadsNothing(found) ==
  /\ phase = "created" /\ phase' = "loaded"
  /\ found.state # "whole" \/ DOMAIN found.facts = {} \/ ~ exists \/ lock = "migrator"
  /\ UNCHANGED <<dbVars, migVars, late>>

BootCommits ==
  /\ phase = "loading" /\ phase' = "loaded"
  /\ rows' = work /\ lock' = "none" /\ work' = NoRows
  /\ laid' = {} /\ late' = late \ laid
  /\ UNCHANGED <<exists, migVars>>

\* SELECT COUNT(*) raises, and the server dies, when there is no table.
BootCounts ==
  /\ phase = "loaded" /\ exists
  /\ phase' = IF DOMAIN rows = {} THEN "seeding" ELSE "up"
  /\ UNCHANGED <<dbVars, migVars, late>>

BootSeeds ==
  /\ phase = "seeding" /\ exists /\ lock = "none" /\ phase' = "up"
  /\ rows' = Put(rows, Seeds \ DOMAIN rows, "seed")
  /\ UNCHANGED <<exists, lock, work, laid, migVars, late>>

\* The server is killed, or its boot raises.
ServerDies ==
  /\ phase # "down" /\ phase' = "down"
  /\ IF lock = "boot" THEN lock' = "none" /\ work' = NoRows /\ laid' = {}
     ELSE UNCHANGED <<lock, work, laid>>
  /\ UNCHANGED <<exists, rows, migVars, late>>

\* save_to_learned_db and the purge of a flag; without a table, or beside an open
\* transaction, they fail, which the client is told.
Save(k) ==
  /\ phase = "up" /\ exists /\ lock = "none"
  /\ rows' = Put(rows, {k}, "saved")
  /\ late' = late \cup {k}
  /\ UNCHANGED <<exists, lock, work, laid, migVars, bootVars>>

Purge(k) ==
  /\ phase = "up" /\ exists /\ lock = "none" /\ k \in DOMAIN rows
  /\ rows' = [j \in DOMAIN rows \ {k} |-> rows[j]]
  /\ late' = late \ {k}
  /\ UNCHANGED <<exists, lock, work, laid, migVars, bootVars>>

\* The steps that do not begin a program.
MigrationStep(found) ==
  \/ Drop \/ Create \/ FindReference(found) \/ FindLearned \/ Complete \/ MigDies
  \/ \E k \in RowKeys : Insert(k) \/ InsertLocked(k) \/ Save(k) \/ Purge(k)
  \/ BootInserts(found) \/ BootLoadsNothing(found) \/ BootCommits \/ BootCounts \/ BootSeeds
  \/ ServerDies

-----------------------------------------------------------------------------
MigrationTypeOK ==
  /\ exists \in BOOLEAN
  /\ rows \in Tables /\ (~ exists => rows = NoRows)
  /\ lock \in {"none", "migrator", "boot"}
  /\ work \in Tables
  /\ mig \in {"idle", "drop", "create", "find reference", "reference", "learned"}
  /\ entries \subseteq RowKeys
  /\ phase \in {"down", "created", "loading", "loaded", "seeding", "up"}
  /\ outcome \in {"none", "complete", "failed"}
  /\ missed \subseteq RowKeys /\ read \subseteq RowKeys
  /\ laid \subseteq RowKeys /\ late \subseteq RowKeys

\* Nobody sees half a rebuild: until it is committed, no row of the files the
\* migrator inserts is in the table (migrate_kb.py:57-89).
AllOrNothing ==
  mig \in {"create", "find reference", "reference", "learned"}
    => \A k \in DOMAIN rows : rows[k] \notin {"reference", "learned"}

\* An answer that the server reported as saved beside the migrator and the boots stays
\* the row of its key, whether they end, fail or are killed.  Only a row that one of
\* them inserts from its file under the same key, and commits, takes its place: INSERT
\* OR REPLACE (migrate_kb.py:57-89, server.py:73-96, 207-216).
LateSavesKept == \A k \in late : k \in DOMAIN rows /\ rows[k] = "saved"

\* When "[SQLITE MIGRATION COMPLETE]" is printed, the table has what the reference file
\* had when it was last whole and what was learned, the learned answer where both have
\* one, except the rows whose "[SQL ERROR]" was printed (migrate_kb.py:57-92).
CompleteMeansAll ==
  [][outcome' = "complete" /\ outcome # "complete"
       => /\ (read \cup LearnedFile) \ missed \subseteq DOMAIN rows'
          /\ \A k \in LearnedFile \ missed : rows'[k] = "learned"]_migrationVars
=============================================================================
