--------------------------- MODULE SchemaMigrations ---------------------------
(***************************************************************************)
(* Several deployed instances, of releases with different migration files,      *)
(* bring one database up to date.  One connection holds a session advisory lock   *)
(* for the whole run; each file is its own transaction, except one that must run    *)
(* outside of one.                                                                 *)
(***************************************************************************)
EXTENDS Naturals, Sequences

CONSTANTS
    Runners,            \* instances that run the migrations
    LastMigration,      \* migrations are numbered 1 .. LastMigration
    BaselineMax,        \* up to here a history that disagrees is tolerated
    NonTransactional,   \* files with the directive transaction=false
    MaxRuns             \* bound on files executed

ASSUME MigrationAssumption ==
    /\ LastMigration \in Nat /\ BaselineMax \in Nat /\ MaxRuns \in Nat
    /\ NonTransactional \subseteq 1 .. BaselineMax

VARIABLES
    files,     \* per runner: checksum by number, of the files of its release
    history,   \* schema_migrations: the same, of what was recorded
    runner,    \* per runner: how far it got, and the history it read
    executed   \* numbers and checksums of the files executed and committed, in order

migrationVars == <<files, history, runner, executed>>

Checksum == {"a", "b"}
Files == UNION {[S -> Checksum] : S \in SUBSET (1 .. LastMigration)}
NoFiles == <<>>
Runner == [pc : {"idle", "locked", "apply", "record"}, recorded : Files, at : 0 .. LastMigration]
NotRunning == [pc |-> "idle", recorded |-> NoFiles, at |-> 0]

MigrationTypeOK ==
    /\ files \in [Runners -> Files]
    /\ history \in Files
    /\ \A r \in Runners : /\ runner[r].pc \in {"idle", "locked", "apply", "record"}
                          /\ runner[r].recorded \in Files
                          /\ runner[r].at \in 0 .. LastMigration
    /\ executed \in Seq([number : 1 .. LastMigration, checksum : Checksum]) /\ Len(executed) <= MaxRuns

\* Each runner has a release, and every release with this runner has the baseline files.
\* The database is empty, or legacy, which changes nothing here: every file runs.
MigrationInit ==
    /\ files \in [Runners -> {f \in Files : 1 .. BaselineMax \subseteq DOMAIN f}]
    /\ history = NoFiles
    /\ runner = [r \in Runners |-> NotRunning]
    /\ executed = <<>>

\* Mutant: runners do not wait for one another.
NoLock == TRUE

\* pg_advisory_lock, held by a session until it unlocks or ends.
LockFree == \A r \in Runners : runner[r] = NotRunning

TakeLock(r) ==
    /\ runner[r] = NotRunning /\ LockFree
    /\ runner' = [runner EXCEPT ![r] = [pc |-> "locked", recorded |-> history, at |-> 0]]
    /\ UNCHANGED <<files, history, executed>>

\* validate: no recorded version without a file, no file that changed, above the
\* baseline; and no file below the last recorded version that is not recorded.
Valid(mine, recorded) ==
    /\ \A v \in DOMAIN recorded \ DOMAIN mine : v <= BaselineMax
    /\ \A v \in DOMAIN recorded \cap DOMAIN mine : recorded[v] = mine[v] \/ v <= BaselineMax
    /\ \A v \in DOMAIN mine \ DOMAIN recorded : \A u \in DOMAIN recorded : v > u

validate(r) ==
    /\ runner[r].pc = "locked"
    /\ runner' = [runner EXCEPT ![r] = IF Valid(files[r], @.recorded) THEN [@ EXCEPT !.pc = "apply"]
                                                                      ELSE NotRunning]
    /\ UNCHANGED <<files, history, executed>>

\* The files this run did not find recorded, in order.
Pending(r) == {v \in DOMAIN files[r] \ DOMAIN runner[r].recorded : v > runner[r].at}
NextToApply(r, v) == runner[r].pc = "apply" /\ v \in Pending(r) /\ \A u \in Pending(r) : v <= u

Execute(r, v) ==
    /\ Len(executed) < MaxRuns
    /\ executed' = Append(executed, [number |-> v, checksum |-> files[r][v]])

\* INSERT ... ON CONFLICT DO NOTHING
Recorded(r, v) == IF v \in DOMAIN history THEN history
                  ELSE [u \in DOMAIN history \cup {v} |-> IF u = v THEN files[r][v] ELSE history[u]]

\* The statements and the record commit together, or the run ends with an error.
applyInTransaction(r) ==
    /\ \E v \in 1 .. LastMigration \ NonTransactional :
         /\ NextToApply(r, v)
         /\ Execute(r, v)
         /\ history' = Recorded(r, v)
         /\ runner' = [runner EXCEPT ![r].at = v]
    /\ UNCHANGED files

\* transaction=false: the statement, then the record.
applyAlone(r) ==
    /\ \E v \in NonTransactional :
         /\ NextToApply(r, v)
         /\ Execute(r, v)
         /\ runner' = [runner EXCEPT ![r].at = v, ![r].pc = "record"]
    /\ UNCHANGED <<files, history>>

record(r) ==
    /\ runner[r].pc = "record"
    /\ history' = Recorded(r, runner[r].at)
    /\ runner' = [runner EXCEPT ![r].pc = "apply"]
    /\ UNCHANGED <<files, executed>>

\* The run ends, a file fails, or the process dies: the lock goes with the session.
RunEnds(r) ==
    /\ runner[r] # NotRunning
    /\ runner' = [runner EXCEPT ![r] = NotRunning]
    /\ UNCHANGED <<files, history, executed>>

runMigrations(r) == \/ TakeLock(r) \/ validate(r) \/ applyInTransaction(r)
                    \/ applyAlone(r) \/ record(r) \/ RunEnds(r)

MigrationNext == \E r \in Runners : runMigrations(r)

MigrationSpec == MigrationInit /\ [][MigrationNext]_migrationVars
-----------------------------------------------------------------------------
\* runner.ts: instances "converge on a single executor", and a crash "leaves the unrecorded
\* file to be retried": whichever releases race, files are executed in order, one at a time
\* and once, a file outside of a transaction perhaps again before the next one; and the
\* history records what was executed.
MigrationsOrdered ==
    /\ \A i, j \in DOMAIN executed : i < j =>
         \/ executed[i].number < executed[j].number
         \/ executed[i].number = executed[j].number /\ executed[i].number \in NonTransactional
    /\ \A v \in DOMAIN history :
         \E i \in DOMAIN executed : executed[i] = [number |-> v, checksum |-> history[v]]
=============================================================================
