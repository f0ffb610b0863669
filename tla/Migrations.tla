------------------------------- MODULE Migrations -------------------------------
(***************************************************************************)
(* db/migrate.js: applying the numbered SQL files of a release to a        *)
(* database.  A run reads schema_migrations once, then walks through the   *)
(* files of its release in the order of their names.  A file is known by   *)
(* its name: one it saw recorded with the same checksum is skipped, one    *)
(* recorded with another stops the run, and each of the others is run,     *)
(* with the INSERT that records its name, in a transaction of its own.  A  *)
(* file that was renamed, or that fills a gap, is therefore a new one.     *)
(*                                                                         *)
(* Nothing keeps two runs apart, of one release or of two, and a run may   *)
(* crash anywhere; what it has committed stays, and another run goes on.   *)
(***************************************************************************)
EXTENDS Naturals, Sequences

CONSTANTS Runners,          \* the processes that can be running db:migrate
          Contents,         \* what a file can say, up to its checksum
          Releases,         \* the files of each release, as listMigrationFiles sorts them
          Makes,            \* the table, or column, each content makes
          Rerunnable        \* the contents written with IF NOT EXISTS

None == "none"

(* File names are numbered as they sort, so that 3 may stand for a name    *)
(* between 002_index.sql and 003_report.sql.                               *)
Names == UNION {{rel[i].name : i \in DOMAIN rel} : rel \in Releases}

ASSUME MigrationsAssumption ==
  /\ Releases \subseteq Seq([name : Nat, content : Contents])
  /\ \A rel \in Releases : \A i, j \in DOMAIN rel : i < j => rel[i].name < rel[j].name
  /\ Rerunnable \subseteq Contents /\ Contents \subseteq DOMAIN Makes
  /\ None \notin Contents

VARIABLES applied,          \* schema_migrations: the content of each version, a file name
          schema,           \* the files whose effects are committed, in order
          run               \* what each runner is doing

migrationVars == <<applied, schema, run>>

Idle == [at |-> "idle"]
Runs ==
  {r \in [at : {"snapshot", "file", "record", "commit"}, release : Releases, next : Nat,
          seen : [Names -> Contents \cup {None}]] :
     /\ r.next \in 1 .. Len(r.release) + 1
     /\ r.at \in {"record", "commit"} => r.next <= Len(r.release)}

At(r, step) == run[r].at = step
File(r) == run[r].release[run[r].next]
Version(r) == File(r).name
Content(r) == File(r).content
Pending(r) == run[r].next <= Len(run[r].release)
Go(r, step) == run' = [run EXCEPT ![r].at = step]
NextFile(r) == run' = [run EXCEPT ![r].at = "file", ![r].next = @ + 1]
Exit(r) == run' = [run EXCEPT ![r] = Idle]
-------------------------------------------------------------------------------
MigrationsInit ==
  /\ applied = [v \in Names |-> None]
  /\ schema = <<>>
  /\ run = [r \in Runners |-> Idle]

(* Connecting, and CREATE TABLE IF NOT EXISTS schema_migrations.           *)
Start(r, rel) ==
  /\ At(r, "idle")
  /\ run' = [run EXCEPT ![r] = [at |-> "snapshot", release |-> rel, next |-> 1,
                                seen |-> [v \in Names |-> None]]]
  /\ UNCHANGED <<applied, schema>>

(* getAppliedMigrations                                                    *)
ReadApplied(r) ==
  /\ At(r, "snapshot")
  /\ run' = [run EXCEPT ![r].at = "file", ![r].seen = applied]
  /\ UNCHANGED <<applied, schema>>

(* What the run saw recorded: the same checksum, or another one, at which  *)
(* it stops.  A slip would warn and go on.                                 *)
CompareOrWarn(r) ==
  /\ At(r, "file") /\ Pending(r)
  /\ run[r].seen[Version(r)] # None
  /\ NextFile(r)
  /\ UNCHANGED <<applied, schema>>
Compare(r) ==
  /\ At(r, "file") /\ Pending(r)
  /\ \/ run[r].seen[Version(r)] = Content(r) /\ NextFile(r)
     \/ run[r].seen[Version(r)] \notin {None, Content(r)} /\ Exit(r)
  /\ UNCHANGED <<applied, schema>>

(* BEGIN and the file.  CREATE TABLE fails on what another file has made,  *)
(* under whatever name, and waits for one that is making it; CREATE TABLE  *)
(* IF NOT EXISTS does not fail.  A slip would take it for applied.         *)
Made(r) == \E i \in DOMAIN schema : Makes[schema[i].content] = Makes[Content(r)]
BeingMade(r) ==
  \E o \in Runners \ {r} : run[o].at \in {"record", "commit"} /\ Makes[Content(o)] = Makes[Content(r)]
RunSqlOrSkip(r) ==
  /\ At(r, "file") /\ Pending(r)
  /\ run[r].seen[Version(r)] = None
  /\ \/ /\ Content(r) \in Rerunnable \/ ~(Made(r) \/ BeingMade(r))
        /\ Go(r, "record")
     \/ Content(r) \notin Rerunnable /\ Made(r) /\ NextFile(r)
  /\ UNCHANGED <<applied, schema>>
RunSql(r) ==
  /\ At(r, "file") /\ Pending(r)
  /\ run[r].seen[Version(r)] = None
  /\ \/ /\ Content(r) \in Rerunnable \/ ~(Made(r) \/ BeingMade(r))
        /\ Go(r, "record")
     \/ Content(r) \notin Rerunnable /\ Made(r) /\ Exit(r)
  /\ UNCHANGED <<applied, schema>>

(* The INSERT, which waits for a run that has inserted the version and not *)
(* committed it, and fails if it is there.  A slip would insert it outside *)
(* the transaction.                                                        *)
InsertOnPool(r) ==
  /\ At(r, "record") /\ applied[Version(r)] = None
  /\ applied' = [applied EXCEPT ![Version(r)] = Content(r)]
  /\ Go(r, "commit")
  /\ UNCHANGED schema
Inserted(r) == At(r, "commit")
InsertVersion(r) ==
  /\ At(r, "record")
  /\ \A o \in Runners : Inserted(o) => Version(o) # Version(r)
  /\ \/ applied[Version(r)] = None /\ Go(r, "commit")
     \/ applied[Version(r)] # None /\ Exit(r)
  /\ UNCHANGED <<applied, schema>>

CommitMigration(r) ==
  /\ At(r, "commit")
  /\ applied' = [applied EXCEPT ![Version(r)] = Content(r)]
  /\ schema' = Append(schema, File(r))
  /\ NextFile(r)

(* "Database migrations complete."                                         *)
Complete(r) ==
  /\ At(r, "file") /\ ~Pending(r)
  /\ Exit(r)
  /\ UNCHANGED <<applied, schema>>

(* A statement fails, or the process crashes: the transaction under way is *)
(* rolled back, and the run ends.                                          *)
Fail(r) ==
  /\ ~At(r, "idle")
  /\ Exit(r)
  /\ UNCHANGED <<applied, schema>>

RunnerStep(r) ==
  \/ \E rel \in Releases : Start(r, rel)
  \/ ReadApplied(r) \/ Compare(r) \/ RunSql(r) \/ InsertVersion(r) \/ CommitMigration(r)
  \/ Complete(r) \/ Fail(r)
MigrationsNext == \E r \in Runners : RunnerStep(r)

MigrationsSpec == MigrationsInit /\ [][MigrationsNext]_migrationVars
-------------------------------------------------------------------------------
MigrationsTypeOK ==
  /\ applied \in [Names -> Contents \cup {None}]
  /\ schema \in Seq([name : Names, content : Contents])
  /\ run \in [Runners -> Runs \cup {Idle}]

(* What is recorded has been run, once, and with the content recorded;     *)
(* what has been run is recorded.  Runs may overlap, and may have crashed  *)
(* between any two statements.                                             *)
RecordedAsRun ==
  /\ \A v \in Names : applied[v] # None =>
       \E i \in DOMAIN schema : schema[i] = [name |-> v, content |-> applied[v]]
  /\ \A i \in DOMAIN schema : applied[schema[i].name] = schema[i].content
  /\ \A i, j \in DOMAIN schema : schema[i].name = schema[j].name => i = j

(* README of migrations: files run in the order of their names, because    *)
(* later ones need what earlier ones made.  Across releases that rename    *)
(* files, fill gaps or edit them, and runs that overlap, the schema need   *)
(* not be that of one release; but no file is ever applied before those    *)
(* that some release which has it puts before it.                          *)
Before(f, j, rel) ==
  \E k \in DOMAIN rel :
    /\ rel[k] = f
    /\ \A i \in 1 .. k - 1 : \E l \in 1 .. j - 1 : schema[l] = rel[i]
EarlierFilesFirst ==
  \A j \in DOMAIN schema : \E rel \in Releases : Before(schema[j], j, rel)

(* A run that says "Database migrations complete." leaves no file of its   *)
(* release unapplied, or applied with another content, whichever of them   *)
(* other runs and other releases have applied.                             *)
CompleteIsWhole ==
  \A r \in Runners : At(r, "file") /\ ~Pending(r) =>
    \A i \in DOMAIN run[r].release : \E l \in DOMAIN schema : schema[l] = run[r].release[i]
-------------------------------------------------------------------------------
(* The invariant of the proofs: a row inserted and not committed is new,   *)
(* and of one run; and what a run saw recorded, or has walked past, is     *)
(* recorded like that.                                                     *)
InsertsApart ==
  \A r, o \in Runners : Inserted(r) /\ Inserted(o) /\ Version(r) = Version(o) => r = o
InsertsNew == \A r \in Runners : Inserted(r) => applied[Version(r)] = None
SnapshotHolds ==
  \A r \in Runners : ~At(r, "idle") =>
    \A v \in Names : run[r].seen[v] # None => applied[v] = run[r].seen[v]
WalkedFiles ==
  \A r \in Runners : ~At(r, "idle") =>
    \A i \in 1 .. run[r].next - 1 :
      applied[run[r].release[i].name] = run[r].release[i].content

MigrationsInv ==
  /\ MigrationsTypeOK /\ RecordedAsRun /\ InsertsApart /\ InsertsNew
  /\ SnapshotHolds /\ WalkedFiles /\ EarlierFilesFirst
===============================================================================
