---------------------------- MODULE LocalProject ----------------------------
(***************************************************************************)
(* The local state of a project, the directory .grape: its layout, the     *)
(* configuration, the database and its backups, and the artifact files, as *)
(* processes create, repair, use and purge them (src/app/local-project/    *)
(* setup, privacy/purge.ts, context/artifact-files.ts and the runtime of   *)
(* the migrations).  Every file operation and every SQLite transaction is  *)
(* a step; a process may die between any two; nothing but the database     *)
(* serialises processes.                                                   *)
(*                                                                         *)
(* A path names an inode, so that a process goes on with the file it has   *)
(* opened after another has renamed or deleted it.  The database and its   *)
(* -wal and -shm files count as one file.                                  *)
(***************************************************************************)
EXTENDS Integers, Sequences, FiniteSets, SequencesExt, FiniteSetsExt

CONSTANTS
    Slots,        \* how many commands may run at a time
    Kinds,        \* the commands: a subset of {"init", "compile", "read", "purge"}
    LastMigration,
    None,
    MaxStarts, MaxBreaks   \* bounds

ASSUME KindsAreCommands == Kinds \subseteq {"init", "compile", "read", "purge"}

ASSUME LastMigrationIsNatural == LastMigration \in Nat

Procs == 1 .. Slots   \* each slot runs one command after another
Migrations == 1 .. LastMigration
Parts == <<"json", "markdown", "repository">>   \* the files of one artifact, as renamed

VARIABLES
    root,           \* .grape exists
    artifactDir,    \* .grape/artifacts exists
    files,          \* its files: artifact and part
    configFile,     \* the inode of config.json, or 0
    configs,        \* inodes of configurations: "torn" or "ours"
    databaseFile,   \* the inode of grape.db, or 0
    databases,      \* inodes of databases: what was broken, migrations, rows, locks
    backups,        \* grape.db.invalid.*: name and inode
    proc,           \* the processes
    starts, breaks, \* how often a command was started, and the database broken
    purging         \* a purge has started to delete

dirVars == <<root, artifactDir>>
configVars == <<configFile, configs>>
databaseVars == <<databaseFile, databases, backups>>
countVars == <<starts, breaks, purging>>
vars == <<dirVars, files, configVars, databaseVars, proc, countVars>>

Ended == {"idle", "ended", "dead"}
Idle == [kind |-> None, stamp |-> 0, at |-> "idle", setup |-> FALSE, repaired |-> FALSE,
         config |-> 0, db |-> 0, todo |-> {}, listed |-> {}, alone |-> FALSE]
NewDatabase == [broken |-> None, applied |-> {}, rows |-> {}, locks |-> {}]

LocalInit ==
    /\ root = FALSE /\ artifactDir = FALSE /\ files = {}
    /\ configFile = 0 /\ configs = << >>
    /\ databaseFile = 0 /\ databases = << >> /\ backups = {}
    /\ proc = [p \in Procs |-> Idle]
    /\ starts = 0 /\ breaks = 0 /\ purging = FALSE

Running(p) == proc[p].at \notin Ended
At(p, place) == proc[p].at = place
Go(p, place) == proc' = [proc EXCEPT ![p].at = place]
End(p, how) == proc' = [proc EXCEPT ![p] = [Idle EXCEPT !.at = how, !.alone = proc[p].alone]]
Fail(p) == End(p, "ended")
Done(p) == End(p, "ended")
Kind(p) == proc[p].kind
Db(p) == databases[proc[p].db]

ConfigIsOurs == configFile # 0 /\ configs[configFile] = "ours"

EnsureLocalProjectLayout == root' = TRUE /\ artifactDir' = TRUE

----------------------------------------------------------------------------
(* Setting up: configuration and layout *)

FirstStep(kind) ==
    CASE kind = "init" -> "writeConfig" [] kind = "compile" -> "readConfig"
      [] kind = "read" -> "configured" [] kind = "purge" -> "inspectConfig"

\* A command starts; all but purge ensure the layout first.  The stamp is its clock,
\* which names the backups it makes: two commands are taken to read different times.
Start(p, kind) ==
    /\ starts < MaxStarts
    /\ ~Running(p) /\ \A q \in 1 .. p - 1 : Running(q)   \* the first free slot
    /\ starts' = starts + 1
    /\ proc' = [q \in Procs |->
          IF q = p
          THEN [Idle EXCEPT !.kind = kind, !.stamp = starts + 1, !.at = FirstStep(kind),
                            !.setup = (kind = "init"),
                            !.alone = \A other \in Procs \ {p} : ~Running(other)]
          ELSE [proc[q] EXCEPT !.alone = FALSE]]
    /\ IF kind = "purge" THEN UNCHANGED dirVars ELSE EnsureLocalProjectLayout
    /\ UNCHANGED <<files, configVars, databaseVars, breaks, purging>>

\* ensureLocalProjectBootstrapped: a compile initialises a project that has no
\* configuration, or one that does not parse.
ReadConfig(p) ==
    /\ At(p, "readConfig")
    /\ IF ConfigIsOurs THEN Go(p, "configured") /\ UNCHANGED dirVars
       ELSE /\ proc' = [proc EXCEPT ![p].at = "writeConfig", ![p].setup = TRUE]
            /\ EnsureLocalProjectLayout
    /\ UNCHANGED <<files, configVars, databaseVars, countVars>>

\* Mutant: a configuration that does not parse is an error of the caller.
WriteLocalProjectConfigOrThrow(p) ==
    /\ At(p, "writeConfig")
    /\ IF ConfigIsOurs THEN Go(p, "open")
       ELSE IF configFile # 0 THEN Fail(p) ELSE Go(p, "create")
    /\ UNCHANGED <<dirVars, files, configVars, databaseVars, countVars>>

\* A configuration that is ours is kept, one that is torn is copied and written
\* again (the copy, config.invalid.*, is left out).
WriteLocalProjectConfig(p) ==
    /\ At(p, "writeConfig")
    /\ Go(p, IF ConfigIsOurs THEN "open" ELSE "create")
    /\ UNCHANGED <<dirVars, files, configVars, databaseVars, countVars>>

\* writeFileSync: the file is created or truncated, and then filled.
CreateConfig(p) ==
    LET inode == IF configFile # 0 THEN configFile ELSE Len(configs) + 1 IN
    /\ At(p, "create")
    /\ IF ~root THEN Fail(p) /\ UNCHANGED configVars
       ELSE /\ configs' = IF configFile # 0 THEN [configs EXCEPT ![inode] = "torn"]
                          ELSE Append(configs, "torn")
            /\ configFile' = inode
            /\ proc' = [proc EXCEPT ![p].at = "fill", ![p].config = inode]
    /\ UNCHANGED <<dirVars, files, databaseVars, countVars>>

FillConfig(p) ==
    /\ At(p, "fill")
    /\ configs' = [configs EXCEPT ![proc[p].config] = "ours"]
    /\ Go(p, "open")
    /\ UNCHANGED <<dirVars, files, configFile, databaseVars, countVars>>

\* ensureConfiguredLocalProjectLayout: from here on a configuration is required.
EnsureConfiguredLocalProjectLayout(p) ==
    /\ At(p, "configured")
    /\ EnsureLocalProjectLayout
    /\ IF ConfigIsOurs THEN Go(p, "open") ELSE Fail(p)
    /\ UNCHANGED <<files, configVars, databaseVars, countVars>>

----------------------------------------------------------------------------
(* Opening, migrating and repairing the database *)

\* new DatabaseSync: creates an empty file when there is none.
OpenDatabase(p) ==
    LET inode == IF databaseFile # 0 THEN databaseFile ELSE Len(databases) + 1 IN
    /\ At(p, "open")
    /\ IF ~root THEN Fail(p) /\ UNCHANGED databaseVars
       ELSE /\ databases' = IF databaseFile # 0 THEN databases
                            ELSE Append(databases, NewDatabase)
            /\ databaseFile' = inode
            /\ proc' = [proc EXCEPT ![p].at = "hasSchema", ![p].db = inode]
            /\ UNCHANGED backups
    /\ UNCHANGED <<dirVars, files, configVars, countVars>>

\* The database throws something repairable: init and compile move it away, once,
\* if it is still there; other commands fail.
Broken(p) ==
    IF (proc[p].setup \/ Kind(p) = "compile") /\ ~proc[p].repaired /\ databaseFile # 0
    THEN Go(p, "repair") ELSE Fail(p)

\* The connection policy, and whether there is a table schema_migrations.
HasSchemaMigrationsTable(p) ==
    /\ At(p, "hasSchema")
    /\ IF Db(p).broken = "garbage" THEN Broken(p)
       ELSE Go(p, IF Db(p).applied # {} THEN "plan" ELSE "isEmpty")
    /\ UNCHANGED <<dirVars, files, configVars, databaseVars, countVars>>

\* A second query: a database without that table must have no other.  Migrations
\* another process applied since the first query count as others.
AssertTrustedMigrationBootstrap(p) ==
    /\ At(p, "isEmpty")
    /\ IF Db(p).applied # {} \/ Db(p).broken # None THEN Broken(p) ELSE Go(p, "plan")
    /\ UNCHANGED <<dirVars, files, configVars, databaseVars, countVars>>

\* Mutant: a database that has its first migration is taken for migrated.
PendingOfNew(applied) == IF applied = {} THEN Migrations ELSE {}

PlanPendingStorageMigrations(applied) == Migrations \ applied

PlanMigrations(p) ==
    LET pending == PlanPendingStorageMigrations(Db(p).applied) IN
    /\ At(p, "plan")
    /\ proc' = [proc EXCEPT ![p].todo = pending,
                            ![p].at = IF pending = {} THEN "operation" ELSE "migrate"]
    /\ UNCHANGED <<dirVars, files, configVars, databaseVars, countVars>>

\* One transaction per migration; when another process was faster, recording it
\* violates the primary key and the command fails.
ApplyMigration(p) ==
    LET next == Min(proc[p].todo) IN
    /\ At(p, "migrate")
    /\ IF next \in Db(p).applied THEN Fail(p) /\ UNCHANGED databases
       ELSE /\ databases' = [databases EXCEPT ![proc[p].db].applied = @ \cup {next}]
            /\ proc' = [proc EXCEPT ![p].todo = @ \ {next},
                   ![p].at = IF proc[p].todo = {next} THEN "operation" ELSE "migrate"]
    /\ UNCHANGED <<dirVars, files, configVars, databaseFile, backups, countVars>>

Backup(p) ==
    LET used == {b.name[3] : b \in {c \in backups : c.name[2] = proc[p].stamp}}
    IN  [name |-> <<"invalid", proc[p].stamp, CHOOSE i \in 0 .. Cardinality(used) : i \notin used>>,
         inode |-> databaseFile]

\* Mutant: the database that cannot be used is deleted.
DeleteRepairableLocalDatabase(p) ==
    /\ At(p, "repair")
    /\ databaseFile' = 0
    /\ proc' = [proc EXCEPT ![p].at = "open", ![p].repaired = TRUE]
    /\ UNCHANGED <<dirVars, files, configVars, databases, backups, countVars>>

\* The file is renamed to a name that is not used, and everything starts again.
BackupRepairableLocalDatabase(p) ==
    /\ At(p, "repair")
    /\ IF databaseFile = 0 THEN Fail(p) /\ UNCHANGED <<databaseFile, backups>>
       ELSE /\ backups' = backups \cup {Backup(p)}
            /\ databaseFile' = 0
            /\ proc' = [proc EXCEPT ![p].at = "open", ![p].repaired = TRUE]
    /\ UNCHANGED <<dirVars, files, configVars, databases, countVars>>

----------------------------------------------------------------------------
(* The operation *)

\* An init ends (its snapshot is not modelled here), and so does a command that
\* reads; a compile that initialised goes on with what it came for, one that is
\* set up starts its transaction, in which it takes the lock of its session: nobody
\* else sees that lock before the commit.
StartOperation(p) ==
    /\ At(p, "operation")
    /\ IF Kind(p) # "compile" THEN Done(p)
       ELSE IF ~proc[p].setup THEN Go(p, "temp")
       ELSE proc' = [proc EXCEPT ![p].setup = FALSE, ![p].repaired = FALSE,
                                 ![p].config = 0, ![p].at = "configured"]
    /\ UNCHANGED <<dirVars, files, configVars, databaseVars, countVars>>

File(p, part) == [artifact |-> proc[p].stamp, part |-> part]

\* An error in the build transaction rolls it back, its lock included.
Rollback(p) ==
    /\ Fail(p)
    /\ files' = files \ {File(p, "temp")}

\* Temporary files first.
WriteTemporaryFiles(p) ==
    /\ At(p, "temp")
    /\ IF ~artifactDir THEN Rollback(p)
       ELSE /\ files' = files \cup {File(p, "temp")}
            /\ Go(p, "json")
    /\ UNCHANGED <<dirVars, configVars, databaseVars, countVars>>

\* Then one is renamed after the other, inside the transaction of the build.
RenameFile(p) ==
    \E i \in DOMAIN Parts :
        /\ At(p, Parts[i])
        /\ IF ~artifactDir \/ File(p, "temp") \notin files THEN Rollback(p)
           ELSE IF i < Len(Parts)
           THEN files' = files \cup {File(p, Parts[i])} /\ Go(p, Parts[i + 1])
           ELSE /\ files' = (files \cup {File(p, Parts[i])}) \ {File(p, "temp")}
                /\ Go(p, "commit")
        /\ UNCHANGED <<dirVars, configVars, databaseVars, countVars>>

CommitBuild(p) ==
    /\ At(p, "commit")
    /\ databases' = [databases EXCEPT ![proc[p].db].rows = @ \cup {proc[p].stamp},
                                      ![proc[p].db].locks = @ \cup {proc[p].stamp}]
    /\ Go(p, "release")
    /\ UNCHANGED <<dirVars, files, configVars, databaseFile, backups, countVars>>

\* The lock goes with a statement of its own, in a finally.
ReleaseLock(p) ==
    /\ At(p, "release")
    /\ databases' = [databases EXCEPT ![proc[p].db].locks = @ \ {proc[p].stamp}]
    /\ Done(p)
    /\ UNCHANGED <<dirVars, files, configVars, databaseFile, backups, countVars>>

\* The build fails after its files were written.
AbandonBuild(p) ==
    /\ At(p, "commit")
    /\ Rollback(p)
    /\ UNCHANGED <<dirVars, configVars, databaseVars, countVars>>

----------------------------------------------------------------------------
(* Purge.  Entries are listed, and then deleted in the order of their names *)

PurgeUnchanged == UNCHANGED <<configVars, databases, starts, breaks>>

\* With --confirm, the configuration must be this project's.
InspectConfigRoot(p) ==
    /\ At(p, "inspectConfig")
    /\ IF root /\ ConfigIsOurs THEN Go(p, "inspectLocks") ELSE Done(p)
    /\ PurgeUnchanged /\ UNCHANGED <<dirVars, files, databaseFile, backups, purging>>

\* Sessions that are locked refuse the purge; what cannot be read does not.
InspectSessionLocks(p) ==
    /\ At(p, "inspectLocks")
    /\ IF /\ databaseFile # 0 /\ databases[databaseFile].broken = None
          /\ databases[databaseFile].locks # {}
       THEN Fail(p) ELSE Go(p, "listRoot")
    /\ PurgeUnchanged /\ UNCHANGED <<dirVars, files, databaseFile, backups, purging>>

RootEntries ==
    (IF artifactDir THEN {<<"artifacts">>} ELSE {})
    \cup (IF configFile # 0 THEN {<<"config">>} ELSE {})
    \cup (IF databaseFile # 0 THEN {<<"database">>} ELSE {})
    \cup {b.name : b \in backups}

\* After the artifacts the rest of the listing is still to be deleted.
ListRoot(p) ==
    /\ At(p, "listRoot")
    /\ IF ~root THEN Fail(p) /\ UNCHANGED purging
       ELSE /\ proc' = [proc EXCEPT ![p].todo = RootEntries \ {<<"artifacts">>},
                   ![p].at = IF artifactDir THEN "listArtifacts" ELSE "unlink"]
            /\ purging' = TRUE
    /\ PurgeUnchanged /\ UNCHANGED <<dirVars, files, databaseFile, backups>>

ListArtifacts(p) ==
    /\ At(p, "listArtifacts")
    /\ IF ~artifactDir THEN Fail(p)
       ELSE proc' = [proc EXCEPT ![p].at = "unlinkFiles", ![p].listed = files]
    /\ PurgeUnchanged /\ UNCHANGED <<dirVars, files, databaseFile, backups, purging>>

\* A file that another process has deleted since it was listed ends the purge.
UnlinkFile(p) ==
    /\ At(p, "unlinkFiles")
    /\ \E file \in proc[p].listed :
          IF file \notin files THEN Fail(p) /\ UNCHANGED files
          ELSE /\ files' = files \ {file}
               /\ proc' = [proc EXCEPT ![p].listed = @ \ {file}]
    /\ PurgeUnchanged /\ UNCHANGED <<dirVars, databaseFile, backups, purging>>

\* rmdir refuses a directory in which something has been created since.
RemoveArtifactDir(p) ==
    /\ At(p, "unlinkFiles") /\ proc[p].listed = {}
    /\ IF ~artifactDir \/ files # {} THEN Fail(p) /\ UNCHANGED artifactDir
       ELSE /\ artifactDir' = FALSE
            /\ proc' = [proc EXCEPT ![p].at = "unlink"]
    /\ PurgeUnchanged /\ UNCHANGED <<root, files, databaseFile, backups, purging>>

UnlinkConfig(p) ==
    /\ At(p, "unlink") /\ <<"config">> \in proc[p].todo
    /\ IF configFile = 0 THEN Fail(p) /\ UNCHANGED configFile
       ELSE /\ configFile' = 0
            /\ proc' = [proc EXCEPT ![p].todo = @ \ {<<"config">>}]
    /\ UNCHANGED <<dirVars, files, configs, databaseVars, countVars>>

UnlinkDatabase(p) ==
    /\ At(p, "unlink") /\ <<"config">> \notin proc[p].todo /\ <<"database">> \in proc[p].todo
    /\ IF databaseFile = 0 THEN Fail(p) /\ UNCHANGED databaseFile
       ELSE /\ databaseFile' = 0
            /\ proc' = [proc EXCEPT ![p].todo = @ \ {<<"database">>}]
    /\ PurgeUnchanged /\ UNCHANGED <<dirVars, files, backups, purging>>

\* One backup after the other; their order is left open.
UnlinkBackup(p) ==
    /\ At(p, "unlink") /\ {<<"config">>, <<"database">>} \cap proc[p].todo = {}
    /\ \E name \in proc[p].todo :
          IF \A b \in backups : b.name # name THEN Fail(p) /\ UNCHANGED backups
          ELSE /\ backups' = {b \in backups : b.name # name}
               /\ proc' = [proc EXCEPT ![p].todo = @ \ {name}]
    /\ PurgeUnchanged /\ UNCHANGED <<dirVars, files, databaseFile, purging>>

\* Mutant: deletes the directory whatever is in it.
RemoveRootRecursively(p) ==
    /\ At(p, "unlink") /\ proc[p].todo = {}
    /\ root' = FALSE /\ Done(p)
    /\ PurgeUnchanged /\ UNCHANGED <<artifactDir, files, databaseFile, backups, purging>>

RemoveRoot(p) ==
    /\ At(p, "unlink") /\ proc[p].todo = {}
    /\ IF ~root \/ RootEntries # {} THEN Fail(p) /\ UNCHANGED root
       ELSE root' = FALSE /\ Done(p)
    /\ PurgeUnchanged /\ UNCHANGED <<artifactDir, files, databaseFile, backups, purging>>

----------------------------------------------------------------------------
(* The whole *)

\* A process dies: what it has written stays.
Die(p) ==
    /\ Running(p) /\ End(p, "dead")
    /\ UNCHANGED <<dirVars, files, configVars, databaseVars, countVars>>

\* Something else damages the database while no command runs.
Break ==
    /\ breaks < MaxBreaks /\ databaseFile # 0 /\ \A p \in Procs : ~Running(p)
    /\ breaks' = breaks + 1
    /\ \E how \in {"garbage", "foreign"} :
          databases' = [databases EXCEPT ![databaseFile] = [NewDatabase EXCEPT !.broken = how]]
    /\ UNCHANGED <<dirVars, files, configVars, databaseFile, backups, proc, starts, purging>>

Step(p) ==
    \/ ReadConfig(p)
    \/ WriteLocalProjectConfig(p)
    \/ CreateConfig(p)
    \/ FillConfig(p)
    \/ EnsureConfiguredLocalProjectLayout(p)
    \/ OpenDatabase(p)
    \/ HasSchemaMigrationsTable(p)
    \/ AssertTrustedMigrationBootstrap(p)
    \/ PlanMigrations(p)
    \/ ApplyMigration(p)
    \/ BackupRepairableLocalDatabase(p)
    \/ StartOperation(p)
    \/ WriteTemporaryFiles(p)
    \/ RenameFile(p)
    \/ CommitBuild(p)
    \/ ReleaseLock(p)
    \/ AbandonBuild(p)
    \/ InspectConfigRoot(p)
    \/ InspectSessionLocks(p)
    \/ ListRoot(p)
    \/ ListArtifacts(p)
    \/ UnlinkFile(p)
    \/ RemoveArtifactDir(p)
    \/ UnlinkConfig(p)
    \/ UnlinkDatabase(p)
    \/ UnlinkBackup(p)
    \/ RemoveRoot(p)

Next ==
    \/ \E p \in Procs, kind \in Kinds : Start(p, kind)
    \/ \E p \in Procs : Step(p)
    \/ \E p \in Procs : Die(p)
    \/ Break

LocalSpec == LocalInit /\ [][Next]_vars

\* A command that runs goes on until it ends or is killed.
FairLocalSpec == LocalSpec /\ \A p \in Procs : WF_vars(Step(p))

----------------------------------------------------------------------------
(* Properties *)

Linked == ({databaseFile} \ {0}) \cup {b.inode : b \in backups}

\* A directory that is gone has nothing in it, each backup has a name of its own,
\* and no inode has two names.
LocalTypeOK ==
    /\ ~root => RootEntries = {} /\ ~artifactDir
    /\ ~artifactDir => files = {}
    /\ configFile \in 0 .. Len(configs) /\ databaseFile \in 0 .. Len(databases)
    /\ \A a, b \in backups : a.name = b.name \/ a.inode = b.inode => a = b
    /\ \A b \in backups : b.inode \in DOMAIN databases /\ b.inode # databaseFile
    /\ \A n \in DOMAIN databases :
         databases[n].applied \in {1 .. k : k \in 0 .. LastMigration}

\* A command works on a database only with every migration applied to it, also
\* when an earlier one died between two migrations, two commands migrate at the
\* same time, or a repair has moved the file under its feet.
WorksOnWholeSchema ==
    \A p \in Procs :
        proc[p].at \in {"operation", "temp", "commit", "release"} \cup ToSet(Parts)
            => Db(p).applied = Migrations

\* As long as nobody purges, an artifact that was committed stays: its row in a
\* database that has a name, even one that a repair has moved away, and all of its
\* files.
CommittedIsKept ==
    \A n \in DOMAIN databases : \A artifact \in databases[n].rows :
        ~purging => /\ n \in Linked
                    /\ \A part \in ToSet(Parts) : [artifact |-> artifact, part |-> part] \in files

\* What status calls initialized: no error, a configuration, and no migration to do.
Initialized ==
    /\ ConfigIsOurs
    /\ databaseFile # 0
    /\ databases[databaseFile].broken = None
    /\ PlanPendingStorageMigrations(databases[databaseFile].applied) = {}

\* Whatever state earlier commands died in, an init or a compile that has the
\* project to itself leaves it initialized.
Recovers ==
    \A p \in Procs :
        Running(p) /\ Kind(p) \in {"init", "compile"}
            ~> (Initialized \/ ~proc[p].alone \/ At(p, "dead"))
=============================================================================
