------------------------- MODULE LocalProjectProofs -------------------------
(***************************************************************************)
(* Proofs about LocalProject, for any number of commands that run at a     *)
(* time, of starts and of migrations: a command works on a database only   *)
(* with its whole schema, and what was committed stays as long as nobody   *)
(* purges, whatever dies, repairs or migrates in between.                  *)
(***************************************************************************)
EXTENDS LocalProject, FiniteSetTheorems, TLAPS

\* The places of a command that works on its database, has it open, and deletes.
WorkPlaces == {"operation", "temp", "json", "markdown", "repository", "commit", "release"}
OpenPlaces == {"hasSchema", "isEmpty", "plan", "migrate"} \cup WorkPlaces
PurgePlaces == {"listArtifacts", "unlinkFiles", "unlink"}
FreePlaces == Ended \cup {"readConfig", "writeConfig", "create", "configured", "open", "repair",
                           "inspectConfig", "inspectLocks", "listRoot"}
Places == OpenPlaces \cup PurgePlaces \cup FreePlaces \cup {"fill"}

PartsOf == {"json", "markdown", "repository"}
FileOf(n, part) == [artifact |-> n, part |-> part]
Files == [artifact : Nat, part : PartsOf \cup {"temp"}]
Database == [broken : {None, "garbage", "foreign"}, applied : SUBSET Migrations,
             rows : SUBSET Nat, locks : SUBSET Nat]
BackupNames == {"invalid"} \X Nat \X Nat
Entries == Migrations \cup {<<"artifacts">>, <<"config">>, <<"database">>} \cup BackupNames
Command == [kind : Kinds \cup {None}, stamp : Nat, at : Places, setup : BOOLEAN,
            repaired : BOOLEAN, config : Nat, db : Nat, todo : SUBSET Entries,
            listed : SUBSET Files, alone : BOOLEAN]

DiskTyped ==
    /\ root \in BOOLEAN /\ artifactDir \in BOOLEAN /\ purging \in BOOLEAN
    /\ starts \in Nat
    /\ files \subseteq Files
    /\ configs \in Seq({"torn", "ours"})
    /\ databases \in Seq(Database)
    /\ backups \subseteq [name : BackupNames, inode : Nat] /\ IsFiniteSet(backups)

LocalTyped == DiskTyped /\ proc \in [Procs -> Command]

\* The parts of its artifact that a build has renamed when it is at a place.
Renamed(at) ==
    IF at = "markdown" THEN {"json"}
    ELSE IF at = "repository" THEN {"json", "markdown"}
    ELSE IF at = "commit" THEN PartsOf
    ELSE {}

\* What is true of a command where it is: the database it has opened is there; what
\* it has still to migrate are the last migrations, and all before them are applied;
\* it works only on a whole schema; and it has renamed what comes first.
CommandHolds(c) ==
    /\ c.at \in OpenPlaces => c.db \in DOMAIN databases
    /\ c.at = "fill" => c.config \in DOMAIN configs
    /\ c.at = "migrate" => \E j \in Migrations :
          c.todo = j .. LastMigration /\ 1 .. j - 1 \subseteq databases[c.db].applied
    /\ c.at \in WorkPlaces => databases[c.db].applied = Migrations
    /\ c.at \in PurgePlaces => purging
    /\ ~purging => \A part \in Renamed(c.at) : FileOf(c.stamp, part) \in files

CommandsHold == \A p \in Procs : CommandHolds(proc[p])

\* Nothing but a purge leaves a database without a name.
NamesStay == ~purging => DOMAIN databases \subseteq Linked

\* What is on the disk, and the inductive invariant.
DiskHolds == LocalTypeOK /\ NamesStay /\ CommittedIsKept
LocalInv == LocalTyped /\ DiskHolds /\ CommandsHold

----------------------------------------------------------------------------
(* Lemmas *)

\* The parts of an artifact, in their order.
LEMMA PartsInOrder ==
    /\ DOMAIN Parts = 1 .. 3 /\ Len(Parts) = 3
    /\ Parts[1] = "json" /\ Parts[2] = "markdown" /\ Parts[3] = "repository"
    /\ ToSet(Parts) = PartsOf
  <1>1. /\ DOMAIN Parts = 1 .. 3 /\ Len(Parts) = 3
        /\ Parts[1] = "json" /\ Parts[2] = "markdown" /\ Parts[3] = "repository"
    BY DEF Parts
  <1>2. 1 .. 3 = {1, 2, 3}
    OBVIOUS
  <1>3. ToSet(Parts) = {Parts[1], Parts[2], Parts[3]}
    BY <1>1, <1>2 DEF ToSet
  <1> QED BY <1>1, <1>3 DEF PartsOf

\* The disk does not shrink: databases, migrations, configurations and, unless
\* somebody purges, the files that were renamed stay.
Grows ==
    /\ DOMAIN databases \subseteq DOMAIN databases'
    /\ \A n \in DOMAIN databases : /\ databases[n].applied \subseteq databases'[n].applied
                                   /\ databases'[n].applied \subseteq Migrations
    /\ DOMAIN configs \subseteq DOMAIN configs'
    /\ purging => purging'
    /\ ~purging' => \A file \in files : file.part # "temp" => file \in files'

\* Then a command that does nothing stays where it was right to be.
LEMMA CommandStays ==
    ASSUME Grows, NEW c, CommandHolds(c), purging' \in BOOLEAN
    PROVE  CommandHolds(c)'
  <1>1. c.at \in OpenPlaces => c.db \in DOMAIN databases'
    BY DEF Grows, CommandHolds
  <1>2. c.at = "fill" => c.config \in DOMAIN configs'
    BY DEF Grows, CommandHolds
  <1>3. c.at = "migrate" => \E j \in Migrations :
          c.todo = j .. LastMigration /\ 1 .. j - 1 \subseteq databases'[c.db].applied
    BY DEF Grows, CommandHolds, OpenPlaces
  <1>4. c.at \in WorkPlaces => databases'[c.db].applied = Migrations
    BY DEF Grows, CommandHolds, OpenPlaces
  <1>5. c.at \in PurgePlaces => purging'
    BY DEF Grows, CommandHolds
  <1>6. ~purging' => \A part \in Renamed(c.at) : FileOf(c.stamp, part) \in files'
    <2>1. \A part \in Renamed(c.at) : FileOf(c.stamp, part).part # "temp"
      BY DEF Renamed, PartsOf, FileOf
    <2> QED BY <2>1 DEF Grows, CommandHolds
  <1> QED BY <1>1, <1>2, <1>3, <1>4, <1>5, <1>6 DEF CommandHolds

\* A step of one command: it is right where it goes, and the others stay.
LEMMA OneCommand ==
    ASSUME LocalInv, Grows, purging' \in BOOLEAN, NEW p \in Procs, NEW c \in Command,
           proc' = [proc EXCEPT ![p] = c], CommandHolds(c)'
    PROVE  CommandsHold' /\ proc' \in [Procs -> Command]
  <1>1. \A q \in Procs : proc'[q] = c \/ proc'[q] = proc[q]
    BY DEF LocalInv, LocalTyped, DiskTyped
  <1>2. ASSUME NEW q \in Procs
        PROVE  CommandHolds(proc[q])'
    <2>1. CASE proc'[q] = c
      BY <2>1 DEF CommandHolds
    <2>2. CASE proc'[q] = proc[q]
      <3>1. PICK d : d = proc[q]
        OBVIOUS
      <3>2. CommandHolds(d)'
        BY <3>1, CommandStays DEF LocalInv, CommandsHold
      <3> QED BY <2>2, <3>1, <3>2 DEF CommandHolds
    <2> QED BY <1>1, <2>1, <2>2
  <1>3. proc' \in [Procs -> Command]
    BY DEF LocalInv, LocalTyped, DiskTyped
  <1> QED BY <1>2, <1>3 DEF CommandsHold

\* A step that leaves the disk alone leaves what is true of it.
LEMMA DiskStays ==
    ASSUME LocalInv, UNCHANGED <<dirVars, files, configVars, databaseVars, purging>>
    PROVE  DiskHolds' /\ Grows /\ purging' \in BOOLEAN
  <1>1. DiskHolds'
    BY DEF LocalInv, DiskHolds, LocalTypeOK, NamesStay, CommittedIsKept, RootEntries, Linked,
           dirVars, configVars, databaseVars
  <1>2. Grows /\ purging' \in BOOLEAN
    <2>1. \A n \in DOMAIN databases : databases[n].applied \subseteq Migrations
      <3>1. \A n \in DOMAIN databases : databases[n] \in Database
        BY DEF LocalInv, LocalTyped, DiskTyped
      <3> QED BY <3>1 DEF Database
    <2> QED BY <2>1 DEF Grows, LocalInv, LocalTyped, DiskTyped, dirVars, configVars, databaseVars
  <1> QED BY <1>1, <1>2

\* So a command that only goes somewhere keeps the invariant if it is right there.
LEMMA OnlyGoes ==
    ASSUME LocalInv, UNCHANGED <<dirVars, files, configVars, databaseVars, starts, purging>>,
           NEW p \in Procs, NEW c \in Command,
           proc' = [proc EXCEPT ![p] = c], CommandHolds(c)
    PROVE  LocalInv'
  <1>1. DiskHolds' /\ Grows /\ purging' \in BOOLEAN
    BY DiskStays
  <1>2. CommandHolds(c)'
    BY <1>1, CommandStays
  <1>3. CommandsHold' /\ proc' \in [Procs -> Command]
    BY <1>1, <1>2, OneCommand
  <1>4. LocalTyped'
    BY <1>3 DEF LocalInv, LocalTyped, DiskTyped, dirVars, configVars, databaseVars
  <1> QED BY <1>1, <1>3, <1>4 DEF LocalInv

\* Where a command owes nothing.
LEMMA FreeHolds ==
    ASSUME NEW c, c.at \in FreePlaces
    PROVE  CommandHolds(c) /\ CommandHolds(c)'
  <1>1. /\ c.at \notin OpenPlaces /\ c.at # "fill" /\ c.at # "migrate"
        /\ c.at \notin WorkPlaces /\ c.at \notin PurgePlaces /\ Renamed(c.at) = {}
    BY DEF FreePlaces, Ended, OpenPlaces, WorkPlaces, PurgePlaces, Renamed
  <1> QED BY <1>1 DEF CommandHolds

\* A command that ends forgets what it knew.
LEMMA Ends ==
    ASSUME LocalInv, NEW p \in Procs, NEW how \in {"ended", "dead"}, End(p, how)
    PROVE  \E c \in Command : /\ proc' = [proc EXCEPT ![p] = c]
                              /\ CommandHolds(c) /\ CommandHolds(c)'
  <1>0. PICK c : c = [Idle EXCEPT !.at = how, !.alone = proc[p].alone]
    OBVIOUS
  <1>1. proc[p] \in Command /\ how \in Ended
    BY DEF LocalInv, LocalTyped, DiskTyped, Ended
  <1>2. c \in Command /\ c.at = how
    BY <1>0, <1>1 DEF Command, Idle, Places, FreePlaces
  <1>3. CommandHolds(c) /\ CommandHolds(c)'
    BY <1>1, <1>2, FreeHolds DEF FreePlaces
  <1> QED BY <1>0, <1>2, <1>3 DEF End

\* A command that goes on keeps what it knew.
LEMMA Goes ==
    ASSUME LocalInv, NEW p \in Procs, NEW place \in Places, Go(p, place)
    PROVE  \E c \in Command : /\ proc' = [proc EXCEPT ![p] = c]
                              /\ c = [proc[p] EXCEPT !.at = place]
                              /\ c.at = place /\ c.db = proc[p].db /\ c.stamp = proc[p].stamp
                              /\ c.config = proc[p].config /\ c.todo = proc[p].todo
  <1> DEFINE c == [proc[p] EXCEPT !.at = place]
  <1>1. proc[p] \in Command
    BY DEF LocalInv, LocalTyped, DiskTyped
  <1>2. c \in Command
    BY <1>1 DEF Command
  <1>3. /\ c.at = place /\ c.db = proc[p].db /\ c.stamp = proc[p].stamp
        /\ c.config = proc[p].config /\ c.todo = proc[p].todo
    BY <1>1 DEF Command
  <1> QED BY <1>2, <1>3 DEF Go

DiskUnchanged == UNCHANGED <<dirVars, files, configVars, databaseVars, starts, purging>>

\* Ending keeps the invariant.
LEMMA EndKeeps ==
    ASSUME LocalInv, DiskUnchanged, NEW p \in Procs, NEW how \in {"ended", "dead"}, End(p, how)
    PROVE  LocalInv'
  BY Ends, OnlyGoes DEF DiskUnchanged

\* Going to where nothing is owed keeps it too.
LEMMA FreeKeeps ==
    ASSUME LocalInv, DiskUnchanged, NEW p \in Procs, NEW place \in FreePlaces, Go(p, place)
    PROVE  LocalInv'
  <1>1. place \in Places
    BY DEF Places
  <1>2. PICK c \in Command : proc' = [proc EXCEPT ![p] = c] /\ c.at = place
    BY <1>1, Goes
  <1>3. CommandHolds(c)
    BY <1>2, FreeHolds
  <1> QED BY <1>2, <1>3, OnlyGoes DEF DiskUnchanged

\* Going on with the database that is open, before it is known to be migrated.
LEMMA OpenKeeps ==
    ASSUME LocalInv, DiskUnchanged, NEW p \in Procs, proc[p].at \in OpenPlaces,
           NEW place \in {"isEmpty", "plan"}, Go(p, place)
    PROVE  LocalInv'
  <1>1. place \in Places
    BY DEF Places, OpenPlaces
  <1>2. PICK c \in Command :
            proc' = [proc EXCEPT ![p] = c] /\ c.at = place /\ c.db = proc[p].db
    BY <1>1, Goes
  <1>3. c.db \in DOMAIN databases
    BY <1>2 DEF LocalInv, CommandsHold, CommandHolds
  <1>4. CommandHolds(c)
    BY <1>2, <1>3 DEF CommandHolds, OpenPlaces, WorkPlaces, PurgePlaces, Renamed
  <1> QED BY <1>2, <1>4, OnlyGoes DEF DiskUnchanged

\* The steps that only read.
LEMMA ReadersKeep ==
    ASSUME LocalInv, NEW p \in Procs,
           \/ WriteLocalProjectConfig(p) \/ HasSchemaMigrationsTable(p)
           \/ AssertTrustedMigrationBootstrap(p)
           \/ InspectConfigRoot(p) \/ InspectSessionLocks(p) \/ Die(p)
    PROVE  LocalInv'
  <1>1. CASE WriteLocalProjectConfig(p)
    <2>1. PICK place \in {"open", "create"} : Go(p, place)
      BY <1>1 DEF WriteLocalProjectConfig
    <2>2. place \in FreePlaces /\ DiskUnchanged
      BY <1>1 DEF FreePlaces, WriteLocalProjectConfig, DiskUnchanged, countVars
    <2> QED BY <2>1, <2>2, FreeKeeps
  <1>2. ASSUME Broken(p), DiskUnchanged PROVE LocalInv'
    <2>1. "repair" \in FreePlaces
      BY DEF FreePlaces
    <2> QED BY <1>2, <2>1, FreeKeeps, EndKeeps DEF Broken, Fail
  <1>3. CASE HasSchemaMigrationsTable(p)
    <2>1. DiskUnchanged /\ proc[p].at \in OpenPlaces
      BY <1>3 DEF HasSchemaMigrationsTable, DiskUnchanged, countVars, At, OpenPlaces
    <2>2. Broken(p) \/ \E place \in {"isEmpty", "plan"} : Go(p, place)
      BY <1>3 DEF HasSchemaMigrationsTable
    <2> QED BY <1>2, <2>1, <2>2, OpenKeeps
  <1>4. CASE AssertTrustedMigrationBootstrap(p)
    <2>1. DiskUnchanged /\ proc[p].at \in OpenPlaces
      BY <1>4 DEF AssertTrustedMigrationBootstrap, DiskUnchanged, countVars, At, OpenPlaces
    <2>2. Broken(p) \/ \E place \in {"isEmpty", "plan"} : Go(p, place)
      BY <1>4 DEF AssertTrustedMigrationBootstrap
    <2> QED BY <1>2, <2>1, <2>2, OpenKeeps
  <1>5. CASE InspectConfigRoot(p) \/ InspectSessionLocks(p)
    <2>1. End(p, "ended") \/ \E place \in {"inspectLocks", "listRoot"} : Go(p, place)
      BY <1>5 DEF InspectConfigRoot, InspectSessionLocks, Done, Fail
    <2>2. DiskUnchanged /\ {"inspectLocks", "listRoot"} \subseteq FreePlaces
      BY <1>5 DEF FreePlaces, InspectConfigRoot, InspectSessionLocks, DiskUnchanged,
                  PurgeUnchanged, configVars, databaseVars, dirVars
    <2> QED BY <2>1, <2>2, FreeKeeps, EndKeeps
  <1>6. CASE Die(p)
    <2>1. End(p, "dead") /\ DiskUnchanged
      BY <1>6 DEF Die, DiskUnchanged, countVars
    <2> QED BY <2>1, EndKeeps
  <1> QED BY <1>1, <1>3, <1>4, <1>5, <1>6

----------------------------------------------------------------------------
(* Setting up *)

\* What the invariant says of one command.
LEMMA CommandOf ==
    ASSUME LocalInv, NEW p \in Procs
    PROVE  proc[p] \in Command /\ CommandHolds(proc[p])
  BY DEF LocalInv, LocalTyped, DiskTyped, CommandsHold

\* Directories that are made are no harm to what is on the disk.
LEMMA LayoutHolds ==
    ASSUME LocalInv, root' = TRUE, artifactDir' = TRUE,
           UNCHANGED <<files, configVars, databaseVars, purging>>
    PROVE  DiskHolds' /\ Grows /\ purging' \in BOOLEAN
  <1>1. DiskHolds'
    BY DEF LocalInv, DiskHolds, LocalTypeOK, NamesStay, CommittedIsKept, Linked,
           configVars, databaseVars
  <1>2. \A n \in DOMAIN databases : databases[n] \in Database
    BY DEF LocalInv, LocalTyped, DiskTyped
  <1>3. \A n \in DOMAIN databases : databases[n].applied \subseteq Migrations
    BY <1>2 DEF Database
  <1> QED BY <1>1, <1>3 DEF Grows, LocalInv, LocalTyped, DiskTyped, configVars, databaseVars

\* The start of a command: the first free slot has a new one, and no command that
\* runs is alone any more.
LEMMA StartKeeps ==
    ASSUME LocalInv, NEW p \in Procs, NEW kind \in Kinds, Start(p, kind)
    PROVE  LocalInv'
  <1>0. PICK setup \in BOOLEAN, alone \in BOOLEAN :
            setup = (kind = "init") /\ alone = \A other \in Procs \ {p} : ~Running(other)
    BY Zenon
  <1>1. PICK c : c = [Idle EXCEPT !.kind = kind, !.stamp = starts + 1, !.at = FirstStep(kind),
                            !.setup = setup, !.alone = alone]
    OBVIOUS
  <1>2. /\ \A q \in Procs : proc'[q] = IF q = p THEN c ELSE [proc[q] EXCEPT !.alone = FALSE]
        /\ proc' = [q \in Procs |-> proc'[q]]
        /\ starts' = starts + 1
    <2>1. proc' = [q \in Procs |-> IF q = p THEN c ELSE [proc[q] EXCEPT !.alone = FALSE]]
      BY <1>0, <1>1, Zenon DEF Start
    <2> QED BY <2>1 DEF Start
  <1>3. FirstStep(kind) \in FreePlaces
    BY KindsAreCommands DEF FirstStep, FreePlaces
  <1>4. c \in Command /\ c.at \in FreePlaces
    <2>1. /\ c.kind = kind /\ c.stamp = starts + 1 /\ c.at = FirstStep(kind)
          /\ starts + 1 \in Nat /\ FirstStep(kind) \in Places
      BY <1>1, <1>3 DEF Idle, Places, LocalInv, LocalTyped, DiskTyped
    <2> QED BY <1>1, <1>3, <2>1 DEF Command, Idle
  <1>5. DiskHolds' /\ Grows /\ purging' \in BOOLEAN
    <2>1. UNCHANGED <<files, configVars, databaseVars, purging>>
      BY DEF Start
    <2>2. CASE kind = "purge"
      BY <2>1, <2>2, DiskStays DEF Start
    <2>3. CASE kind # "purge"
      BY <2>1, <2>3, LayoutHolds DEF Start, EnsureLocalProjectLayout
    <2> QED BY <2>2, <2>3
  <1>6. ASSUME NEW q \in Procs
        PROVE  proc'[q] \in Command /\ CommandHolds(proc[q])'
    <2>1. CASE q = p
      <3>1. proc'[q] = c
        BY <1>2, <2>1
      <3>2. CommandHolds(c)'
        BY <1>4, FreeHolds
      <3> QED BY <1>4, <3>1, <3>2 DEF CommandHolds
    <2>2. CASE q # p
      <3>1. PICK d : d = proc[q]
        OBVIOUS
      <3>2. d \in Command /\ CommandHolds(d)'
        BY <1>5, <3>1, CommandOf, CommandStays
      <3>3. proc'[q] = [d EXCEPT !.alone = FALSE]
        BY <1>2, <2>2, <3>1
      <3>4. /\ proc'[q] \in Command
            /\ proc'[q].at = d.at /\ proc'[q].db = d.db /\ proc'[q].config = d.config
            /\ proc'[q].todo = d.todo /\ proc'[q].stamp = d.stamp
        BY <3>2, <3>3 DEF Command
      <3> QED BY <3>2, <3>4 DEF CommandHolds
    <2> QED BY <2>1, <2>2
  <1>7. CommandsHold'
    BY <1>6 DEF CommandsHold
  <1>8. LocalTyped'
    <2>1. proc' \in [Procs -> Command]
      BY <1>2, <1>6
    <2>2. /\ UNCHANGED <<files, configVars, databaseVars, purging>>
          /\ UNCHANGED dirVars \/ (root' = TRUE /\ artifactDir' = TRUE)
      <3>1. CASE kind = "purge"
        <4>1. /\ UNCHANGED dirVars
              /\ UNCHANGED <<files, configVars, databaseVars, breaks, purging>>
          BY <3>1, Zenon DEF Start
        <4> QED BY <4>1
      <3>2. CASE kind # "purge"
        BY <3>2, Zenon DEF Start, EnsureLocalProjectLayout
      <3> QED BY <3>1, <3>2
    <2>3. root' \in BOOLEAN /\ artifactDir' \in BOOLEAN
      BY <2>2, Zenon DEF LocalInv, LocalTyped, DiskTyped, dirVars
    <2>4. starts' \in Nat
      BY <1>2 DEF LocalInv, LocalTyped, DiskTyped
    <2> QED BY <2>1, <2>2, <2>3, <2>4 DEF LocalInv, LocalTyped, DiskTyped, configVars, databaseVars
  <1> QED BY <1>5, <1>7, <1>8 DEF LocalInv

\* Making the layout on the way.
LEMMA LayoutKeeps ==
    ASSUME LocalInv, NEW p \in Procs,
           ReadConfig(p) \/ EnsureConfiguredLocalProjectLayout(p)
    PROVE  LocalInv'
  <1>1. PICK c \in Command : proc' = [proc EXCEPT ![p] = c] /\ c.at \in FreePlaces
    <2>1. {"configured", "open", "writeConfig", "ended"} \subseteq FreePlaces
          /\ FreePlaces \subseteq Places
      BY DEF FreePlaces, Places, Ended
    <2>2. \A place \in FreePlaces : Go(p, place) =>
              \E c \in Command : proc' = [proc EXCEPT ![p] = c] /\ c.at \in FreePlaces
      BY <2>1, Goes
    <2>3. Fail(p) => \E c \in Command : proc' = [proc EXCEPT ![p] = c] /\ c.at \in FreePlaces
      <3>1. PICK c : c = [Idle EXCEPT !.at = "ended", !.alone = proc[p].alone]
        OBVIOUS
      <3>2. c \in Command /\ c.at = "ended"
        BY <3>1, CommandOf DEF Command, Idle, Places, FreePlaces, Ended
      <3> QED BY <2>1, <3>1, <3>2 DEF Fail, End
    <2>4. PICK d : d = [proc[p] EXCEPT !.at = "writeConfig", !.setup = TRUE]
      OBVIOUS
    <2>5. d \in Command /\ d.at = "writeConfig"
      BY <2>1, <2>4, CommandOf DEF Command
    <2>6. \/ \E place \in FreePlaces : Go(p, place)
          \/ Fail(p)
          \/ proc' = [proc EXCEPT ![p] = d]
      BY <2>1, <2>4 DEF ReadConfig, EnsureConfiguredLocalProjectLayout
    <2> QED BY <2>1, <2>2, <2>3, <2>5, <2>6
  <1>2. CommandHolds(c)'
    BY <1>1, FreeHolds
  <1>3. /\ UNCHANGED <<files, configVars, databaseVars, starts, purging>>
        /\ UNCHANGED dirVars \/ (root' = TRUE /\ artifactDir' = TRUE)
    <2>1. CASE ReadConfig(p)
      <3>1. CASE ConfigIsOurs
        <4>1. UNCHANGED dirVars /\ UNCHANGED <<files, configVars, databaseVars, countVars>>
          BY <2>1, <3>1, Zenon DEF ReadConfig
        <4> QED BY <4>1 DEF countVars
      <3>2. CASE ~ConfigIsOurs
        BY <2>1, <3>2, Zenon DEF ReadConfig, EnsureLocalProjectLayout, countVars
      <3> QED BY <3>1, <3>2
    <2>2. CASE EnsureConfiguredLocalProjectLayout(p)
      BY <2>2 DEF EnsureConfiguredLocalProjectLayout, EnsureLocalProjectLayout, countVars
    <2> QED BY <2>1, <2>2
  <1>4. DiskHolds' /\ Grows /\ purging' \in BOOLEAN
    BY <1>3, DiskStays, LayoutHolds
  <1>5. CommandsHold' /\ proc' \in [Procs -> Command]
    BY <1>1, <1>2, <1>4, OneCommand
  <1>6. LocalTyped'
    BY <1>3, <1>5 DEF LocalInv, LocalTyped, DiskTyped, dirVars, configVars, databaseVars
  <1> QED BY <1>4, <1>5, <1>6 DEF LocalInv

\* A step of one command that leaves what is on the disk in order.
LEMMA DiskKeeps ==
    ASSUME LocalInv, Grows, DiskTyped', DiskHolds', NEW p \in Procs, NEW c \in Command,
           proc' = [proc EXCEPT ![p] = c], CommandHolds(c)'
    PROVE  LocalInv'
  <1>1. purging' \in BOOLEAN
    BY DEF DiskTyped
  <1>2. CommandsHold' /\ proc' \in [Procs -> Command]
    BY <1>1, OneCommand
  <1> QED BY <1>2 DEF LocalInv, LocalTyped

\* What is in the root directory.
LEMMA RootIsEmpty ==
    /\ RootEntries = {}
         <=> ~artifactDir /\ configFile = 0 /\ databaseFile = 0 /\ backups = {}
    /\ RootEntries' = {}
         <=> ~artifactDir' /\ configFile' = 0 /\ databaseFile' = 0 /\ backups' = {}
  BY DEF RootEntries

\* The records of the databases.
LEMMA DatabaseOf ==
    ASSUME LocalInv, NEW n \in DOMAIN databases
    PROVE  /\ databases[n] \in Database /\ n \in Nat \ {0}
           /\ databases[n].applied \subseteq Migrations
           /\ \E k \in 0 .. LastMigration : databases[n].applied = 1 .. k
  <1>1. databases[n] \in Database /\ n \in Nat \ {0}
    BY DEF LocalInv, LocalTyped, DiskTyped
  <1>2. databases[n].applied \subseteq Migrations
    BY <1>1 DEF Database
  <1>3. \E k \in 0 .. LastMigration : databases[n].applied = 1 .. k
    BY DEF LocalInv, DiskHolds, LocalTypeOK
  <1> QED BY <1>1, <1>2, <1>3

\* A configuration may be written where there is a root.
LEMMA ConfigHolds ==
    ASSUME LocalInv, UNCHANGED <<dirVars, files, databaseVars, starts, purging>>,
           configs' \in Seq({"torn", "ours"}), Len(configs) =< Len(configs'),
           configFile' \in 0 .. Len(configs'), root \/ configFile' = 0
    PROVE  DiskHolds' /\ DiskTyped' /\ Grows
  <1>1. LocalTypeOK'
    <2>1. ~root' => RootEntries' = {} /\ ~artifactDir'
      BY RootIsEmpty DEF LocalInv, DiskHolds, LocalTypeOK, dirVars, databaseVars
    <2> QED BY <2>1 DEF LocalInv, DiskHolds, LocalTypeOK, dirVars, databaseVars
  <1>2. NamesStay' /\ CommittedIsKept'
    BY DEF LocalInv, DiskHolds, NamesStay, CommittedIsKept, Linked, databaseVars
  <1>3. DiskTyped'
    BY DEF LocalInv, LocalTyped, DiskTyped, dirVars, databaseVars
  <1>4. Grows
    BY DatabaseOf DEF Grows, LocalInv, LocalTyped, DiskTyped, databaseVars
  <1> QED BY <1>1, <1>2, <1>3, <1>4 DEF DiskHolds

\* Writing the configuration.
LEMMA ConfigKeeps ==
    ASSUME LocalInv, NEW p \in Procs, CreateConfig(p) \/ FillConfig(p)
    PROVE  LocalInv'
  <1>0. /\ configs \in Seq({"torn", "ours"}) /\ configFile \in 0 .. Len(configs)
        /\ proc[p] \in Command /\ CommandHolds(proc[p])
        /\ root \/ configFile = 0
    BY CommandOf, RootIsEmpty DEF LocalInv, LocalTyped, DiskTyped, DiskHolds, LocalTypeOK
  <1>1. CASE CreateConfig(p) /\ ~root
    BY <1>1, EndKeeps DEF CreateConfig, DiskUnchanged, Fail, countVars, configVars
  <1>2. CASE CreateConfig(p) /\ root
    <2>1. PICK inode : inode = IF configFile # 0 THEN configFile ELSE Len(configs) + 1
      OBVIOUS
    <2>2. /\ configs' = IF configFile # 0 THEN [configs EXCEPT ![inode] = "torn"]
                        ELSE Append(configs, "torn")
          /\ configFile' = inode
          /\ proc' = [proc EXCEPT ![p].at = "fill", ![p].config = inode]
          /\ UNCHANGED <<dirVars, files, databaseVars, starts, purging>>
      BY <1>2, <2>1 DEF CreateConfig, countVars
    <2>3. /\ configs' \in Seq({"torn", "ours"}) /\ Len(configs) =< Len(configs')
          /\ inode \in DOMAIN configs' /\ inode \in Nat
          /\ configFile' \in 0 .. Len(configs')
      BY <1>0, <2>1, <2>2
    <2>4. DiskHolds' /\ DiskTyped' /\ Grows
      BY <1>2, <2>2, <2>3, ConfigHolds
    <2>5. PICK c : c = [proc[p] EXCEPT !.at = "fill", !.config = inode]
      OBVIOUS
    <2>6. c \in Command /\ c.at = "fill" /\ c.config = inode
      BY <1>0, <2>3, <2>5 DEF Command, Places
    <2>7. CommandHolds(c)'
      BY <2>3, <2>6 DEF CommandHolds, OpenPlaces, WorkPlaces, PurgePlaces, Renamed
    <2>8. proc' = [proc EXCEPT ![p] = c]
      BY <2>2, <2>5
    <2> QED BY <2>4, <2>6, <2>7, <2>8, DiskKeeps
  <1>3. CASE FillConfig(p)
    <2>1. /\ configs' = [configs EXCEPT ![proc[p].config] = "ours"]
          /\ configFile' = configFile
          /\ Go(p, "open")
          /\ UNCHANGED <<dirVars, files, databaseVars, starts, purging>>
      BY <1>3 DEF FillConfig, countVars
    <2>2. proc[p].config \in DOMAIN configs
      BY <1>0, <1>3 DEF FillConfig, At, CommandHolds
    <2>3. /\ configs' \in Seq({"torn", "ours"}) /\ Len(configs) =< Len(configs')
          /\ configFile' \in 0 .. Len(configs')
      BY <1>0, <2>1, <2>2
    <2>4. DiskHolds' /\ DiskTyped' /\ Grows
      BY <1>0, <2>1, <2>3, ConfigHolds
    <2>5. "open" \in FreePlaces /\ "open" \in Places
      BY DEF FreePlaces, Places
    <2>6. PICK c \in Command : proc' = [proc EXCEPT ![p] = c] /\ c.at = "open"
      BY <2>1, <2>5, Goes
    <2>7. CommandHolds(c)'
      BY <2>5, <2>6, FreeHolds
    <2> QED BY <2>4, <2>6, <2>7, DiskKeeps
  <1> QED BY <1>1, <1>2, <1>3

----------------------------------------------------------------------------
(* The database *)

\* Opening the database, which is made when there is none.
LEMMA OpenDatabaseKeeps ==
    ASSUME LocalInv, NEW p \in Procs, OpenDatabase(p)
    PROVE  LocalInv'
  <1>0. /\ databases \in Seq(Database) /\ databaseFile \in 0 .. Len(databases)
        /\ proc[p] \in Command
    BY CommandOf DEF LocalInv, LocalTyped, DiskTyped, DiskHolds, LocalTypeOK
  <1>1. CASE ~root
    BY <1>1, EndKeeps DEF OpenDatabase, DiskUnchanged, Fail, countVars, databaseVars
  <1>2. CASE root
    <2>1. PICK inode : inode = IF databaseFile # 0 THEN databaseFile ELSE Len(databases) + 1
      OBVIOUS
    <2>2. /\ databases' = IF databaseFile # 0 THEN databases
                          ELSE Append(databases, NewDatabase)
          /\ databaseFile' = inode /\ backups' = backups
          /\ proc' = [proc EXCEPT ![p].at = "hasSchema", ![p].db = inode]
          /\ UNCHANGED <<dirVars, files, configVars, starts, purging>>
      BY <1>2, <2>1 DEF OpenDatabase, countVars
    <2>3. inode \in DOMAIN databases' /\ inode \in Nat
      BY <1>0, <2>1, <2>2
    <2>4. DiskHolds' /\ DiskTyped' /\ Grows
      <3>1. CASE databaseFile # 0
        <4>1. UNCHANGED <<dirVars, files, configVars, databaseVars, purging>>
          BY <2>1, <2>2, <3>1 DEF databaseVars
        <4>2. DiskTyped'
          BY <2>2, <4>1 DEF LocalInv, LocalTyped, DiskTyped, dirVars, configVars, databaseVars
        <4> QED BY <4>1, <4>2, DiskStays
      <3>2. CASE databaseFile = 0
        <4>1. NewDatabase \in Database /\ NewDatabase.applied = {} /\ NewDatabase.rows = {}
          BY DEF NewDatabase, Database
        <4>2. /\ databases' \in Seq(Database) /\ Len(databases') = Len(databases) + 1
              /\ databaseFile' = Len(databases) + 1
              /\ databases'[Len(databases) + 1] = NewDatabase
              /\ \A n \in DOMAIN databases : databases'[n] = databases[n]
              /\ DOMAIN databases' = DOMAIN databases \cup {Len(databases) + 1}
          BY <1>0, <2>1, <2>2, <3>2, <4>1
        <4>3. LocalTypeOK'
          <5>1. \A n \in DOMAIN databases' :
                    databases'[n].applied \in {1 .. k : k \in 0 .. LastMigration}
            <6>1. {} = 1 .. 0 /\ 0 \in 0 .. LastMigration
              BY LastMigrationIsNatural
            <6> QED BY <4>1, <4>2, <6>1 DEF LocalInv, DiskHolds, LocalTypeOK
          <5>2. \A b \in backups : b.inode \in DOMAIN databases' /\ b.inode # databaseFile'
            BY <1>0, <4>2 DEF LocalInv, DiskHolds, LocalTypeOK
          <5> QED BY <1>2, <2>2, <4>2, <5>1, <5>2
                  DEF LocalInv, DiskHolds, LocalTypeOK, dirVars, configVars
        <4>4. Linked' = Linked \cup {Len(databases) + 1}
          BY <1>0, <2>2, <3>2, <4>2 DEF Linked
        <4>5. NamesStay'
          BY <2>2, <4>2, <4>4 DEF LocalInv, DiskHolds, NamesStay
        <4>6. CommittedIsKept'
          BY <2>2, <4>1, <4>2, <4>4 DEF LocalInv, DiskHolds, CommittedIsKept
        <4>7. DiskTyped'
          BY <2>2, <4>2 DEF LocalInv, LocalTyped, DiskTyped, dirVars, configVars
        <4>8. Grows
          BY <2>2, <4>2, DatabaseOf DEF Grows, configVars, LocalInv, LocalTyped, DiskTyped
        <4> QED BY <4>3, <4>5, <4>6, <4>7, <4>8 DEF DiskHolds
      <3> QED BY <3>1, <3>2
    <2>5. PICK c : c = [proc[p] EXCEPT !.at = "hasSchema", !.db = inode]
      OBVIOUS
    <2>6. c \in Command /\ c.at = "hasSchema" /\ c.db = inode
      BY <1>0, <2>3, <2>5 DEF Command, Places, OpenPlaces
    <2>7. CommandHolds(c)'
      BY <2>3, <2>6 DEF CommandHolds, OpenPlaces, WorkPlaces, PurgePlaces, Renamed
    <2>8. proc' = [proc EXCEPT ![p] = c]
      BY <2>2, <2>5
    <2> QED BY <2>4, <2>6, <2>7, <2>8, DiskKeeps
  <1> QED BY <1>1, <1>2

\* What is to be migrated is planned.
LEMMA PlanMigrationsKeeps ==
    ASSUME LocalInv, NEW p \in Procs, PlanMigrations(p)
    PROVE  LocalInv'
  <1>1. /\ proc[p] \in Command /\ CommandHolds(proc[p])
        /\ proc[p].db \in DOMAIN databases /\ proc[p].db \in Nat
    BY CommandOf DEF PlanMigrations, At, CommandHolds, OpenPlaces, Command
  <1>2. PICK k \in 0 .. LastMigration : databases[proc[p].db].applied = 1 .. k
    BY <1>1, DatabaseOf
  <1>3. PICK pending : pending = Migrations \ databases[proc[p].db].applied
    OBVIOUS
  <1>4. PICK place : place = IF pending = {} THEN "operation" ELSE "migrate"
    OBVIOUS
  <1>5. proc' = [proc EXCEPT ![p].todo = pending, ![p].at = place]
    BY <1>3, <1>4 DEF PlanMigrations, PlanPendingStorageMigrations, Db
  <1>6. pending = k + 1 .. LastMigration
    BY <1>2, <1>3, LastMigrationIsNatural DEF Migrations
  <1>7. PICK c : c = [proc[p] EXCEPT !.todo = pending, !.at = place]
    OBVIOUS
  <1>8. c \in Command /\ c.at = place /\ c.todo = pending /\ c.db = proc[p].db
    <2>1. pending \subseteq Entries /\ place \in Places
      BY <1>3, <1>4 DEF Entries, Places, OpenPlaces, WorkPlaces
    <2> QED BY <1>1, <1>7, <2>1 DEF Command
  <1>9. CommandHolds(c)
    <2>1. CASE pending = {}
      <3>1. databases[c.db].applied = Migrations
        BY <1>1, <1>3, <1>8, <2>1, DatabaseOf
      <3> QED BY <1>1, <1>4, <1>8, <2>1, <3>1
              DEF CommandHolds, OpenPlaces, WorkPlaces, PurgePlaces, Renamed
    <2>2. CASE pending # {}
      <3>1. k + 1 \in Migrations /\ 1 .. (k + 1) - 1 \subseteq databases[c.db].applied
        BY <1>2, <1>6, <1>8, <2>2, LastMigrationIsNatural DEF Migrations
      <3> QED BY <1>1, <1>4, <1>6, <1>8, <2>2, <3>1
              DEF CommandHolds, OpenPlaces, WorkPlaces, PurgePlaces, Renamed
    <2> QED BY <2>1, <2>2
  <1>10. DiskUnchanged /\ proc' = [proc EXCEPT ![p] = c]
    BY <1>5, <1>7 DEF PlanMigrations, DiskUnchanged, countVars
  <1> QED BY <1>8, <1>9, <1>10, OnlyGoes DEF DiskUnchanged

\* One database is written, and files: migrations are only added, in their order; a
\* new row has the files of its artifact; nothing but temporary files is removed.
LEMMA DatabaseHolds ==
    ASSUME LocalInv,
           UNCHANGED <<dirVars, configVars, databaseFile, backups, starts, purging>>,
           NEW n \in DOMAIN databases, NEW d \in Database,
           databases' = [databases EXCEPT ![n] = d],
           databases[n].applied \subseteq d.applied,
           d.applied \in {1 .. k : k \in 0 .. LastMigration},
           files' \subseteq Files, ~artifactDir => files' = {},
           \A file \in files : file.part # "temp" => file \in files',
           ~purging => \A a \in d.rows : \/ a \in databases[n].rows
                                         \/ \A part \in PartsOf : FileOf(a, part) \in files'
    PROVE  DiskHolds' /\ DiskTyped' /\ Grows
  <1>1. /\ databases' \in Seq(Database) /\ Len(databases') = Len(databases)
        /\ DOMAIN databases' = DOMAIN databases
        /\ databases'[n] = d /\ \A m \in DOMAIN databases : m # n => databases'[m] = databases[m]
    BY DEF LocalInv, LocalTyped, DiskTyped
  <1>2. LocalTypeOK'
    <2>1. \A m \in DOMAIN databases' :
              databases'[m].applied \in {1 .. k : k \in 0 .. LastMigration}
      BY <1>1 DEF LocalInv, DiskHolds, LocalTypeOK
    <2>2. ~root' => RootEntries' = {} /\ ~artifactDir'
      BY RootIsEmpty DEF LocalInv, DiskHolds, LocalTypeOK, dirVars, configVars
    <2> QED BY <1>1, <2>1, <2>2 DEF LocalInv, DiskHolds, LocalTypeOK, dirVars, configVars
  <1>3. Linked' = Linked
    BY DEF Linked
  <1>4. NamesStay'
    BY <1>1, <1>3 DEF LocalInv, DiskHolds, NamesStay
  <1>5. CommittedIsKept'
    <2> SUFFICES ASSUME NEW m \in DOMAIN databases', NEW a \in databases'[m].rows, ~purging
                 PROVE  /\ m \in Linked
                        /\ \A part \in PartsOf : FileOf(a, part) \in files'
      BY <1>3, PartsInOrder DEF CommittedIsKept, FileOf
    <2>1. m \in Linked
      BY <1>1 DEF LocalInv, DiskHolds, NamesStay
    <2>2. a \in databases[m].rows \/ \A part \in PartsOf : FileOf(a, part) \in files'
      BY <1>1
    <2>3. ASSUME a \in databases[m].rows, NEW part \in PartsOf
          PROVE  FileOf(a, part) \in files'
      <3>1. FileOf(a, part) \in files
        BY <1>1, <2>3, PartsInOrder DEF LocalInv, DiskHolds, CommittedIsKept, FileOf
      <3>2. FileOf(a, part).part # "temp"
        BY DEF FileOf, PartsOf
      <3> QED BY <3>1, <3>2
    <2> QED BY <2>1, <2>2, <2>3
  <1>6. DiskTyped'
    BY <1>1 DEF LocalInv, LocalTyped, DiskTyped, dirVars, configVars
  <1>7. Grows
    <2>1. \A m \in DOMAIN databases : /\ databases[m].applied \subseteq databases'[m].applied
                                      /\ databases'[m].applied \subseteq Migrations
      BY <1>1, DatabaseOf DEF Database
    <2> QED BY <1>1, <2>1 DEF Grows, configVars
  <1> QED BY <1>2, <1>4, <1>5, <1>6, <1>7 DEF DiskHolds

\* The minimum of an interval.
LEMMA MinOfInterval ==
    ASSUME NEW j \in Nat, NEW k \in Nat, j =< k
    PROVE  Min(j .. k) = j
  <1>1. j \in j .. k /\ \A y \in j .. k : j =< y
    OBVIOUS
  <1>2. \A x \in j .. k : (\A y \in j .. k : x =< y) => x = j
    BY <1>1
  <1> QED BY <1>1, <1>2, Zenon DEF Min

\* A migration is applied.
LEMMA ApplyMigrationKeeps ==
    ASSUME LocalInv, NEW p \in Procs, ApplyMigration(p)
    PROVE  LocalInv'
  <1>1. /\ proc[p] \in Command /\ CommandHolds(proc[p]) /\ proc[p].at = "migrate"
        /\ proc[p].db \in DOMAIN databases
    BY CommandOf DEF ApplyMigration, At, CommandHolds, OpenPlaces
  <1>2. PICK j \in Migrations : /\ proc[p].todo = j .. LastMigration
                                /\ 1 .. j - 1 \subseteq databases[proc[p].db].applied
    BY <1>1 DEF CommandHolds
  <1>3. Min(proc[p].todo) = j /\ j \in Nat \ {0} /\ j =< LastMigration
    BY <1>2, MinOfInterval, LastMigrationIsNatural DEF Migrations
  <1>4. PICK db : db = databases[proc[p].db]
    OBVIOUS
  <1>5. CASE j \in db.applied
    <2>1. Fail(p) /\ UNCHANGED databases
      BY <1>3, <1>4, <1>5 DEF ApplyMigration, Db
    <2>2. DiskUnchanged
      BY <2>1 DEF ApplyMigration, DiskUnchanged, countVars, databaseVars
    <2> QED BY <2>1, <2>2, EndKeeps DEF Fail
  <1>6. CASE j \notin db.applied
    <2>1. PICK place : place = IF proc[p].todo = {j} THEN "operation" ELSE "migrate"
      OBVIOUS
    <2>2. PICK d : d = [db EXCEPT !.applied = @ \cup {j}]
      OBVIOUS
    <2>3. PICK c : c = [proc[p] EXCEPT !.todo = @ \ {j}, !.at = place]
      OBVIOUS
    <2>4. /\ databases' = [databases EXCEPT ![proc[p].db] = d]
          /\ proc' = [proc EXCEPT ![p] = c]
          /\ UNCHANGED <<dirVars, files, configVars, databaseFile, backups, starts, purging>>
      BY <1>3, <1>4, <1>6, <2>1, <2>2, <2>3 DEF ApplyMigration, Db, countVars
    <2>5. /\ d \in Database /\ d.applied = db.applied \cup {j} /\ d.rows = db.rows
          /\ db \in Database
      BY <1>1, <1>2, <1>4, <2>2, DatabaseOf DEF Database
    <2>6. d.applied = 1 .. j
      <3>1. PICK k \in 0 .. LastMigration : db.applied = 1 .. k
        BY <1>1, <1>4, DatabaseOf
      <3> QED BY <1>2, <1>3, <1>4, <1>6, <2>5, <3>1
    <2>7. DiskHolds' /\ DiskTyped' /\ Grows
      <3>1. d.applied \in {1 .. k : k \in 0 .. LastMigration}
        BY <1>3, <2>6, LastMigrationIsNatural
      <3>2. files' \subseteq Files /\ (~artifactDir => files' = {})
        BY <2>4 DEF LocalInv, LocalTyped, DiskTyped, DiskHolds, LocalTypeOK
      <3> QED BY <1>1, <1>4, <2>4, <2>5, <3>1, <3>2, DatabaseHolds
    <2>8. /\ c \in Command /\ c.at = place /\ c.db = proc[p].db
          /\ c.todo = proc[p].todo \ {j}
      BY <1>1, <2>1, <2>3 DEF Command, Places, OpenPlaces, WorkPlaces
    <2>9. /\ c.db \in DOMAIN databases' /\ databases'[c.db].applied = 1 .. j
          /\ c.todo = j + 1 .. LastMigration
      BY <1>1, <1>2, <1>3, <2>4, <2>6, <2>8, LastMigrationIsNatural
         DEF LocalInv, LocalTyped, DiskTyped
    <2>10. CommandHolds(c)'
      <3>1. CASE j = LastMigration
        <4>1. place = "operation"
          BY <1>2, <1>3, <2>1, <3>1
        <4>2. databases'[c.db].applied = Migrations
          BY <2>9, <3>1 DEF Migrations
        <4> QED BY <2>8, <2>9, <4>1, <4>2
                DEF CommandHolds, OpenPlaces, WorkPlaces, PurgePlaces, Renamed
      <3>2. CASE j # LastMigration
        <4>1. j + 1 \in proc[p].todo /\ j + 1 \in Migrations
          BY <1>2, <1>3, <3>2, LastMigrationIsNatural DEF Migrations
        <4>2. place = "migrate"
          BY <2>1, <4>1, <1>3
        <4>3. 1 .. (j + 1) - 1 \subseteq databases'[c.db].applied
          BY <1>3, <2>9
        <4> QED BY <2>8, <2>9, <4>1, <4>2, <4>3
                DEF CommandHolds, OpenPlaces, WorkPlaces, PurgePlaces, Renamed
      <3> QED BY <3>1, <3>2
    <2> QED BY <2>4, <2>7, <2>8, <2>10, DiskKeeps
  <1> QED BY <1>5, <1>6

\* Of the numbers up to the size of a set, one is not in it.
LEMMA FreeNumber ==
    ASSUME NEW used, IsFiniteSet(used)
    PROVE  \E i \in 0 .. Cardinality(used) : i \notin used
  <1>1. Cardinality(used) \in Nat
    BY FS_CardinalityType
  <1>2. SUFFICES ASSUME 0 .. Cardinality(used) \subseteq used
                 PROVE  FALSE
    OBVIOUS
  <1>3. Cardinality(0 .. Cardinality(used)) = Cardinality(used) + 1
    BY <1>1, FS_Interval
  <1>4. Cardinality(0 .. Cardinality(used)) =< Cardinality(used)
    BY <1>2, FS_Subset
  <1> QED BY <1>1, <1>3, <1>4

\* The name of a backup is a name that no backup has.
LEMMA BackupIsNew ==
    ASSUME LocalInv, NEW p \in Procs
    PROVE  /\ Backup(p).name \in BackupNames /\ Backup(p).inode = databaseFile
           /\ \A b \in backups : b.name # Backup(p).name
  <1>1. /\ backups \subseteq [name : BackupNames, inode : Nat] /\ IsFiniteSet(backups)
        /\ proc[p].stamp \in Nat
    BY CommandOf DEF LocalInv, LocalTyped, DiskTyped, Command
  <1>2. PICK same : same = {c \in backups : c.name[2] = proc[p].stamp}
    OBVIOUS
  <1>3. PICK used : used = {b.name[3] : b \in same}
    OBVIOUS
  <1>4. IsFiniteSet(used)
    <2>1. IsFiniteSet(same)
      BY <1>1, <1>2, FS_Subset
    <2>2. [b \in same |-> b.name[3]] \in Surjection(same, used)
      BY <1>3 DEF Surjection
    <2> QED BY <2>1, <2>2, FS_Surjection
  <1>5. PICK i : i = CHOOSE k \in 0 .. Cardinality(used) : k \notin used
    OBVIOUS
  <1>6. i \in 0 .. Cardinality(used) /\ i \notin used /\ i \in Nat
    BY <1>4, <1>5, FreeNumber, FS_CardinalityType
  <1>7. Backup(p) = [name |-> <<"invalid", proc[p].stamp, i>>, inode |-> databaseFile]
    BY <1>2, <1>3, <1>5 DEF Backup
  <1>8. \A b \in backups : b.name # Backup(p).name
    BY <1>1, <1>2, <1>3, <1>6, <1>7 DEF BackupNames
  <1> QED BY <1>1, <1>6, <1>7, <1>8 DEF BackupNames

\* A database that cannot be used is moved away.
LEMMA RepairKeeps ==
    ASSUME LocalInv, NEW p \in Procs, BackupRepairableLocalDatabase(p)
    PROVE  LocalInv'
  <1>1. CASE databaseFile = 0
    BY <1>1, EndKeeps DEF BackupRepairableLocalDatabase, DiskUnchanged, Fail, countVars,
                          databaseVars
  <1>2. CASE databaseFile # 0
    <2>1. PICK b : b = Backup(p)
      OBVIOUS
    <2>2. /\ backups' = backups \cup {b} /\ databaseFile' = 0
          /\ proc' = [proc EXCEPT ![p].at = "open", ![p].repaired = TRUE]
          /\ UNCHANGED <<dirVars, files, configVars, databases, starts, purging>>
      BY <1>2, <2>1 DEF BackupRepairableLocalDatabase, countVars
    <2>3. /\ b.name \in BackupNames /\ b.inode = databaseFile
          /\ b \in [name : BackupNames, inode : Nat]
          /\ \A a \in backups : a.name # b.name /\ a.inode # b.inode
      <3>1. databaseFile \in Nat /\ \A a \in backups : a.inode # databaseFile
        BY DEF LocalInv, DiskHolds, LocalTypeOK
      <3>2. b = [name |-> b.name, inode |-> b.inode]
        BY <2>1 DEF Backup
      <3> QED BY <2>1, <3>1, <3>2, BackupIsNew
    <2>4. root /\ databaseFile \in DOMAIN databases
      BY <1>2, RootIsEmpty DEF LocalInv, LocalTyped, DiskTyped, DiskHolds, LocalTypeOK
    <2>5. LocalTypeOK'
      <3>1. \A x, y \in backups' : x.name = y.name \/ x.inode = y.inode => x = y
        BY <2>2, <2>3 DEF LocalInv, DiskHolds, LocalTypeOK
      <3>2. \A x \in backups' : x.inode \in DOMAIN databases' /\ x.inode # databaseFile'
        BY <2>2, <2>3, <2>4, DatabaseOf DEF LocalInv, DiskHolds, LocalTypeOK
      <3>3. databaseFile' \in 0 .. Len(databases')
        BY <2>2 DEF LocalInv, LocalTyped, DiskTyped
      <3> QED BY <2>2, <2>4, <3>1, <3>2, <3>3
              DEF LocalInv, DiskHolds, LocalTypeOK, dirVars, configVars
    <2>6. Linked' = Linked
      BY <1>2, <2>2, <2>3 DEF Linked
    <2>7. NamesStay' /\ CommittedIsKept'
      BY <2>2, <2>6 DEF LocalInv, DiskHolds, NamesStay, CommittedIsKept
    <2>8. DiskTyped'
      <3>1. IsFiniteSet(backups')
        BY <2>2, FS_AddElement DEF LocalInv, LocalTyped, DiskTyped
      <3> QED BY <2>2, <2>3, <3>1 DEF LocalInv, LocalTyped, DiskTyped, dirVars, configVars
    <2>9. Grows
      BY <2>2, DatabaseOf DEF Grows, LocalInv, LocalTyped, DiskTyped, configVars
    <2>10. PICK c : c = [proc[p] EXCEPT !.at = "open", !.repaired = TRUE]
      OBVIOUS
    <2>11. c \in Command /\ c.at \in FreePlaces
      BY <2>10, CommandOf DEF Command, Places, FreePlaces
    <2>12. CommandHolds(c)' /\ proc' = [proc EXCEPT ![p] = c]
      BY <2>2, <2>10, <2>11, FreeHolds
    <2> QED BY <2>5, <2>7, <2>8, <2>9, <2>11, <2>12, DiskKeeps DEF DiskHolds
  <1> QED BY <1>1, <1>2

----------------------------------------------------------------------------
(* The operation *)

\* Only files are written.
LEMMA FilesHold ==
    ASSUME LocalInv, UNCHANGED <<dirVars, configVars, databaseVars, starts, purging>>,
           files' \subseteq Files, ~artifactDir => files' = {},
           \A file \in files : file.part # "temp" => file \in files'
    PROVE  DiskHolds' /\ DiskTyped' /\ Grows
  <1>1. LocalTypeOK'
    BY RootIsEmpty DEF LocalInv, DiskHolds, LocalTypeOK, dirVars, configVars, databaseVars
  <1>2. NamesStay' /\ Linked' = Linked
    BY DEF LocalInv, DiskHolds, NamesStay, Linked, databaseVars
  <1>3. CommittedIsKept'
    <2>1. \A a, part : part \in PartsOf =>
              FileOf(a, part).part # "temp" /\ FileOf(a, part) = [artifact |-> a, part |-> part]
      BY DEF FileOf, PartsOf
    <2> QED BY <1>2, <2>1, PartsInOrder DEF LocalInv, DiskHolds, CommittedIsKept, databaseVars
  <1>4. DiskTyped'
    BY DEF LocalInv, LocalTyped, DiskTyped, dirVars, configVars, databaseVars
  <1>5. Grows
    BY DatabaseOf DEF Grows, LocalInv, LocalTyped, DiskTyped, configVars, databaseVars
  <1> QED BY <1>1, <1>2, <1>3, <1>4, <1>5 DEF DiskHolds

\* A build that fails leaves only the files that it has renamed.
LEMMA RollbackKeeps ==
    ASSUME LocalInv, NEW p \in Procs, Rollback(p),
           UNCHANGED <<dirVars, configVars, databaseVars, starts, purging>>
    PROVE  LocalInv'
  <1>1. /\ files' \subseteq Files /\ (~artifactDir => files' = {})
        /\ \A file \in files : file.part # "temp" => file \in files'
    <2>1. files' = files \ {File(p, "temp")} /\ File(p, "temp").part = "temp"
      BY DEF Rollback, File
    <2> QED BY <2>1 DEF LocalInv, LocalTyped, DiskTyped, DiskHolds, LocalTypeOK
  <1>2. DiskHolds' /\ DiskTyped' /\ Grows
    BY <1>1, FilesHold
  <1>3. PICK c \in Command : proc' = [proc EXCEPT ![p] = c] /\ CommandHolds(c)'
    BY Ends DEF Rollback, Fail
  <1> QED BY <1>2, <1>3, DiskKeeps

\* The operation starts, or is over.
LEMMA StartOperationKeeps ==
    ASSUME LocalInv, NEW p \in Procs, StartOperation(p)
    PROVE  LocalInv'
  <1>1. /\ proc[p] \in Command /\ CommandHolds(proc[p]) /\ proc[p].at = "operation"
        /\ proc[p].db \in DOMAIN databases
    BY CommandOf DEF StartOperation, At, CommandHolds, OpenPlaces, WorkPlaces
  <1>2. DiskUnchanged
    BY DEF StartOperation, DiskUnchanged, countVars
  <1>3. CASE Kind(p) # "compile"
    BY <1>2, <1>3, EndKeeps DEF StartOperation, Done
  <1>4. CASE Kind(p) = "compile" /\ ~proc[p].setup
    <2>1. "temp" \in Places
      BY DEF Places, OpenPlaces, WorkPlaces
    <2>2. PICK c \in Command :
              proc' = [proc EXCEPT ![p] = c] /\ c.at = "temp" /\ c.db = proc[p].db
      BY <1>4, <2>1, Goes DEF StartOperation
    <2>3. databases[c.db].applied = Migrations
      BY <1>1, <2>2 DEF CommandHolds, WorkPlaces
    <2>4. CommandHolds(c)
      BY <1>1, <2>2, <2>3 DEF CommandHolds, OpenPlaces, WorkPlaces, PurgePlaces, Renamed
    <2> QED BY <1>2, <2>2, <2>4, OnlyGoes DEF DiskUnchanged
  <1>5. CASE Kind(p) = "compile" /\ proc[p].setup
    <2>1. PICK c : c = [proc[p] EXCEPT !.setup = FALSE, !.repaired = FALSE,
                                       !.config = 0, !.at = "configured"]
      OBVIOUS
    <2>2. c \in Command /\ c.at \in FreePlaces
      BY <1>1, <2>1 DEF Command, Places, FreePlaces
    <2>3. proc' = [proc EXCEPT ![p] = c]
      BY <1>5, <2>1 DEF StartOperation
    <2> QED BY <1>2, <2>2, <2>3, FreeHolds, OnlyGoes DEF DiskUnchanged
  <1> QED BY <1>1, <1>3, <1>4, <1>5 DEF Command

\* The files of a build: the temporary ones, and then each part.
LEMMA WriteTemporaryFilesKeeps ==
    ASSUME LocalInv, NEW p \in Procs, WriteTemporaryFiles(p)
    PROVE  LocalInv'
  <1>1. /\ proc[p] \in Command /\ CommandHolds(proc[p]) /\ proc[p].at = "temp"
        /\ proc[p].db \in DOMAIN databases
    BY CommandOf DEF WriteTemporaryFiles, At, CommandHolds, OpenPlaces, WorkPlaces
  <1>2. CASE ~artifactDir
    BY <1>2, RollbackKeeps DEF WriteTemporaryFiles, countVars
  <1>3. CASE artifactDir
    <2>1. /\ files' = files \cup {File(p, "temp")} /\ Go(p, "json")
          /\ UNCHANGED <<dirVars, configVars, databaseVars, starts, purging>>
      BY <1>3 DEF WriteTemporaryFiles, countVars
    <2>2. File(p, "temp") \in Files
      BY <1>1 DEF File, Files, Command
    <2>3. DiskHolds' /\ DiskTyped' /\ Grows
      BY <1>3, <2>1, <2>2, FilesHold DEF LocalInv, LocalTyped, DiskTyped
    <2>4. "json" \in Places
      BY DEF Places, OpenPlaces, WorkPlaces
    <2>5. PICK c \in Command :
              proc' = [proc EXCEPT ![p] = c] /\ c.at = "json" /\ c.db = proc[p].db
      BY <2>1, <2>4, Goes
    <2>6. c.db \in DOMAIN databases' /\ databases'[c.db].applied = Migrations
      BY <1>1, <2>1, <2>5 DEF CommandHolds, WorkPlaces, databaseVars
    <2>7. CommandHolds(c)'
      BY <2>5, <2>6 DEF CommandHolds, OpenPlaces, WorkPlaces, PurgePlaces, Renamed
    <2> QED BY <2>3, <2>5, <2>7, DiskKeeps
  <1> QED BY <1>2, <1>3

\* One part is renamed.
LEMMA RenameFileKeeps ==
    ASSUME LocalInv, NEW p \in Procs, RenameFile(p)
    PROVE  LocalInv'
  <1>1. PICK i \in 1 .. 3 :
            /\ At(p, Parts[i])
            /\ IF ~artifactDir \/ File(p, "temp") \notin files THEN Rollback(p)
               ELSE IF i < 3
               THEN files' = files \cup {File(p, Parts[i])} /\ Go(p, Parts[i + 1])
               ELSE /\ files' = (files \cup {File(p, Parts[i])}) \ {File(p, "temp")}
                    /\ Go(p, "commit")
            /\ UNCHANGED <<dirVars, configVars, databaseVars, countVars>>
    BY PartsInOrder, Zenon DEF RenameFile
  <1>2. PICK part : part = Parts[i]
    OBVIOUS
  <1>3. /\ proc[p] \in Command /\ CommandHolds(proc[p]) /\ proc[p].at = part
        /\ part \in PartsOf /\ part \in WorkPlaces
        /\ proc[p].db \in DOMAIN databases
    <2>1. part \in PartsOf /\ part \in WorkPlaces /\ part \in OpenPlaces
      BY <1>2, PartsInOrder DEF PartsOf, WorkPlaces, OpenPlaces
    <2> QED BY <1>1, <1>2, <2>1, CommandOf DEF At, CommandHolds
  <1>4. UNCHANGED <<dirVars, configVars, databaseVars, starts, purging>>
    BY <1>1 DEF countVars
  <1>5. CASE ~artifactDir \/ File(p, "temp") \notin files
    BY <1>1, <1>4, <1>5, RollbackKeeps
  <1>6. CASE artifactDir /\ File(p, "temp") \in files
    <2>1. PICK place : place = IF i < 3 THEN Parts[i + 1] ELSE "commit"
      OBVIOUS
    <2>2. /\ Go(p, place)
          /\ \/ files' = files \cup {File(p, part)}
             \/ files' = (files \cup {File(p, part)}) \ {File(p, "temp")}
      BY <1>1, <1>2, <1>6, <2>1
    <2>3. /\ File(p, part) \in Files /\ File(p, part).part # "temp"
          /\ File(p, "temp").part = "temp" /\ File(p, part) = FileOf(proc[p].stamp, part)
      BY <1>3 DEF File, Files, Command, PartsOf, FileOf
    <2>4. /\ files' \subseteq Files
          /\ \A file \in files \cup {File(p, part)} : file.part # "temp" => file \in files'
      BY <2>2, <2>3 DEF LocalInv, LocalTyped, DiskTyped
    <2>6. DiskHolds' /\ DiskTyped' /\ Grows
      BY <1>4, <1>6, <2>4, FilesHold
    <2>7. /\ place \in Places /\ place \in WorkPlaces
          /\ Renamed(place) \subseteq Renamed(part) \cup {part}
      <3>1. CASE i = 1
        BY <1>2, <2>1, <3>1, PartsInOrder
           DEF Places, OpenPlaces, WorkPlaces, Renamed
      <3>2. CASE i = 2
        BY <1>2, <2>1, <3>2, PartsInOrder
           DEF Places, OpenPlaces, WorkPlaces, Renamed
      <3>3. CASE i = 3
        BY <1>2, <2>1, <3>3, PartsInOrder
           DEF Places, OpenPlaces, WorkPlaces, Renamed, PartsOf
      <3> QED BY <3>1, <3>2, <3>3
    <2>8. PICK c \in Command :
              /\ proc' = [proc EXCEPT ![p] = c] /\ c.at = place /\ c.db = proc[p].db
              /\ c.stamp = proc[p].stamp
      BY <2>2, <2>7, Goes
    <2>9. c.db \in DOMAIN databases' /\ databases'[c.db].applied = Migrations
      BY <1>3, <1>4, <2>8 DEF CommandHolds, databaseVars
    <2>10. ~purging' => \A q \in Renamed(place) : FileOf(c.stamp, q) \in files'
      <3>1. \A q \in Renamed(part) : FileOf(c.stamp, q).part # "temp"
        BY DEF FileOf, Renamed, PartsOf
      <3>2. ~purging => \A q \in Renamed(part) : FileOf(c.stamp, q) \in files
        BY <1>3, <2>8 DEF CommandHolds
      <3>3. FileOf(c.stamp, part) \in files'
        BY <2>3, <2>4, <2>8
      <3> QED BY <1>4, <2>4, <2>7, <3>1, <3>2, <3>3
    <2>11. place # "fill" /\ place # "migrate" /\ place \notin PurgePlaces
      BY <2>7 DEF WorkPlaces, PurgePlaces
    <2>12. CommandHolds(c)'
      BY <2>8, <2>9, <2>10, <2>11 DEF CommandHolds
    <2> QED BY <2>6, <2>8, <2>12, DiskKeeps
  <1> QED BY <1>5, <1>6

\* The end of a build: with its lock, it commits.
LEMMA BuildEndKeeps ==
    ASSUME LocalInv, NEW p \in Procs, CommitBuild(p) \/ AbandonBuild(p)
    PROVE  LocalInv'
  <1>1. /\ proc[p] \in Command /\ CommandHolds(proc[p]) /\ proc[p].at = "commit"
        /\ proc[p].db \in DOMAIN databases
    BY CommandOf DEF CommitBuild, AbandonBuild, At, CommandHolds, OpenPlaces, WorkPlaces
  <1>2. CASE AbandonBuild(p)
    BY <1>2, RollbackKeeps DEF AbandonBuild, countVars
  <1>3. CASE CommitBuild(p)
    <2>1. PICK db : db = databases[proc[p].db]
      OBVIOUS
    <2>2. PICK d : d = [db EXCEPT !.rows = @ \cup {proc[p].stamp},
                                  !.locks = @ \cup {proc[p].stamp}]
      OBVIOUS
    <2>3. /\ databases' = [databases EXCEPT ![proc[p].db] = d] /\ Go(p, "release")
          /\ UNCHANGED <<dirVars, files, configVars, databaseFile, backups, starts, purging>>
      BY <1>3, <2>1, <2>2 DEF CommitBuild, countVars
    <2>4. /\ db \in Database /\ d \in Database /\ d.applied = db.applied
          /\ d.rows = db.rows \cup {proc[p].stamp}
          /\ db.applied \in {1 .. k : k \in 0 .. LastMigration}
      <3>1. db \in Database /\ db.applied \in {1 .. k : k \in 0 .. LastMigration}
        BY <1>1, <2>1, DatabaseOf
      <3>2. /\ db.broken \in {None, "garbage", "foreign"} /\ db.applied \in SUBSET Migrations
            /\ db.rows \in SUBSET Nat /\ db.locks \in SUBSET Nat
            /\ proc[p].stamp \in Nat
        BY <1>1, <3>1 DEF Database, Command
      <3>3. d = [broken |-> db.broken, applied |-> db.applied,
                 rows |-> db.rows \cup {proc[p].stamp}, locks |-> db.locks \cup {proc[p].stamp}]
        BY <2>2, <3>1 DEF Database
      <3> QED BY <3>1, <3>2, <3>3 DEF Database
    <2>5. files' \subseteq Files /\ (~artifactDir => files' = {}) /\ files' = files
      BY <2>3 DEF LocalInv, LocalTyped, DiskTyped, DiskHolds, LocalTypeOK
    <2>6. ~purging => \A part \in PartsOf : FileOf(proc[p].stamp, part) \in files'
      BY <1>1, <2>5 DEF CommandHolds, Renamed
    <2>7. DiskHolds' /\ DiskTyped' /\ Grows
      BY <1>1, <2>1, <2>3, <2>4, <2>5, <2>6, DatabaseHolds
    <2>8. "release" \in Places
      BY DEF Places, OpenPlaces, WorkPlaces
    <2>9. PICK c \in Command :
              proc' = [proc EXCEPT ![p] = c] /\ c.at = "release" /\ c.db = proc[p].db
      BY <2>3, <2>8, Goes
    <2>10. c.db \in DOMAIN databases' /\ databases'[c.db].applied = Migrations
      BY <1>1, <2>1, <2>3, <2>4, <2>9
         DEF CommandHolds, WorkPlaces, LocalInv, LocalTyped, DiskTyped
    <2>11. CommandHolds(c)'
      BY <2>9, <2>10 DEF CommandHolds, OpenPlaces, WorkPlaces, PurgePlaces, Renamed
    <2> QED BY <2>7, <2>9, <2>11, DiskKeeps
  <1> QED BY <1>2, <1>3

\* A lock that is released takes nothing else along.
LEMMA ReleaseLockKeeps ==
    ASSUME LocalInv, NEW p \in Procs, ReleaseLock(p)
    PROVE  LocalInv'
  <1>1. proc[p].db \in DOMAIN databases
    BY CommandOf DEF ReleaseLock, At, CommandHolds, OpenPlaces, WorkPlaces
  <1>2. PICK db : db = databases[proc[p].db]
    OBVIOUS
  <1>3. PICK d : d = [db EXCEPT !.locks = @ \ {proc[p].stamp}]
    OBVIOUS
  <1>4. /\ databases' = [databases EXCEPT ![proc[p].db] = d] /\ Done(p)
        /\ UNCHANGED <<dirVars, files, configVars, databaseFile, backups, starts, purging>>
    BY <1>2, <1>3 DEF ReleaseLock, countVars
  <1>5. /\ db \in Database /\ d \in Database /\ d.applied = db.applied /\ d.rows = db.rows
        /\ db.applied \in {1 .. k : k \in 0 .. LastMigration}
    BY <1>1, <1>2, <1>3, DatabaseOf DEF Database
  <1>6. files' \subseteq Files /\ (~artifactDir => files' = {}) /\ files' = files
    BY <1>4 DEF LocalInv, LocalTyped, DiskTyped, DiskHolds, LocalTypeOK
  <1>7. DiskHolds' /\ DiskTyped' /\ Grows
    BY <1>1, <1>2, <1>4, <1>5, <1>6, DatabaseHolds
  <1>8. PICK c \in Command : proc' = [proc EXCEPT ![p] = c] /\ CommandHolds(c)'
    BY <1>4, Ends DEF Done
  <1> QED BY <1>7, <1>8, DiskKeeps

----------------------------------------------------------------------------
(* Purge *)

\* Once a purge has started, what it deletes leaves the disk in order: a directory
\* only when nothing is in it.
LEMMA PurgeHolds ==
    ASSUME LocalInv, purging' = TRUE, UNCHANGED <<configs, databases, starts>>,
           root' \in BOOLEAN, artifactDir' \in BOOLEAN,
           files' \subseteq files, backups' \subseteq backups,
           databaseFile' \in {0, databaseFile}, configFile' \in {0, configFile},
           ~artifactDir' => files' = {},
           ~root' => RootEntries' = {}
    PROVE  DiskHolds' /\ DiskTyped' /\ Grows
  <1>1. LocalTypeOK'
    <2>1. databaseFile' \in 0 .. Len(databases') /\ configFile' \in 0 .. Len(configs')
      BY DEF LocalInv, LocalTyped, DiskTyped, DiskHolds, LocalTypeOK
    <2>2. \A b \in backups' : b.inode \in DOMAIN databases' /\ b.inode # databaseFile'
      BY DatabaseOf DEF LocalInv, DiskHolds, LocalTypeOK
    <2> QED BY <2>1, <2>2, RootIsEmpty DEF LocalInv, DiskHolds, LocalTypeOK
  <1>2. NamesStay' /\ CommittedIsKept'
    BY DEF NamesStay, CommittedIsKept
  <1>3. DiskTyped'
    <2>1. IsFiniteSet(backups')
      BY FS_Subset DEF LocalInv, LocalTyped, DiskTyped
    <2> QED BY <2>1 DEF LocalInv, LocalTyped, DiskTyped
  <1>4. Grows
    BY DatabaseOf DEF Grows, LocalInv, LocalTyped, DiskTyped
  <1> QED BY <1>1, <1>2, <1>3, <1>4 DEF DiskHolds

\* Listing what is to be deleted.
LEMMA ListKeeps ==
    ASSUME LocalInv, NEW p \in Procs, ListRoot(p) \/ ListArtifacts(p)
    PROVE  LocalInv'
  <1>0. proc[p] \in Command /\ CommandHolds(proc[p])
    BY CommandOf
  <1>1. CASE ListRoot(p) /\ ~root
    BY <1>1, EndKeeps DEF ListRoot, PurgeUnchanged, DiskUnchanged, Fail, configVars, databaseVars
  <1>2. CASE ListRoot(p) /\ root
    <2>1. PICK place : place = IF artifactDir THEN "listArtifacts" ELSE "unlink"
      OBVIOUS
    <2>2. PICK c : c = [proc[p] EXCEPT !.todo = RootEntries \ {<<"artifacts">>}, !.at = place]
      OBVIOUS
    <2>3. /\ proc' = [proc EXCEPT ![p] = c] /\ purging' = TRUE
          /\ UNCHANGED <<dirVars, files, configVars, databaseVars, starts>>
      BY <1>2, <2>1, <2>2 DEF ListRoot, PurgeUnchanged, configVars, databaseVars
    <2>4. RootEntries \subseteq Entries
      BY DEF RootEntries, Entries, LocalInv, LocalTyped, DiskTyped
    <2>5. c \in Command /\ c.at = place /\ place \in PurgePlaces
      BY <1>0, <2>1, <2>2, <2>4 DEF Command, Places, PurgePlaces
    <2>6. CommandHolds(c)'
      BY <2>3, <2>5 DEF CommandHolds, OpenPlaces, WorkPlaces, PurgePlaces, Renamed
    <2>7. DiskHolds' /\ DiskTyped' /\ Grows
      <3>1. ~artifactDir' => files' = {}
        BY <2>3 DEF LocalInv, DiskHolds, LocalTypeOK, dirVars
      <3>2. ~root' => RootEntries' = {}
        BY <2>3, RootIsEmpty DEF LocalInv, DiskHolds, LocalTypeOK, dirVars, configVars,
                                 databaseVars
      <3> QED BY <2>3, <3>1, <3>2, PurgeHolds
              DEF LocalInv, LocalTyped, DiskTyped, dirVars, configVars, databaseVars
    <2> QED BY <2>3, <2>5, <2>6, <2>7, DiskKeeps
  <1>3. CASE ListArtifacts(p)
    <2>1. DiskUnchanged
      BY <1>3 DEF ListArtifacts, PurgeUnchanged, DiskUnchanged, configVars, databaseVars
    <2>2. CASE ~artifactDir
      BY <1>3, <2>1, <2>2, EndKeeps DEF ListArtifacts, Fail
    <2>3. CASE artifactDir
      <3>1. PICK c : c = [proc[p] EXCEPT !.at = "unlinkFiles", !.listed = files]
        OBVIOUS
      <3>2. c \in Command /\ c.at = "unlinkFiles"
        BY <1>0, <3>1 DEF Command, Places, PurgePlaces, LocalInv, LocalTyped, DiskTyped
      <3>3. purging
        BY <1>0, <1>3 DEF ListArtifacts, At, CommandHolds, PurgePlaces
      <3>4. CommandHolds(c)
        BY <3>2, <3>3 DEF CommandHolds, OpenPlaces, WorkPlaces, PurgePlaces, Renamed
      <3>5. proc' = [proc EXCEPT ![p] = c]
        BY <1>3, <2>3, <3>1 DEF ListArtifacts
      <3> QED BY <2>1, <3>2, <3>4, <3>5, OnlyGoes DEF DiskUnchanged
    <2> QED BY <2>2, <2>3
  <1> QED BY <1>1, <1>2, <1>3

\* Deleting what was listed, one after the other, and at last the root.
LEMMA DeleteKeeps ==
    ASSUME LocalInv, NEW p \in Procs,
           \/ UnlinkFile(p) \/ RemoveArtifactDir(p) \/ UnlinkConfig(p)
           \/ UnlinkDatabase(p) \/ UnlinkBackup(p) \/ RemoveRoot(p)
    PROVE  LocalInv'
  <1>1. proc[p] \in Command /\ purging = TRUE
    <2>1. proc[p].at \in PurgePlaces
      BY DEF UnlinkFile, RemoveArtifactDir, UnlinkConfig, UnlinkDatabase, UnlinkBackup,
             RemoveRoot, At, PurgePlaces
    <2> QED BY <2>1, CommandOf DEF CommandHolds, LocalInv, LocalTyped, DiskTyped
  <1>2. /\ purging' = purging /\ UNCHANGED <<configs, databases, starts>>
    <2>1. CASE UnlinkFile(p) \/ RemoveArtifactDir(p) \/ UnlinkDatabase(p)
      BY <2>1 DEF UnlinkFile, RemoveArtifactDir, UnlinkDatabase, PurgeUnchanged, configVars
    <2>2. CASE UnlinkConfig(p)
      BY <2>2 DEF UnlinkConfig, databaseVars, countVars
    <2>3. CASE UnlinkBackup(p) \/ RemoveRoot(p)
      BY <2>3 DEF UnlinkBackup, RemoveRoot, PurgeUnchanged, configVars
    <2> QED BY <2>1, <2>2, <2>3
  <1>3. /\ root \in BOOLEAN /\ artifactDir \in BOOLEAN
        /\ ~artifactDir => files = {}
        /\ ~root => RootEntries = {}
    BY DEF LocalInv, LocalTyped, DiskTyped, DiskHolds, LocalTypeOK
  <1>4. /\ root' \in BOOLEAN /\ artifactDir' \in BOOLEAN
        /\ files' \subseteq files /\ backups' \subseteq backups
        /\ databaseFile' \in {0, databaseFile} /\ configFile' \in {0, configFile}
        /\ ~artifactDir' => files' = {}
        /\ ~root' => RootEntries' = {}
    <2>1. CASE UnlinkFile(p)
      <3>1. files' \subseteq files /\ UNCHANGED <<dirVars, configVars, databaseVars>>
        BY <2>1 DEF UnlinkFile, PurgeUnchanged, databaseVars
      <3> QED BY <1>3, <3>1, RootIsEmpty DEF dirVars, configVars, databaseVars
    <2>2. CASE RemoveArtifactDir(p)
      <3>1. /\ root' = root /\ files' = files /\ UNCHANGED <<configVars, databaseVars>>
            /\ artifactDir' = artifactDir \/ (artifactDir' = FALSE /\ files = {})
        <4>1. CASE ~artifactDir \/ files # {}
          BY <2>2, <4>1 DEF RemoveArtifactDir, PurgeUnchanged, databaseVars
        <4>2. CASE artifactDir /\ files = {}
          BY <2>2, <4>2 DEF RemoveArtifactDir, PurgeUnchanged, databaseVars
        <4> QED BY <1>3, <4>1, <4>2
      <3> QED BY <1>3, <3>1, RootIsEmpty DEF configVars, databaseVars
    <2>3. CASE UnlinkConfig(p)
      <3>1. /\ configFile' \in {0, configFile}
            /\ UNCHANGED <<dirVars, files, databaseVars>>
        BY <2>3 DEF UnlinkConfig
      <3> QED BY <1>3, <3>1, RootIsEmpty DEF dirVars, databaseVars
    <2>4. CASE UnlinkDatabase(p)
      <3>1. /\ databaseFile' \in {0, databaseFile}
            /\ UNCHANGED <<dirVars, files, backups, configVars>>
        BY <2>4 DEF UnlinkDatabase, PurgeUnchanged
      <3> QED BY <1>3, <3>1, RootIsEmpty DEF dirVars, configVars
    <2>5. CASE UnlinkBackup(p)
      <3>1. /\ backups' \subseteq backups
            /\ UNCHANGED <<dirVars, files, databaseFile, configVars>>
        <4>1. PICK name \in proc[p].todo :
                 \/ backups' = backups
                 \/ backups' = {b \in backups : b.name # name}
          BY <2>5 DEF UnlinkBackup
        <4>2. {b \in backups : b.name # name} \subseteq backups
          OBVIOUS
        <4>3. UNCHANGED <<dirVars, files, databaseFile, configVars>>
          BY <2>5 DEF UnlinkBackup, PurgeUnchanged
        <4> QED BY <4>1, <4>2, <4>3
      <3> QED BY <1>3, <3>1, RootIsEmpty DEF dirVars, configVars
    <2>6. CASE RemoveRoot(p)
      <3>1. UNCHANGED <<artifactDir, files, configVars, databaseVars>>
        BY <2>6 DEF RemoveRoot, PurgeUnchanged, databaseVars
      <3>2. root' = root \/ (root' = FALSE /\ RootEntries = {})
        <4>1. CASE ~root \/ RootEntries # {}
          BY <2>6, <4>1 DEF RemoveRoot
        <4>2. CASE root /\ RootEntries = {}
          BY <2>6, <4>2 DEF RemoveRoot
        <4> QED BY <1>3, <4>1, <4>2
      <3> QED BY <1>3, <3>1, <3>2, RootIsEmpty DEF configVars, databaseVars
    <2> QED BY <2>1, <2>2, <2>3, <2>4, <2>5, <2>6
  <1>5. DiskHolds' /\ DiskTyped' /\ Grows
    BY <1>1, <1>2, <1>4, PurgeHolds
  <1>6. PICK c \in Command : proc' = [proc EXCEPT ![p] = c] /\ CommandHolds(c)'
    <2>1. Fail(p) \/ Done(p) =>
              \E c \in Command : proc' = [proc EXCEPT ![p] = c] /\ CommandHolds(c)'
      BY Ends DEF Fail, Done
    <2>2. ASSUME NEW c \in Command, c.at \in PurgePlaces
          PROVE  CommandHolds(c)'
      <3>1. c.at \notin OpenPlaces /\ c.at \notin {"fill", "migrate"} /\ c.at \notin WorkPlaces
            /\ Renamed(c.at) = {}
        BY <2>2 DEF PurgePlaces, OpenPlaces, WorkPlaces, Renamed
      <3> QED BY <1>1, <1>2, <3>1 DEF CommandHolds
    <2>3. PurgePlaces \subseteq Places
      BY DEF Places
    <2>4. CASE UnlinkFile(p)
      <3>1. PICK file : Fail(p) \/ proc' = [proc EXCEPT ![p].listed = @ \ {file}]
        BY <2>4 DEF UnlinkFile
      <3>2. PICK c : c = [proc[p] EXCEPT !.listed = @ \ {file}]
        OBVIOUS
      <3>3. c \in Command /\ c.at = proc[p].at /\ c.at \in PurgePlaces
        BY <1>1, <2>4, <3>2 DEF Command, UnlinkFile, At, PurgePlaces
      <3> QED BY <2>1, <2>2, <3>1, <3>2, <3>3
    <2>5. CASE RemoveArtifactDir(p)
      <3>1. Fail(p) \/ Go(p, "unlink")
        BY <2>5 DEF RemoveArtifactDir, Go
      <3>2. "unlink" \in PurgePlaces
        BY DEF PurgePlaces
      <3> QED BY <2>1, <2>2, <2>3, <3>1, <3>2, Goes
    <2>6. CASE UnlinkConfig(p) \/ UnlinkDatabase(p) \/ UnlinkBackup(p)
      <3>1. PICK entry : Fail(p) \/ proc' = [proc EXCEPT ![p].todo = @ \ {entry}]
        BY <2>6 DEF UnlinkConfig, UnlinkDatabase, UnlinkBackup
      <3>2. PICK c : c = [proc[p] EXCEPT !.todo = @ \ {entry}]
        OBVIOUS
      <3>3. c \in Command /\ c.at = proc[p].at /\ c.at \in PurgePlaces
        BY <1>1, <2>6, <3>2
           DEF Command, UnlinkConfig, UnlinkDatabase, UnlinkBackup, At, PurgePlaces
      <3> QED BY <2>1, <2>2, <3>1, <3>2, <3>3
    <2>7. CASE RemoveRoot(p)
      BY <2>1, <2>7 DEF RemoveRoot
    <2> QED BY <2>4, <2>5, <2>6, <2>7
  <1> QED BY <1>5, <1>6, DiskKeeps

\* The database is damaged while nothing runs.
LEMMA BreakKeeps ==
    ASSUME LocalInv, Break
    PROVE  LocalInv'
  <1>1. PICK d : /\ d \in {[NewDatabase EXCEPT !.broken = how] : how \in {"garbage", "foreign"}}
                 /\ databases' = [databases EXCEPT ![databaseFile] = d]
    BY DEF Break
  <1>2. d \in Database /\ d.applied = {} /\ d.rows = {}
    BY <1>1 DEF Database, NewDatabase
  <1>3. databaseFile \in DOMAIN databases /\ databases \in Seq(Database)
    BY DEF Break, LocalInv, LocalTyped, DiskTyped, DiskHolds, LocalTypeOK
  <1>4. /\ databases' \in Seq(Database) /\ Len(databases') = Len(databases)
        /\ DOMAIN databases' = DOMAIN databases /\ databases'[databaseFile] = d
        /\ \A m \in DOMAIN databases : m # databaseFile => databases'[m] = databases[m]
    BY <1>1, <1>2, <1>3
  <1>5. /\ UNCHANGED <<dirVars, files, configVars, databaseFile, backups, starts, purging>>
        /\ proc' = proc
    BY DEF Break
  <1>6. LocalTypeOK'
    <2>1. \A m \in DOMAIN databases' :
              databases'[m].applied \in {1 .. k : k \in 0 .. LastMigration}
      <3>1. {} = 1 .. 0 /\ 0 \in 0 .. LastMigration
        BY LastMigrationIsNatural
      <3> QED BY <1>2, <1>4, <3>1 DEF LocalInv, DiskHolds, LocalTypeOK
    <2> QED BY <1>4, <1>5, <2>1, RootIsEmpty
            DEF LocalInv, DiskHolds, LocalTypeOK, dirVars, configVars
  <1>7. Linked' = Linked
    BY <1>5 DEF Linked
  <1>8. NamesStay' /\ CommittedIsKept'
    BY <1>2, <1>4, <1>5, <1>7 DEF LocalInv, DiskHolds, NamesStay, CommittedIsKept
  <1>9. DiskTyped'
    BY <1>4, <1>5 DEF LocalInv, LocalTyped, DiskTyped, dirVars, configVars
  <1>10. CommandsHold'
    <2> SUFFICES ASSUME NEW p \in Procs
                 PROVE  CommandHolds(proc[p])'
      BY DEF CommandsHold
    <2>1. PICK c : c = proc[p]
      OBVIOUS
    <2>2. c.at \in FreePlaces
      BY <2>1 DEF Break, Running, FreePlaces
    <2>3. CommandHolds(c)'
      BY <2>2, FreeHolds
    <2> QED BY <1>5, <2>1, <2>3 DEF CommandHolds
  <1> QED BY <1>5, <1>6, <1>8, <1>9, <1>10 DEF LocalInv, LocalTyped, DiskHolds

----------------------------------------------------------------------------
(* Theorems *)

\* In the first state there is nothing.
LEMMA LocalInitHolds == LocalInit => LocalInv
  <1> SUFFICES ASSUME LocalInit PROVE LocalInv
    OBVIOUS
  <1>1. DiskTyped
    <2>1. root \in BOOLEAN /\ artifactDir \in BOOLEAN /\ purging \in BOOLEAN
      BY DEF LocalInit
    <2>2. IsFiniteSet(backups)
      BY FS_EmptySet DEF LocalInit
    <2>3. configs \in Seq({"torn", "ours"}) /\ databases \in Seq(Database)
      BY DEF LocalInit
    <2> QED BY <2>1, <2>2, <2>3 DEF LocalInit, DiskTyped
  <1>2. Idle \in Command /\ Idle.at \in FreePlaces
    BY DEF Idle, Command, Places, FreePlaces, Ended
  <1>3. CommandHolds(Idle)
    BY <1>2, FreeHolds
  <1>4. proc \in [Procs -> Command] /\ CommandsHold
    <2>1. \A p \in Procs : proc[p] = Idle
      BY DEF LocalInit
    <2>2. CommandsHold
      BY <1>3, <2>1 DEF CommandsHold, CommandHolds
    <2> QED BY <1>2, <2>2 DEF LocalInit
  <1>5. DiskHolds
    BY RootIsEmpty DEF LocalInit, DiskHolds, LocalTypeOK, NamesStay, CommittedIsKept
  <1> QED BY <1>1, <1>4, <1>5 DEF LocalInv, LocalTyped

\* Every step of a command.
LEMMA StepKeeps ==
    ASSUME LocalInv, NEW p \in Procs, Step(p)
    PROVE  LocalInv'
  BY LayoutKeeps, ReadersKeep, ConfigKeeps, OpenDatabaseKeeps, PlanMigrationsKeeps,
     ApplyMigrationKeeps, RepairKeeps, StartOperationKeeps, WriteTemporaryFilesKeeps,
     RenameFileKeeps, BuildEndKeeps, ReleaseLockKeeps, ListKeeps, DeleteKeeps, Zenon DEF Step

\* A step of nobody.
LEMMA LocalStutterKeeps ==
    ASSUME LocalInv, UNCHANGED vars
    PROVE  LocalInv'
  <1>1. UNCHANGED <<dirVars, files, configVars, databaseVars, starts, purging>> /\ proc' = proc
    BY DEF vars, countVars
  <1>2. DiskHolds' /\ Grows
    BY <1>1, DiskStays
  <1>3. LocalTyped'
    BY <1>1 DEF LocalInv, LocalTyped, DiskTyped, dirVars, configVars, databaseVars
  <1>4. CommandsHold'
    BY <1>1 DEF LocalInv, CommandsHold, CommandHolds, dirVars, configVars, databaseVars
  <1> QED BY <1>2, <1>3, <1>4 DEF LocalInv

\* The invariant holds in every state, whatever the commands do, and where they die.
THEOREM LocalInvariance == LocalSpec => []LocalInv
  <1>1. LocalInv /\ [Next]_vars => LocalInv'
    BY StartKeeps, StepKeeps, ReadersKeep, BreakKeeps, LocalStutterKeeps, Zenon DEF Next
  <1> QED BY <1>1, LocalInitHolds, PTL DEF LocalSpec

\* Directories that are gone are empty, every backup has a name and a file of its own,
\* and a database has the migrations up to one of them.
THEOREM LocalTypeCorrect == LocalSpec => []LocalTypeOK
  <1>1. LocalInv => LocalTypeOK
    BY DEF LocalInv, DiskHolds
  <1> QED BY <1>1, LocalInvariance, PTL

\* A command that works on a database has its whole schema: one that finds a migration
\* of another in its way fails, and what a dead one has left to do is done.
THEOREM WholeSchemaAlways == LocalSpec => []WorksOnWholeSchema
  <1>1. LocalInv => WorksOnWholeSchema
    <2> SUFFICES ASSUME LocalInv, NEW p \in Procs,
                        proc[p].at \in {"operation", "temp", "commit", "release"} \cup ToSet(Parts)
                 PROVE  Db(p).applied = Migrations
      BY DEF WorksOnWholeSchema
    <2>1. proc[p].at \in WorkPlaces
      BY PartsInOrder DEF WorkPlaces, PartsOf
    <2> QED BY <2>1, CommandOf DEF CommandHolds, Db
  <1> QED BY <1>1, LocalInvariance, PTL

\* As long as nobody purges, what was committed stays: its row in a database that has a
\* name, and its files; whoever dies, repairs, migrates or rolls back meanwhile.
THEOREM CommittedStays == LocalSpec => []CommittedIsKept
  <1>1. LocalInv => CommittedIsKept
    BY DEF LocalInv, DiskHolds
  <1> QED BY <1>1, LocalInvariance, PTL
=============================================================================
