# A verification project for Grape

Grape compiles context for a coding agent from a local Git repository, remembers
per session what it has already sent, and on the next turn sends only what is new
or changed: the rest is reported as unchanged, and what has become stale is
invalidated by name. All of it is one SQLite file that CLI commands and MCP servers
of several operating system processes share.

This directory holds TLA+ modules of that system, TLC configurations that check them
on small instances, and TLAPS proofs for every value of the constants. Paths below
are relative to the repository; `app/`, `core/`, `mcp/` abbreviate `src/app/`,
`src/core/`, `src/mcp/`.

1. [Inventory](#1-inventory)
2. [Modules and how they correspond to the code](#2-modules-and-how-they-correspond-to-the-code)
3. [Runs](#3-runs)
4. [Fairness](#4-fairness)
5. [Proofs](#5-proofs)
6. [Findings](#6-findings)
7. [Abstractions](#7-abstractions)
8. [Not modelled, and the plan](#8-not-modelled-and-the-plan)

## 1. Inventory

How the parts interact: `compileLocalContext` (a CLI command or an MCP tool call)
snapshots the repository through Git, persists the snapshot, its evidence and the
index, resolves the claims that are current-valid, compiles an artifact, and hands it
to `buildDurableContext`, which diffs it against the session's ledger, prunes it to
the token budget and stores pack, ledger and output files in one transaction. The
inspection, restore, write, retention, purge and export commands read and change the
same tables. Nothing runs concurrently inside one process (`node:sqlite` is
synchronous; the MCP server orders requests by a promise queue), so interleaving
happens between processes, at every point where no transaction is open.

| Component | State | Operations | What is hard | What makes it correct |
|---|---|---|---|---|
| Durable context build and sent ledger (`app/durable-context-*.ts`, `core/storage/context-ledger`) | context artifacts with dependencies, sent items, pack items, omitted items | one build: partition by staleness, diff, budget, inserts | rows several builds old; rows that resurface when a newer one is invalidated; commit order against clock order | an omission is backed by a delivery to the same session; a delivery is invalidated once; a pack is an honest turn |
| Context diff and pack budget (`core/diff`, `core/compiler/pack`) | none | diff one artifact against the prior rows; drop optional items | the budget drops items after the diff has decided | pinned and required context is never dropped; what is dropped is not recorded as sent |
| Compile orchestration, session row and lock (`app/local-project/context/compile*.ts`, `core/storage/session`) | session row with branch, head, lock token; session events | open, insert, build, release | the row is read before the lock is taken; the lock outlives the transaction; death between the two | the lock covers commit to release; it is given back; the row names the last build |
| Context artifact compiler (`core/compiler/repository`) | none | compile a snapshot to sections and a dependency manifest | hashes must cover what a section depends on | equal manifest hashes mean equal dependencies; sections refer to the manifest only |
| Retention and compaction (`app/local-project/maintenance`, `core/storage/maintenance`) | all ledger tables, artifact files | plan and delete | plan read outside the deleting transaction; files after rows | no active context deleted; an invalidation lives as long as the row it names |
| Restore and artifact files (`app/local-project/omission`, `context/artifact-files.ts`) | three files per artifact, omitted items | write in the build, read by token | renames inside a transaction that may roll back; stale artifacts | a token restores the bytes that were omitted, or nothing |
| Snapshot and evidence persistence (`app/persist-*.ts`, `core/git`) | snapshot, worktree, evidence, index rows | read Git, insert or reuse | the reads are not atomic; a half-stored snapshot | a reused snapshot is complete |
| Claims and current-valid resolution (`core/claims`, `core/retrieval/current-valid.ts`, `core/trust`) | claims, edges, evidence | record, contradict, resolve, supersede, query | edges ordered by time; sources that move under durable claims | a contradicted, superseded or outdated claim is never current-valid |
| Session-scoped writes and observed runs (`app/local-project/writes`, `observation`) | candidates, observations, claims | propose, decide, run and record | worktree moves while a command runs | a write is admitted only on the state the agent saw |
| MCP server and framing (`mcp/stdio-server.ts`, `mcp/protocol.ts`) | buffer, promise queue | chunk, parse, dispatch, end of input | errors in the middle of a chunk, oversized lines | every request is answered once, in order |
| Database setup, migrations and repair (`core/storage/sqlite-runtime.ts`, `app/local-project/setup/storage.ts`) | schema version, database files | open, migrate, rename and recreate | several processes do it at once | a migration is applied once; no fresh database is renamed |
| Purge and export (`app/local-project/privacy`) | the whole directory | check locks, delete; copy | lock check and deletion are not one step | no deletion under a running compile |
| Pack summary and compression cache (`context/context-pack-summary.ts`, `core/compression`) | summary row per session | rebuild after each build | runs outside the build's transaction | the summary is of the last pack |
| Indexing (`core/indexing`, `app/*index*.ts`) | symbol nodes, edges and search entries of a snapshot | read files again, extract, resolve imports and calls | files read after they were hashed | a row of the index comes from the content the snapshot names |
| Task retrieval and confidence (`core/retrieval`) | none | candidates, ranking, spreading, selection under a cap, warnings, confidence | what a cap leaves out; what the confidence claims | seeds come first; "safe" means nothing was left out |
| Scope matching (`core/scope`) | none | compare scopes, dimension by dimension | missing and unknown dimensions | a claim applies to nobody it was not stamped for |
| Secret scan and ignore policy (`core/security`) | none | classify paths and text | patterns | ignored paths and secret text stay out of the tables |
| Inspection commands (`app/local-project/inspection`, `setup/status.ts`) | none | read only | reasons reconstructed from events | "fresh" is true; `grape stale` tells a branch switch from a dependency change |
| State names (`core/state/state-machine.ts`) | none | a table no source file reads | none | none |
| CLI and rendering, project setup, benchmark | configuration files | formatting, one-time writes | none for the context loop | none |

`PROJECT.json` lists the same components with their source files, and every place
where the code is hard to test ("hazards") with the property that covers it or the
reason none does yet.

## 2. Modules and how they correspond to the code

```
AgentContext          what the ledger promises an agent (abstract)
   ^  INSTANCE ... WITH the mapping
LedgerAgent           what of the ledger an agent holds
   |  EXTENDS
ContextLedger         the ledger tables and one durable build
   ^  EXTENDS
   |- PackBudget      what a token budget really drops of a pack
   |- CompileProcess  processes that compile: session row, lock, failure, death
   |     ^  EXTENDS       (refines ContextLedger: ImplementsLedger)
   |     Inspection   what status and stale say of what compiles left behind
   |- Retention       compactions between builds
   |                      (refines ContextLedger on the undeleted tables)
   `- McpServer       the stdio server: framing, queue, compile and restore calls
                          (refines ContextLedger with clocks in order)

FileIndex -> TaskRetrieval -> SnapshotStore    (each EXTENDS the one before)
                      worktree to snapshot, evidence, index, retrieval,
                      compressions, artifacts, and their compaction
ClaimScope -> ClaimPolicy -> Claims            (each EXTENDS the one before)
                      scopes, gates and resolution, then the processes that
                      promote, record, resolve and read claims
LocalProject          the directory .grape: set up, migrate, repair, purge

MCRepository          the small repository the ledger instances compile
MC*                   instances for TLC
ContextLedgerProofs (with LedgerAgent) -> CompileProcessProofs (with Inspection),
                                          McpServerProofs, RetentionProofs,
                                          PackBudgetProofs
ClaimsProofs, SnapshotStoreProofs, LocalProjectProofs
                      theorems about the modules they are named for
```

**AgentContext** is the promise of `docs/v1/contracts/context-diff.md` without any
table: each session holds a set of deliveries; a turn revokes some of them, delivers
sections, calls others unchanged and prunes optional ones. `Honest` says which packs
are allowed. **LedgerAgent** reads the ledger that way: a delivery is a sent row with
the content it was sent with, and an agent holds the active ones of its session.

**ContextLedger** is the ledger. Its variables are tables: `artifacts`
(context_artifacts with their dependencies, in commit order), `packItems`, `sent`,
`omitted`. Its only action is `Build`, because `buildDurableContext` is one
`BEGIN IMMEDIATE` transaction:

| Definition | Code |
|---|---|
| `Invalidated`, `ActiveSent`, `LatestActive` | the SQL of `listLatestActiveSentItems`: rows of the session no invalidation names, newest of each section |
| `DependencyDrift`, `Stale`, `StalePrior` | `isPriorItemStale` and `partitionPriorContextByStaleness`: other branch, other commit, or other manifest hash and the section's own dependencies moved |
| `DiffState`, `DiffItems` | `createInMemoryContextDiff` |
| `InvalidationItems` | `createInvalidationPackItem` |
| `Droppable` | what `applyInMemoryContextPackBudget` may exclude |
| `SentRows`, `OmittedRows` | what `toContextSentItem` and `toOmittedContextItem` insert |

What a compile can produce is the constant `Shapes`: branch, commit, manifest hash,
dependency hashes and sections. What is assumed of a shape is checked by the code
(`assertSections`: references name dependencies of the manifest) or is how its hashes
are built (`ManifestCoversDeps`, `ContentCoversRefs`).

**CompileProcess** is `compileLocalContext` in several processes. Each process is a
program counter between the points where it touches shared state:

| Action | Code (`app/local-project/context/compile.ts`) |
|---|---|
| `Start` | reads the clock and the repository |
| `OpenSession` | `ensureCompileSession`: reads the row; a locked one is refused |
| `InsertSession` | inserts the row it did not find; the primary key may refuse |
| `Abandon` | any throw before the `try` around the build |
| `CommitBuild` | the transaction of `buildDurableContext`: lock, row, events, ledger |
| `RollBack` | the same transaction when it throws: lock taken, file writes failed |
| `Release` | the `finally` block, after the summary was rebuilt: releases only its own token |
| `Crash` | the process dies anywhere |

`Existed(p)` is the `existed` flag of `ensureCompileSession`. It is decided when the
row is read and used inside the later transaction, as in the code.

**Retention** is `grape compact --confirm` beside the builds. It adds to the ledger
which artifact rows and files exist, which sessions are locked, and what each
compaction has planned. Its steps are those between which another process can act:

| Action | Code (`app/local-project/maintenance/compact.ts`) |
|---|---|
| `PlanArtifacts` | `planContextArtifactCompaction`, one query, and `planArtifactFiles`: the expired artifacts nothing protects |
| `PlanRecords` | `planInvalidatedRecordCompaction`: expired markers, of sessions that are not locked, whose rows no other marker names |
| `DeleteRows` | the transaction: `deleteInvalidatedRecords` checks the markers again, `deleteContextArtifacts` does not check; foreign keys cascade |
| `DeleteFiles` | `deletePlannedArtifactFiles`, after the commit |
| `Stop` | the preview, a busy database, a death |
| `BuildUnderLock`, `Unlock` | a compile, see CompileProcess: locked from its commit to its release |

The history variables `packedEver`, `sentEver` and `omittedEver` are the tables as
they would be had nothing been deleted. `LeavesNoTrace` says that the system refines
`ContextLedger` on those: a build reads the pruned tables, and writes what it would
have written from the full ones.

**PackBudget** makes the choice ContextLedger leaves open:
`applyInMemoryContextPackBudget` drops optional items by priority and size until the
pack fits, and reports a status and the tokens saved. A section and the item that sends
it are rendered differently (`renderNaiveSection`, `renderPackItemForEstimate`), so there
is a number of tokens for each way to render: `NaiveTokens` of a section,
`SentTokens` of an item that sends it in some state, `OmissionTokens` and
`InvalidationTokens` of the notices. The state is that of ContextLedger;
`PruningIsAllowed` asks in every reachable state about every pack that could be built
next. Of the reported tokens it says what is so for any of these numbers: those reported
as omitted are those of the sections neither delivered nor left out by the budget, and
the overheads do not exceed what is sent. What is sent may well exceed what is naive. `"over_budget"` cannot be reported on this path: required context that does not
fit is a failure. The loop over the optional items is written as its result, an item
being kept exactly when it fits beside what is kept of those tried before it.

**Inspection** reads the state of CompileProcess: `SessionFreshnessSummary` and the
project summary of `setup/status.ts`, and the reasons `inspection/stale.ts` lists.
Whether an artifact is partial or unsafe is a constant of the instance.

**SnapshotStore** is a compile from the worktree to the artifact, and the compaction of
all it stored. `TakeSnapshot` reads branch, commit, dirty paths and contents one after
the other, each in a step of its own (`ReadBranch`, `ReadHead`, `ReadStatus`,
`ReadFiles`), while `Move` changes the worktree; a path that is no regular file, as
a submodule, is dropped without a rejection; `PersistSnapshot` is the transaction with
worktree state, sources, rejections and the index, whose two halves (symbols, text)
read the files again; `BuildContext` opens the session, reads the index back in two
reads, retrieves, caches the symbol outline, stores the artifact with references to all
of these and, after its commit, the summary of the pack. `PlanCompaction` and
`DeletePlanned` are the parts of `compact.ts` that Retention leaves out. **FileIndex**
is the pure part of indexing: which files are read (policy, symlinks, size, secrets),
nodes, import and call edges, search entries. **TaskRetrieval** is the pure part of
retrieval: candidates with reasons from seeds, search hits, neighbours and tests;
ranking; spreading over packages, languages and kinds of evidence; selection by tiers
under the cap; warnings and confidence. Named files come before all else, and named
tests get a share of the cap (`TestSlots`); `SeedsFirst` promises a named test no more
than that share, and session `s2` of the instance names one test more than it holds. A ranking is a set of pairs, the one that comes
first and the other; the first so many of it are those with fewer than that before
them. A test, for `SafeIsComplete`, is a path that looks like one or that the task or
an observed failure calls one.

**Claims** is every process that writes or reads claims. A compile persists its
snapshot, opens its session and promotes drafts phase by phase (`PrepareLocalCompileProofs`,
`PersistProjectRuleClaims`, `FindConflicts`, `PersistSymbolDeclarationClaims`, the
manifests), each draft in up to three statements (proof, claim, attachment) outside
any transaction. Its build updates the session row only if the compile found one. `RunStep` is an observed run or an agent's report: admission by the
session row, the command, the snapshot after it, and one recording transaction.
`ResolveLocalConflict` and `ForeignEdge` add edges. **ClaimPolicy** has the gates of the
claim types, the comparison of rules, and what blocks a claim; **ClaimScope** compares
scopes.

**McpServer** takes each line a client writes for three pieces, two halves of its text
and the newline, and the pipe can cut between any two. The buffer is always a stretch
of what was written, so it is two positions: how much has `arrived` and how much was
`taken` out. `Drain` is `append` with its loop over complete lines, `Flush` what the
end of the input makes of the rest; parsed messages queue; one is handled at a time.
Compile calls are ledger builds, of what the call's snapshot and the database hold then:
`recorded` is the set of notes in it (claims, edges, reported runs, decisions,
summaries), to which `RecordCall`, the compiles themselves and other processes
(`RecordElsewhere`) add, and `Compiled[tree][session][notes][query]` is what a compile
makes of them. A compile whose summary cannot be written after the commit is an error
whose build stays. Restore calls look a token up and compare branch, commit, worktree
hash and every dependency that is listed as a file with the snapshot the call took
(`DependencyStaleReason`). A recorded run is listed as one and is not among the files;
claims, edges and summaries are not compared. The process may `Die` between commit and
reply, and be started again.

**LocalProject** has inodes, because what makes it hard is a process that goes on with
a file another one renamed or deleted. Its commands (`init`, `compile`, `read`,
`purge`) are program counters over file operations and transactions: the layout, the
configuration (truncated, then filled), opening, the trust check of a database without
`schema_migrations`, one transaction per migration, the rename of a broken database,
temporary artifact files and their renames inside the build, its commit with row and
lock (`CommitBuild`), the later statement that gives the lock back (`ReleaseLock`), and
the purge, entry by entry (`UnlinkBackup` fails on one that is gone; the code goes
through the names in order, the model in any). `Break` is a database that becomes unreadable.

**MCRepository** is what five states of a small repository compile to: a base state;
another seed file named by the caller (a section's text moves and no dependency does);
a moved test relationship (one section's dependency moves); an edited file (the
worktree hash moves under every section); and another branch with the same tree,
where one section is missing. The sections are one pinned, one required and one
optional. Between them they reach every disjunct of `Stale`, every diff state and
every class of the budget.

## 3. Runs

All runs say `CHECK_DEADLOCK FALSE`: the clocks or the counters of an instance are
finite, and the system stops when its compiles, runs, lines or starts are used up.
These counters are the only bounds on behaviours: `Clocks` and `MaxCrashes` (ledger,
compile and retention runs); `MaxCompiles`, `MaxMoves`, `MaxCompactions` (store);
`MaxCompiles`, `MaxRuns`, `MaxForeign`, `MaxResolutions`, `MaxMoves` (claims);
`MaxLines`, `MaxOdd`, `MaxMoves`, `MaxStarts` (server); `MaxStarts`, `MaxBreaks`,
`LastMigration` (local). `MaxSelected` is the cap on selected sources, 8 in the code.

| Run | Instance | Checks | What it shows |
|---|---|---|---|
| `ledger` | 2 sessions, 5 shapes, 3 builds in any clock order, resets, any pruning | `TypeOK`, `OmitBacked`, `InvalidateOnce`, `PruningIsAllowed`, `KeepsPromise` | an omission rests on a delivery of that very content, on the same evidence, to the same session, not revoked since; no delivery is revoked twice; every build is an honest turn of `AgentContext`; in every state, what a budget drops of the next pack is a choice the ledger allows, fits when it says so, and drops nothing for something less worth keeping; the tokens reported as omitted are of what the session has |
| `compile_one` | 1 process, 4 compiles, 4 shapes, 1 crash | `CompileTypeOK`, `SessionTracksLastBuild`, `InspectionIsTrue`, `LedgerMatchesLastPack` | without overlap the row and the ledger agree with the last committed build, also after failures and a death, and what `grape status` and `grape stale` say is true |
| `compile_two` | 2 processes, 3 compiles, 2 shapes, fair | `LockProtocol`, `ImplementsLedger`, `LockReleased` | with overlap the lock covers commit to release, is given back, and the ledger sees whole builds only |
| `retention` | 1 session, 2 shapes, 3 builds, 1 compaction at a time | `RetentionTypeOK`, `ActiveKept`, `LeavesNoTrace`, `RestorableKept`, `NewestKept` | cleanup revives no stale context, loses no active one and changes no later build; restore tokens and the newest artifact keep their rows and files; nothing dangles |
| `claims` | 2 processes, 2 requests with different environments, 3 worktree states, 2 compiles, 1 run or report or hand-made edge with its resolution, 1 move | `ClaimsTypeOK`, `ActiveIsTrue`, `RunsStayInTheirWorktree`, `CompletedCompilesHold`, `ConflictAnswersAgree`, `RunsFollowCompiles`, `ResolvedStaysResolved` | a claim shown to a reader can be read in its own tree; results stay in the session and worktree they were observed in; a compile that ended has its claims, also after one that stopped half way; the two answers about conflicts agree; a resolved conflict stays so |
| `store` | 2 processes, 2 sessions, 2 compiles, 1 move, 1 compaction, cap 4 | `StoreTypeOK`, `IndexMatchesSnapshot`, `SnapshotsAreWhole`, `LatestIndexKept`, `KnownArtifactsKeepTheirInputs`, `SeedsFirst`, `SafeIsComplete` | what is stored under a snapshot is the snapshot's, whole; compaction takes nothing that the latest snapshot or an artifact it knew needs; named files come first and named tests keep their share, and a retrieval calls itself safe only when nothing was left out |
| `server` | 3 lines of 3 pieces, one of them odd, 1 note, 1 move, 2 starts, fair | `ServerTypeOK`, `AnswersInOrder`, `OmittedIsRecoverable`, `RestoredIsCurrent`, `EveryRequestAnswered` | replies match requests in order whatever is lost; what a pack leaves out can be restored while the worktree is the same and unless the pack lists a recorded source; a restore gives a text of the worktree as it is, or nothing; every request is answered unless something lost it |
| `local` | 2 commands at a time, 3 in all, 2 migrations, 1 broken database, any number of deaths, fair | `LocalTypeOK`, `WorksOnWholeSchema`, `CommittedIsKept`, `Recovers` | nothing works on half a schema; committed artifacts outlive repairs; an init or compile that has the project to itself recovers whatever was left |
| `locked_retention` | the same | `LockedArtifactsKept` is violated | finding 4 |
| `ledger_reset` | 1 session, 2 shapes, 4 builds | `ResetForcesResend` is violated | finding 1 |
| `stuck_lock` | 1 process, 1 crash, fair | `LockReleased` is violated | finding 2 |
| `session_row` | 2 processes, no crash | `SessionTracksLastBuild` is violated | finding 3 |

Why these bounds. A wrong omission needs three builds: one that delivers, one that
changes what the session may rely on, and one that omits; with three clocks that may
commit in any order, the newest row by clock may be any of them. A second session
shows that nothing leaks across. Whatever an older row can do once it resurfaces it
does in `ledger` at the third build and in `compile_one` at the fourth. For the lock,
two processes suffice to have a holder and a challenger, and the third compile is the
one that runs after both; the proofs then cover every number.

For retention, three builds make a delivery, its invalidation and a newest artifact
beside them; the third may come before planning, between any two steps of a
compaction, or after. The age cutoff and the row limit both take the oldest rows, so
one bound `last` stands for either; markers of one build share a timestamp, and
`tied` is how many of them the row limit takes. Two compactions at once exceed TLC's
reach here; for `ActiveKept` and `LeavesNoTrace` the proofs cover any number of them.

For claims, one compile that stops anywhere and another that goes over the same drafts
is what half-written claims need; a single move separates the tree that was read from
the tree that is recorded. Recorded runs and hand-made edges are not mixed in one
behaviour: neither reads what the other writes. For the store, a snapshot needs one
compile to write it and another to reuse or overtake it, and a compaction one plan that
may go stale; the worktree moves at most once, which is enough to tear a snapshot
between any two reads. For the server, two calls and one odd line reach every framing
path, and a second start the loss of a reply; a line of three pieces can be cut at its
start, middle and end. For the local state, two commands at once and one after them;
two migrations have a point between them.

Sizes, in thousands of distinct states: ledger 279, compile_one 284, compile_two 65,
retention 417, claims 331, store 609, server 327, local 956; up to four minutes each
with two workers. Claims and store use symmetry over processes, which check no
liveness; their instances name processes nowhere else.

`LedgerMatchesLastPack` is checked where compiles of a session do not overlap. With
overlap it is not what the code does: rows are ordered by the start clock, so a
compile that started first and committed last is not "latest" in the ledger. What
remains true then is what matters for safety, `OmitBacked`.

## 4. Fairness

`FairSpec` (compile runs) asks weak fairness of `Proceed(p)` for each process. The code
between the points of the model is synchronous and straight-line, all waiting on the
database is bounded by `busy_timeout`, and a compile that is refused throws instead of
waiting, so a compile that is not killed goes on to its end. `Start`, `Abandon` and
`Crash` are under no fairness: nobody has to ask for a compile, fail or die. `Proceed`
includes `RollBack`, so `LockReleased` does not rest on any build succeeding.

`FairServerSpec` asks weak fairness of `ServerStep`, the event loop: data that has
arrived is read, queued messages are handled, replies are written. The client need not
write another piece, end its input or restart anything. `EveryRequestAnswered` excludes
what the code does lose: a garbage line, a kill.

`FairLocalSpec` asks weak fairness of `Step(p)` of each command, for the same reason as
for compiles. `Recovers` says what an undisturbed command reaches; it does not need
that two commands in parallel both succeed, which they do not.

## 5. Proofs

Checked by `tlapm` for every set of sessions, sections, shapes, clocks, worktrees,
lines, sources and processes, and every value of the bounds. All invariants, action
properties and refinements that the passing runs check are theorems; liveness is not
(below).

Assumptions about constants, which TLC evaluates on every instance:

| Module | Assumption | Why the code justifies it |
|---|---|---|
| ContextLedger | `ShapesAreShapes`, `ManifestCoversDeps`, `ContentCoversRefs` | `assertSections`, and what the hashes are built of |
| ContextLedger, CompileProcess | `ClocksAreNaturals`, `ClocksAreTokens` | timestamps; 0 stands for "no token" |
| Inspection | `CleanFollowsCommit` | a clean worktree is its commit |
| McpServer | `LinesHaveForms`, `CallsAreTyped` | the classes `#parseLine` and `asJsonRpcRequest` tell apart; arguments are checked by `parseInput` |
| McpServer | `CompiledFromSnapshots` | an artifact takes branch, commit and worktree hash from the one snapshot its call took, and lists the files of that snapshot with their hashes |
| McpServer | `WorktreeHashCovers` | `worktreeHash` is made of branch, commit, status, dirty paths, the hash of every visible file and what was rejected: all a compile reads of a worktree (`repo-snapshot.ts:121`). What it reads of the database is `recorded` |
| Claims | `NoneIsAbsent`, `FirstTreeIsTree`, `NoneIsNoRun`, `RunKindsAreKinds` | `None` stands for an absent column |
| PackBudget | `BudgetsAreNumbers`, `SectionsAreFinite`, `SectionsAreInOrder`, `TokensAreNumbers`, `KindsFollowTypes` | both callers take positive integers only (`parseTokenBudget`, `optionalPositiveInteger`); an artifact is a list of sections, each with a text; what is required follows from id, type and `exactRequired` |
| SnapshotStore | `NoneIsNoProcess`, `NoneIsNoReason`, `FirstTreeIsThere`, `MaxCompilesIsNatural` | likewise |
| SnapshotStore | `TreesAreFinite`, `WordsAreFinite` | a listing of files, the declarations of a file and the words of a task are arrays |
| TaskRetrieval | `MaxSelectedIsNatural`, `PathsAreOrdered` | the cap is a constant of the code; `compareStableStrings` ties equal names only |
| LocalProject | `KindsAreCommands`, `LastMigrationIsNatural` | the commands modelled; migrations are numbered |

One hypothesis is no assumption of a module but stands in the theorems that need
it. `OneProcess` (compiles do not overlap) is needed for `SessionRowFollows`,
`LastPackFollows` and `InspectionStaysTrue`: with two processes the first is false, and
run `session_row` shows how.

**ContextLedgerProofs.** `LedgerInvariance` proves `LedgerInv`, from which follow
`TypeCorrect`, `OmissionsAreBacked` and `InvalidatedAtMostOnce`. `OmitBacked` is not
inductive alone, for two reasons:

- an omission is justified by a row the build takes from `LatestActive`, which trusts
  that an invalidation of the row would have been found among those of the row's own
  session. So every invalidation must name a row of its own session
  (`InvalidationsStayInSession`), and that one needs its row to be in `sent`;
- `SameEvidence` compares the hashes of the section a row was sent for, so that
  section must exist in its artifact (`SentSectionsExist`).

The step has one lemma per conjunct. `FreshRow` is its heart: a row that is not
`Stale` rests on the evidence of the new shape. It splits on whether the manifest
hashes are equal (then `ManifestCoversDeps` gives equal dependencies) or the section
did not drift. `BackingLasts` says why later builds never take a backing away: what
they invalidate they invalidate in a later artifact.

In the same module, `LedgerKeepsPromise` is the refinement of AgentContext. Each
build maps to a turn (`BuildIsTurn`): what it delivers, calls unchanged and revokes
is worked out from the diff, section by section, and what is held afterwards follows
from what is active. It needs that no row is sent twice under one id (`SentOnce`).
`LastPackIsHeld` is about `InOrderSpec`, in which builds commit in the order of their
clocks: then the newest row of a section is of the last build that sent it, and the
active rows of a session are the sections of its last pack. It is stated for that
specification because it is false without it. McpServer implements `InOrderSpec`;
CompileProcess with one process, whose clocks also go by for compiles that fail, has
`ClocksFollow` instead.

**PackBudgetProofs.** `BudgetPrunesWhatItMay` needs of the ledger only that it is
finite (`SentIsFinite`, an invariant of its own), because a pack of infinitely many
items has no length; everything else holds of any ledger state. The loop of the code is
written as what it leaves behind: the one choice of optional items in which an item is
kept exactly when it fits beside what is kept of those before it (`KeepWithin`).
`ChoiceExists` proves that there is such a choice, by taking the items in the order of
the loop and looking at the smallest rest that could still be undecided (`HasLeast`),
which takes the place of an induction over the list. `ChoiceIsUnique` proves that there
is no other: two choices could not first differ anywhere. `PrunedWithin` is then about
two items: the last one kept bounds the total, and what was kept before one that was
left out was also kept before each that comes later. `OptionalItems` is where the diff
comes in: what is not required is new or changed optional context, one item of a
section, so the order decides between any two. A total is the size of a set of units,
so totals add, are renamed from items to sections, and grow (`TotalAdds`,
`TotalRenames`, `PacksGrow`). `SavingsHold` splits the sections of the artifact by what
became of them: each is delivered, omitted or left out, and only one of these.

**CompileProcessProofs.** `CompileImplementsLedger` is the refinement: `CommitBuild`
is a `LedgerNext` step with inputs of the right types (`RunsTyped`), every other
action leaves the four tables alone. So every theorem about the ledger holds of any
number of processes: `ConcurrentOmissionsAreBacked` and `CompilesKeepPromise`.
`LockProtocolHolds` needs `LockInv`: beside the protocol itself, that the tokens of
compiles in flight are used by no artifact, no other process and no row
(`TokensFresh`), and that a compile that builds or releases has a row to do it on
(`RowsExist`). Without `TokensFresh` the release of a refused compile could match the
holder's token.
`CompileTypeCorrect` needs what each program counter holds in its hands (`RunsTyped`).

With one process, three more:

- `SessionRowFollows`: a session that has a build has a row, and a row that a compile
  has inserted and not built on yet names what it compiles (`RowsFollow`);
- `LastPackFollows`: clocks of stored artifacts are behind the clock of the compile in
  flight (`ClocksFollow`), so what it commits is also the latest by clock;
- `InspectionStaysTrue`, with `InspectInv`: as long as nothing was invalidated, every
  sent row is of the branch and commit of all builds of its session since
  (`RowsKept`), which is why a session without invalidations can be called fresh;
  events say of each build whether it was a reset or moved the branch (`EventsTrue`);
  the row a compile has read is of the last build (`RowsRead`); and a build invalidates
  rows of earlier builds only.

**RetentionProofs.** `RetentionLeavesNoTrace` is the refinement on the full tables,
`ActiveContextKept` its core as an invariant. Both rest on `PruneInv`
(`CleanupInvariance`), which says what has to hold of pruned tables for a build not to
notice: a row that is left has all the markers that ever named it (`MarkersKept`) and
its pack item (`PackRowsKept`); a row that is gone had been invalidated
(`OnlyClosedRowsGo`). To be inductive it needs `PlansSound`: an artifact once planned
stays safe to delete until it is deleted. That is why planning outside the
transaction is harmless: `deleteContextArtifacts` relies on facts that builds cannot
undo, because they write rows of new artifacts only and an invalid row stays invalid;
and `deleteInvalidatedRecords`, whose facts could change, looks again. From there
`SameActive`, `SameLatest`, `SameStale` and `SamePrior` carry the equality through
every query a build makes, up to `BuildLeavesNoTrace`.

`KeepInv` adds what makes `TokensStayGood` and `NewestStays` inductive: what a plan
holds has been overtaken by a newer artifact of its session and has no restore token
(`PlansKeep`). Both last, because a build adds tokens to its own artifact only.

**ClaimsProofs.** `ClaimsInv` (`ClaimsInvariance`) has one part for each kind of row and
one for the processes. A file claim says what its file says in the tree it was stored
for, and the claim of a run is stamped with the run (`ClaimsSound`); a session's tree
is one it was compiled in (`SessionsSound`); a process that is about to write still
holds what it read, and the snapshot it holds is stored (`JobsSound`); a conflict has
one edge, between claims that exist, and no two edges that count by date have the same
date (`EdgesSound`); and a compile that ended has all it accepted (`CompletedSound`).
`ActiveClaimsAreTrue` then follows from when a scope matches: the branch, commit and
hashes of the claim are those of the reader's tree. `AcceptedClaimsHold` turns on a
claim never being deleted or re-stamped. `ConflictAnswersStayAgreed` compares the two
queries edge by edge, and `ResolutionsLast` says that no step inserts an edge that is
there already or takes a closing one away.

**SnapshotStoreProofs.** `StoreInv` says that a stored snapshot has its worktree state
and exactly its rows (`WholeSound`), that rows of the index come from what the snapshot
hashed (`IndexMatchesSnapshot`), that a compile that is indexing holds the texts whose
hashes are in its snapshot (`JobsSound`), and that what is planned for deletion stays
safe to delete (`PlanSound`). `LatestIndexStays` and `KnownArtifactsKeep` are action
properties that follow from it: `PlanSound` is preserved although compiles store
snapshots, artifacts and compressions in between, because a new artifact is not among
those the plan knew, and a snapshot that is not the latest does not become it.

Two theorems are about what retrieval makes of it. `SeedsStayFirst` rests on tiers that
share nothing (`TiersPartCandidates`) and on what a tier gives when it is asked for a
number of its refs: all of them or exactly that many (`FirstTakes`), in whatever strict
order of a finite set. The spreads over packages, languages and roles are such orders
(`RoundRobinIsStrict`, up to `PackagesAreSpread`), so they cannot give a slot twice or
lose a candidate. `SafeStaysComplete` works out what is the case when no warning is
raised: every path the caller names was found, nothing found was left out and code has
its tests (`NoWarningIsComplete`). Both need `LookupInv` (`LookupInvariance`): what a
compile holds while it looks things up is finite and of its own snapshot, whatever
other compiles and compactions do meanwhile.

**McpServerProofs.** `OrderInv` (`ServerInvariance`): the numbers of the lines that are
answered, handled, queued and still in the buffer increase from one to the next
(`CallsInOrder`, and the order of the queue in `ServerTypeOK`). Its heart are `DrainTakes` and `FlushTakes`: whatever stretch is in
the buffer, what is parsed of it are lines that lie in the part taken out, in order;
a message is never put together of two lines (`MessageText`).
`ServerImplementsLedger` refines `InOrderSpec`, whence `ServerHoldsLastPack`.
`ResultsHold` says of every result, in the hands of the server or of the client, what
it is a result of; it stays true because artifacts and lines stay.
`OmissionsAreRecoverable` then compares the artifact with the snapshot of the worktree
file by file: what `CompiledFromSnapshots` says of the tree of the pack holds of any
tree not `Apart` from it (`WorktreeHashCovers`), so a restore can only miss a ref that
is no file. `RestoresAreCurrent` goes the other way: a restore that was not refused
looked at a tree not apart from that of the artifact, and such trees compile to the
same from the same notes.

**LocalProjectProofs.** `LocalInv` says what a command owes where it is
(`CommandHolds`): the database it has open is there, even if renamed; what it has still
to migrate are the last migrations, and those before them are applied; it has renamed
the files that come first. And that nothing but a purge leaves a database without a
name (`NamesStay`). It is proved for each of the steps of a command against each other
command that may be anywhere (`StepKeeps`). `WholeSchemaAlways` rests on migrations
being applied in order and never taken back; `CommittedStays` on a repair renaming what
it takes away, to a name nobody has.

Only model-checked are `LockReleased`, `EveryRequestAnswered` and `Recovers`: liveness
under fairness takes ENABLED, which the prover does not have.

## 6. Findings

1. **A reset does not force a full resend** (`ledger_reset`).
   `docs/v1/interfaces/agent-sessions.md:121` promises it. A reset invalidates the
   newest active row of each section (`durable-context-staleness.ts:27`), not the
   older ones behind it. Take a section whose text changed without a dependency
   moving, so that both deliveries are active. A reset build that prunes the section
   under its budget revokes the newer one only; the next build finds the older one,
   and if the text is back to what it was, omits it as unchanged.
2. **A killed compile locks its session for good** (`stuck_lock`). The lock commits
   with the build and is released by a later statement. `expireLock` exists and no
   command calls it, although `setup/recovery.ts:99` advises to wait and
   `docs/v1/architecture/state-machine.md:56` counts on lock expiry.
3. **A raced first compile leaves the session row behind the ledger** (`session_row`).
   Of two compiles on a new session the one that inserted the row believes, when it
   later builds, that no row needs updating, even if the other has built on another
   branch meanwhile. The row names one branch and the last pack is of the other;
   session-scoped writes compare the worktree with the row, and no `branch_changed`
   event is written in the same interleaving. `InspectionIsTrue` is false then too,
   which is why it is checked with one process.
4. **Compaction deletes artifacts of a locked session** (`locked_retention`).
   `docs/v1/interfaces/cli.md:131` lists them among what is preserved. The lock is
   read when the plan is made and not in the transaction that deletes, so a compile
   that locks the session in between has old artifacts of it deleted under its lock.
   `LeavesNoTrace` shows that no build notices; the promise alone is broken.

### Seen while modelling

Behaviour a maintainer may want to know of, which the modules contain or leave out as
said; no run is about it.

- **Status.** `sessionFreshnessSummary` (`setup/status.ts:204`) does not compare the
  worktree hash: a session compiled in a dirty tree that is then stashed is "fresh",
  while restore says `worktree_hash_changed`. `FreshIsCurrent` excepts that case. A
  session that ever had an invalidation is "stale" for good (lines 213 and 229), although line
  326 recommends a compile for fresh context. An older surviving row of another branch
  that is invalidated later is listed as a dependency change.
- **Lost replies.** "This same session already received it" (`README.md:67`) is not so
  after a lost reply or a call without an id. The restore token makes up for it; that
  is why `OmittedIsRecoverable` is stated as it is.
- **Restores after a record.** `grape_record_command_result` and its like insert a source
  under the current snapshot, and the next compile lists it with the type
  `source_file` (`repository/manifest/dependencies.ts:224`). A restore looks such a
  dependency up among the files of the worktree and answers `dependency_missing`
  although nothing has moved. `OmittedIsRecoverable` excepts packs that list one.
- **Old texts.** A restore compares files and proofs, not claims, edges or summaries, so
  it can give a section as it was before a claim was added or contradicted, in the same
  worktree. `RestoredIsCurrent` says so.
- **Named tests.** Of the tests a caller names, a quarter of the cap is kept (half when the
  task is to debug a test), at most four; one beyond that is left out even when weaker
  files are selected.
- **Framing.** A line that does not parse takes along the messages parsed before it
  from the same chunk and leaves the rest of the buffer until the next data; several
  lines left at the end of input are parsed as one and lost. A
  `notifications/initialized` or `$/cancelRequest` with an id gets no reply. A session
  id derived for an agent session includes the query, so every query is a session.
- **First commands in parallel.** The second query of the trust check can see the other
  command's first migration, take the database for a foreign one and rename it away:
  the other goes on in the renamed file. Nothing is lost, but its rows end up in the
  backup. A loser among concurrent migrators fails on the primary key and must be
  repeated. The check of a backup's name and its rename are two steps: equal
  millisecond stamps could overwrite a backup (the model takes distinct stamps).
- **Purge** checks locks on a connection it closes first. A purge that was interrupted
  leaves no configuration, and the next one refuses until `init`. The lock of a killed
  compile makes purge refuse.
- **Index.** `file-index-edges.ts:51`: a file that is skipped (symlink, too large) has no
  module node, but importing it by path makes an edge to one; foreign keys are on and
  `INSERT OR IGNORE` does not ignore them, so the compile fails. The instance has no
  such import. A partial index is reused because it has rows
  (`changelog.md:97` against `storage.md:194`), so retrieval over one may call
  itself safe with regard to what the index does not hold.
- **Snapshots** may be torn and are then stored as read. A compile between persisting
  and reading can lose an index that is not the latest to a compaction; a build between
  plan and deletion can lose compression and symbol rows it refers to
  (`KnownArtifactsKeepTheirInputs` speaks of artifacts the plan knew). Sources are
  never deleted, so a snapshot with files never is either.
- **Rules.** The pattern of `project-rule-conflicts.ts:22` does not match the prefix that
  `project-rule-claims.ts:154` writes, so the words of the prefix count as a common
  topic: two rules about different things are offered for review.
- **Claims.** The environment of the first writer stays. The list of conflicts and what
  blocks a claim disagree for supersedes edges and equal timestamps
  (`ConflictAnswersAgree` excludes them). A run that began on one tree and ended on
  another is recorded for the tree of the end.

## 7. Abstractions

- **Clocks.** Compiles read distinct milliseconds. The code breaks ties by the hash of
  the row's id; a tie between two builds that differ in nothing else is refused by
  the artifact's primary key. `at` also stands for the random lock token, which is as
  unique.
- **Hashes** do not collide: contents, dependencies and manifests are compared by value.
- **Shapes at Start.** What the compile will read is chosen with its clock. Nothing
  the choice depends on is shared, so choosing early loses no behaviour.
- **Item pairs.** An `OMIT_UNCHANGED` item stands for itself and the
  `RESTORE_AVAILABLE` item written with it.
- **Budget.** ContextLedger lets a pack drop any subset of the droppable items, so no
  order of dropping is excluded; PackBudget is the order of the code.
- **Failures.** Any throw before the build is `Abandon`; any throw in its transaction
  is `RollBack`; a last write that stays busy past `busy_timeout` ends like a death.
- **Renewal.** `renewLock` never applies: each compile draws a fresh token.
- **Tokens.** A notice repeats the ids of its session and artifact; PackBudget takes them
  to be equally long in all sessions and artifacts.
- **Builds beside retention.** In Retention a build and the taking of its lock are one
  step, as in the code; what a compile does before is CompileProcess's. A lock is
  given back some time or never. Deleted artifacts keep their place in `artifacts`,
  which numbers them; `stored` is the table.
- **Names and text.** A content is a model value with what parsing it finds; words,
  rendering, excerpts, ranking weights within a reason and the 12-term and 8-hit limits
  of search are left out. Package roots go by path, not by manifest.
- **Claims** reads and writes a snapshot as one value; SnapshotStore is about its parts.
  Candidate rows written beside promotions, feature flags and clock ties are left out.
  A process that dies takes no further step, which needs no action of its own.
- **Server.** Tools that only read are one result each. What is recorded is a set of
  notes that grows; how a compile uses a note is data of the instance, in which a
  recorded run is listed among the sources and, in its own session, changes what is
  retrieved. Dependencies on relationships are not compared by restore, as in the code.
- **LocalProject.** The database with its -wal and -shm files is one file; symlink and
  tracked-path checks, the Git exclude entry, backups of the configuration, dry runs and
  the opening for session writes are left out. `Break` happens while no command runs.
- **Artifacts seen by Inspection.** Every artifact of the code at this commit carries a
  warning that makes it partial; the instances have artifacts that are not, which is more
  than the code has.
- **Stored evidence.** `EvidenceIsComplete` counts the sources of a snapshot's files; recorded
  runs and decisions are rows of the same table in the code, and inserting a row that
  is there does nothing.
- **Inspection.** Setup errors are LocalProject's; listings that show rows as they are
  have no operator.
- **Left out** of the ledger because nothing modelled reads them: send counts,
  turn numbers, base commit, session status, the events other than those of
  invalidation. Stored dependency references are taken to parse.

## 8. Not modelled, and the plan

Not modelled, with the reason:

- **State names**: a table no source file reads.
- **Command line, rendering, transport shapes**: formatting around the operations.
- **MCP client configuration** (`setup/mcp-client-config.ts`): read, merge and truncate
  a file another program owns, without a lock; what the other program does with it is
  not in the repository.
- **Project detection and doctor**: read-only heuristics over file names.
- **Parsing, type-aware call resolution, language providers, package metadata, secret
  patterns, word splitting**: functions of text; their results are data of the instances.
- **Section rendering and selection** of the artifact compiler, beyond what the ledger,
  claims and store read of an artifact.
- **Export**: copies what is there.
- **Benchmark**: a harness over the same operations.
- The rename of a database before its -wal and -shm files (`setup/storage.ts:87`), see
  LocalProject above; and that purge may delete under a lock taken after its check
  (`privacy/purge.ts:120`), which the model does as the code does and no document
  denies.

Four hazards of the list are contained in the modules and caught by no property:

- a `branchChanged` that is stale because another compile of the session committed in
  between (`compile-session.ts:36`): `InspectionIsTrue` holds with one process only, see
  finding 3;
- a snapshot torn between branch, commit, status and files (`repo-snapshot.ts:109`): it is
  stored as read, and no document promises otherwise;
- a contradiction and its resolution in one millisecond (`claim-edge-policy.ts:163`);
- a worktree that changes while an observed command runs (`observed-runner.ts:61`): the
  result is recorded for the tree of the end.

What is left to prove: that claims and snapshots of SnapshotStore and Claims agree
where both describe the same tables; and the safety half of what `LockReleased` and
`Recovers` say (a step that could release is never disabled by another process).
