---------------------------- MODULE ContextLedger ----------------------------
(***************************************************************************)
(* The session-scoped context ledger: what Grape remembers having sent to  *)
(* an agent, and how one durable build (src/app/durable-context-build.ts)  *)
(* turns a freshly compiled artifact into a pack of new, changed, pinned,  *)
(* omitted and invalidated items against that memory.                      *)
(*                                                                         *)
(* A build is one SQLite transaction, so it is one action here.  Artifacts *)
(* are numbered in commit order; `at` is the clock the compile read when   *)
(* it STARTED and stored as created_at / last_sent_at.  Compiles of        *)
(* several processes may commit in another order than they started.        *)
(***************************************************************************)
EXTENDS Integers, Sequences, FiniteSets

CONSTANTS
    Sessions,   \* session identifiers
    Sections,   \* section identifiers (task-retrieval, exact-source-evidence...)
    Shapes,     \* what a compile can produce: see IsShape
    Clocks      \* the millisecond timestamps compiles read when they start

Kinds == {"pinned", "required", "optional"}

(***************************************************************************)
(* A compiled artifact, as far as the ledger looks at it: the branch and   *)
(* commit it was compiled for, its manifest hash, the hash of each         *)
(* dependency in the manifest, and its sections: content hash, the         *)
(* dependencies they refer to, and whether the budget may drop them.       *)
(***************************************************************************)
IsShape(sh) ==
    /\ DOMAIN sh = {"branch", "commit", "manifest", "deps", "sections"}
    /\ DOMAIN sh.sections \subseteq Sections
    /\ \A x \in DOMAIN sh.sections :
          /\ DOMAIN sh.sections[x] = {"content", "refs", "kind"}
          /\ sh.sections[x].refs \subseteq DOMAIN sh.deps
          /\ sh.sections[x].kind \in Kinds

ASSUME ShapesAreShapes == \A sh \in Shapes : IsShape(sh)

\* The manifest hash covers every dependency: equal manifests, equal hashes.
ASSUME ManifestCoversDeps ==
    \A a, b \in Shapes : a.manifest = b.manifest => a.deps = b.deps

\* The content hash of a section covers its dependency references.
ASSUME ContentCoversRefs ==
    \A a, b \in Shapes : \A x \in (DOMAIN a.sections) \cap (DOMAIN b.sections) :
        a.sections[x].content = b.sections[x].content
            => a.sections[x].refs = b.sections[x].refs

ASSUME ClocksAreNaturals == Clocks \subseteq Nat

VARIABLES
    artifacts,  \* context_artifacts with their dependencies, in commit order
    packItems,  \* context_pack_items
    sent,       \* context_sent_items
    omitted     \* omitted_context_items

ledgerVars == <<artifacts, packItems, sent, omitted>>

SentStates == {"NEW", "CHANGED", "PINNED"}
NoItem == [artifact |-> 0]      \* previousItemId is undefined

ArtifactIds == 1 .. Len(artifacts)
ArtifactOf(row) == artifacts[row.artifact]
SessionOf(row) == ArtifactOf(row).session
SectionOf(row) == ArtifactOf(row).shape.sections[row.section]

LedgerInit ==
    /\ artifacts = << >>
    /\ packItems = {}
    /\ sent = {}
    /\ omitted = {}

----------------------------------------------------------------------------
(* Reading the ledger: the queries of context-ledger/repositories.ts *)

Invalidated(row) ==
    \E p \in packItems :
        /\ p.state = "INVALIDATE_PREVIOUS"
        /\ p.previous = row
        /\ SessionOf(p) = SessionOf(row)

\* Mutant: rows that were invalidated still count as held by the agent.
ActiveSentKeepsInvalidated(s) == {row \in sent : SessionOf(row) = s}

ActiveSent(s) == {row \in sent : SessionOf(row) = s /\ ~Invalidated(row)}

\* Mutant: the oldest active row of a section instead of the newest.
OldestActive(s) ==
    {row \in ActiveSent(s) :
        ~\E older \in ActiveSent(s) :
            /\ older.section = row.section
            /\ ArtifactOf(older).at < ArtifactOf(row).at}

\* The active row of each section that was sent last, by the clock.
LatestActive(s) ==
    {row \in ActiveSent(s) :
        ~\E newer \in ActiveSent(s) :
            /\ newer.section = row.section
            /\ ArtifactOf(newer).at > ArtifactOf(row).at}

HasPackRow(row) ==
    \E p \in packItems :
        /\ p.artifact = row.artifact
        /\ p.section = row.section
        /\ p.state = row.state

----------------------------------------------------------------------------
(* One build *)

\* Mutant: compares the sets of references and not the hashes behind them.
DriftOfReferencesOnly(row, shape) ==
    \/ row.section \notin DOMAIN shape.sections
    \/ SectionOf(row).refs # shape.sections[row.section].refs

DependencyDrift(row, shape) ==
    LET refs == SectionOf(row).refs
        old  == ArtifactOf(row).shape.deps
    IN  \/ row.section \notin DOMAIN shape.sections
        \/ ~HasPackRow(row)
        \/ refs # shape.sections[row.section].refs
        \/ \E ref \in refs :
              \/ ref \notin DOMAIN shape.deps
              \/ old[ref] # shape.deps[ref]

Stale(row, shape) ==
    LET old == ArtifactOf(row).shape
    IN  \/ old.branch # shape.branch
        \/ old.commit # shape.commit
        \/ old.manifest # shape.manifest /\ DependencyDrift(row, shape)

\* The rows of the prior context that this artifact makes stale.
StalePrior(s, shape, reset) ==
    {row \in LatestActive(s) : reset \/ Stale(row, shape)}

CurrentPrior(s, shape, reset) ==
    LatestActive(s) \ StalePrior(s, shape, reset)

Previous(current, x) ==
    IF \E row \in current : row.section = x
    THEN CHOOSE row \in current : row.section = x
    ELSE NoItem

DiffState(section, previous) ==
    IF section.kind = "pinned" THEN "PINNED"
    ELSE IF previous = NoItem THEN "NEW"
    ELSE IF SectionOf(previous).content # section.content THEN "CHANGED"
    ELSE "OMIT_UNCHANGED"

\* An OMIT_UNCHANGED item stands for the RESTORE_AVAILABLE item written with it.
DiffItems(n, shape, current) ==
    {[artifact |-> n, section |-> x, previous |-> Previous(current, x),
      state |-> DiffState(shape.sections[x], Previous(current, x))]
        : x \in DOMAIN shape.sections}

InvalidationItems(n, stale) ==
    {[artifact |-> n, section |-> row.section, previous |-> row,
      state |-> "INVALIDATE_PREVIOUS"] : row \in stale}

\* Mutant: the budget takes exact evidence for optional context.
DroppableExactEvidence(items, shape) ==
    {i \in items : /\ i.state \in {"NEW", "CHANGED"}
                   /\ shape.sections[i.section].kind # "pinned"}

\* What a token budget may leave out: everything else is required context.
Droppable(items, shape) ==
    {i \in items : /\ i.state \in {"NEW", "CHANGED"}
                   /\ shape.sections[i.section].kind = "optional"}

\* Mutant: every section that is not invalidated is recorded as sent.
SentRowsWithOmitted(items) ==
    {[artifact |-> i.artifact, section |-> i.section, state |-> i.state]
        : i \in items}

SentRows(items) ==
    {[artifact |-> i.artifact, section |-> i.section, state |-> i.state]
        : i \in {j \in items : j.state \in SentStates}}

OmittedRows(items) ==
    {[artifact |-> i.artifact, section |-> i.section]
        : i \in {j \in items : j.state = "OMIT_UNCHANGED"}}

\* artifact_id hashes created_at, so the same request compiled twice at one time is
\* refused by the primary key.  Different requests are taken to read different times.
Unused(at) == \A n \in ArtifactIds : artifacts[n].at # at

\* The rows of a build, by table.
InsertArtifact(row) == artifacts' = Append(artifacts, row)
InsertPackItems(rows) == packItems' = packItems \cup rows
InsertSentItems(rows) == sent' = sent \cup rows
InsertOmittedItems(rows) == omitted' = omitted \cup rows

Build(s, shape, at, reset) ==
    LET n     == Len(artifacts) + 1
        stale == StalePrior(s, shape, reset)
        diff  == DiffItems(n, shape, CurrentPrior(s, shape, reset))
    IN  /\ Unused(at)
        /\ \E dropped \in SUBSET Droppable(diff, shape) :
              /\ InsertArtifact([session |-> s, at |-> at, shape |-> shape,
                                 reset |-> reset,
                                 dropped |-> {i.section : i \in dropped}])
              /\ InsertPackItems(InvalidationItems(n, stale) \cup (diff \ dropped))
              /\ InsertSentItems(SentRows(diff \ dropped))
              /\ InsertOmittedItems(OmittedRows(diff))

LedgerNext ==
    \E s \in Sessions, shape \in Shapes, at \in Clocks, reset \in BOOLEAN :
        Build(s, shape, at, reset)

LedgerSpec == LedgerInit /\ [][LedgerNext]_ledgerVars

\* Compiles that never overlap commit in the order of their clocks.
InOrderNext ==
    \E s \in Sessions, shape \in Shapes, reset \in BOOLEAN :
        /\ Len(artifacts) + 1 \in Clocks
        /\ Build(s, shape, Len(artifacts) + 1, reset)

InOrderSpec == LedgerInit /\ [][InOrderNext]_ledgerVars

----------------------------------------------------------------------------
(* Properties *)

Artifact == [session : Sessions, at : Clocks, shape : Shapes,
             reset : BOOLEAN, dropped : SUBSET Sections]

SentRow == [artifact : ArtifactIds, section : Sections, state : SentStates]

OmittedItem == [artifact : ArtifactIds, section : Sections]

PackItem ==
    [artifact : ArtifactIds, section : Sections, previous : SentRow \cup {NoItem},
     state : SentStates \cup {"OMIT_UNCHANGED", "INVALIDATE_PREVIOUS"}]

\* Types and references: every ledger row belongs to a stored artifact.
TypeOK ==
    /\ artifacts \in Seq(Artifact)
    /\ sent \subseteq SentRow
    /\ omitted \subseteq OmittedItem
    /\ packItems \subseteq PackItem

\* The agent was told, up to and including artifact n, that row is invalid.
InvalidatedBy(row, n) ==
    \E p \in packItems :
        /\ p.state = "INVALIDATE_PREVIOUS"
        /\ p.previous = row
        /\ p.artifact \leq n

\* The two rows rest on the same branch, commit and dependency hashes.
SameEvidence(old, new) ==
    /\ ArtifactOf(old).shape.branch = ArtifactOf(new).shape.branch
    /\ ArtifactOf(old).shape.commit = ArtifactOf(new).shape.commit
    /\ \A ref \in SectionOf(old).refs :
          /\ ref \in DOMAIN ArtifactOf(new).shape.deps
          /\ ArtifactOf(old).shape.deps[ref] = ArtifactOf(new).shape.deps[ref]

\* row justifies leaving o out of its pack.
Backs(row, o) ==
    /\ row.artifact < o.artifact
    /\ row.section = o.section
    /\ SessionOf(row) = SessionOf(o)
    /\ SectionOf(row).content = SectionOf(o).content
    /\ SameEvidence(row, o)
    /\ ~InvalidatedBy(row, o.artifact)

\* A section is left out of a pack only when an earlier pack of the SAME session
\* delivered exactly this content, on the same evidence, and no pack up to this
\* one told the agent that delivery was invalid (INV-DIFF-001; the diff, the
\* staleness partition and the ledger queries have to agree for it to hold).
OmitBacked == \A o \in omitted : \E row \in sent : Backs(row, o)

\* A stale delivery is announced once: no two invalidation items of any packs
\* name the same sent row, however often the repository moves back and forth.
InvalidateOnce ==
    \A p, q \in packItems :
        /\ p.state = "INVALIDATE_PREVIOUS"
        /\ q.state = "INVALIDATE_PREVIOUS"
        /\ p.previous = q.previous
        => p = q

LastBuildOf(s) == {n \in ArtifactIds : /\ artifacts[n].session = s
                                       /\ \A m \in ArtifactIds :
                                             artifacts[m].session = s => m \leq n}

\* What the next build will take for "what the agent holds" is what the last
\* pack of the session left it with: the latest active row of every section that
\* was packed has the content of that pack.  (When compiles of one session do
\* not overlap: the rows are ordered by start clock.)
LedgerMatchesLastPack ==
    \A s \in Sessions : \A n \in LastBuildOf(s) :
        LET shape == artifacts[n].shape IN
        \A x \in (DOMAIN shape.sections) \ artifacts[n].dropped :
            \E row \in LatestActive(s) :
                /\ row.section = x
                /\ SectionOf(row).content = shape.sections[x].content
                /\ ~Stale(row, shape)

\* After a reset the agent holds nothing, so a section may be left out only when
\* a pack of the reset build or a later one delivered it.
ResetForcesResend ==
    \A o \in omitted : \E row \in sent :
        /\ Backs(row, o)
        /\ ~\E m \in ArtifactIds :
              /\ artifacts[m].session = SessionOf(o)
              /\ artifacts[m].reset
              /\ row.artifact < m /\ m \leq o.artifact
=============================================================================
