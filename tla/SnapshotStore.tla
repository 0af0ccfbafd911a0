----------------------------- MODULE SnapshotStore -----------------------------
(***************************************************************************)
(* From the worktree to the rows a context is built from, and back to      *)
(* nothing: a compile takes a snapshot of a worktree that may move under   *)
(* it, persists snapshot, evidence and index in one transaction, reads the *)
(* index back, caches compressions and stores an artifact that refers to   *)
(* all of them; `grape compact --confirm` plans what is old, and deletes   *)
(* it later.  Compiles run in several processes, any of which may die.     *)
(*                                                                         *)
(* A snapshot is identified by a hash of what it holds: here by what it    *)
(* holds.  What compaction does to sent and omitted rows is in Retention,  *)
(* what a build does to them in ContextLedger.                             *)
(***************************************************************************)
EXTENDS TaskRetrieval

CONSTANTS
    Trees,           \* [name -> [branch, commit, listed, status, files]]
    FirstTree,       \* the tree the worktree starts with
    GitIgnored, PrivacyIgnored, RuntimePaths,   \* paths the policies exclude
    Processes, Sessions,
    Requests,        \* [session -> what its task asks for, see TaskRetrieval]
    MaxCompiles, MaxMoves, MaxCompactions       \* bounds

\* None is an absent row, and the absence of a process.
ASSUME NoneIsNoProcess == None \notin Processes

\* And of a reason to reject a file.
ASSUME NoneIsNoReason ==
    None \notin {"git_ignored", "privacy_ignored", "grape_runtime", "unreadable",
                 "too_large", "binary"}

ASSUME FirstTreeIsThere == FirstTree \in DOMAIN Trees

ASSUME MaxCompilesIsNatural == MaxCompiles \in Nat

\* A worktree has finitely many files, each with a name and a content.
ASSUME TreesAreFinite ==
    \A tree \in DOMAIN Trees :
        /\ IsFiniteSet(Trees[tree].listed) /\ Trees[tree].listed \subseteq DOMAIN PathOrder
        /\ \A path \in DOMAIN Trees[tree].files : Trees[tree].files[path] \in DOMAIN Contents

\* So has a file its declarations, and a task its words.
ASSUME WordsAreFinite ==
    /\ \A content \in DOMAIN Contents : IsFiniteSet(Contents[content].declares)
    /\ \A s \in Sessions : IsFiniteSet(Requests[s].terms)

VARIABLES
    work,            \* the tree in the worktree
    clock,           \* the time of the last compile that started
    job,             \* job[p]: the compile of process p, and how far it is
    snapshots,       \* repo_snapshots: [snapshot -> when it was stored]
    worktrees,       \* worktree_states: the snapshots that have one
    sources,         \* [snapshot -> paths]
    rejections,      \* source_rejections: [snapshot -> [path, reason, content] rows]
    nodes,           \* symbol_nodes: [snapshot -> [symbol, content, at] rows]
    edges,           \* symbol_edges: [snapshot -> [edge, at] rows]
    entries,         \* fts_entries: [snapshot -> [path, content, at] rows]
    sessions,        \* sessions[s]: the snapshot of the context_sessions row, or None
    compressions,    \* compression_artifacts: [kind, snapshot, inputs, at]
    artifacts,       \* context_artifacts: [session, at, snapshot, compressions, symbols]
    writer,          \* the process in a write transaction, or None
    task,            \* the compaction, and how far it is
    spent            \* moves and compactions so far

worktreeVars == <<work, clock, spent>>
evidenceVars == <<snapshots, worktrees, sources, rejections>>
indexVars == <<nodes, edges, entries>>
contextVars == <<sessions, compressions, artifacts>>
storeVars == <<work, clock, job, snapshots, worktrees, sources, rejections, nodes,
               edges, entries, sessions, compressions, artifacts, writer, task, spent>>

----------------------------------------------------------------------------
(* Taking a snapshot *)

Disk == Trees[work].files

SourceScopeForStatus(code) ==
    IF code.index = "?" /\ code.worktree = "?" THEN "untracked"
    ELSE IF code.worktree \notin {" ", "?"} THEN "unstaged"
    ELSE IF code.index \notin {" ", "?"} THEN "staged" ELSE "unstaged"

DirtyPathScopes(status) ==
    [path \in DOMAIN status \ (GitIgnored \cup PrivacyIgnored) |->
        SourceScopeForStatus(status[path])]

\* Why a listed path is not hashed into the snapshot.
RejectionReason(disk, path) ==
    IF path \in GitIgnored THEN "git_ignored"
    ELSE IF path \in PrivacyIgnored THEN "privacy_ignored"
    ELSE IF path \in RuntimePaths THEN "grape_runtime"
    ELSE IF path \notin DOMAIN disk THEN "unreadable"
    ELSE IF Contents[disk[path]].form = "huge" THEN "too_large"
    ELSE IF Contents[disk[path]].form = "binary" THEN "binary"
    ELSE None

Rejection(disk, path) ==
    [path |-> path, reason |-> RejectionReason(disk, path),
     content |-> IF RejectionReason(disk, path) = "binary" THEN disk[path] ELSE None]

\* A listed path that is neither a file nor a link, such as a submodule, is left out.
FileManifest(disk, listed) ==
    LET rejected == {path \in listed : RejectionReason(disk, path) # None}
        hashed == {path \in listed \ rejected : Contents[disk[path]].form # "directory"} IN
    [files |-> [path \in hashed |-> disk[path]],
     rejected |-> {Rejection(disk, path) : path \in rejected}]

RepoSnapshot(head, dirty, manifest) ==
    [branch |-> head.branch, commit |-> head.commit, dirty |-> dirty,
     files |-> manifest.files, rejected |-> manifest.rejected]

Idle == [step |-> "idle"]
Failed(why) == [step |-> "failed", why |-> why]
Goto(p, next) == job' = [job EXCEPT ![p] = next]
AtStep(p, step) == job[p].step = step

\* A compile that has its snapshot, and nothing it read of it.
OnlySnapshot(p, step) ==
    [step |-> step, session |-> job[p].session, at |-> job[p].at, id |-> job[p].id]

\* Branch, commit, status and files are asked for one after the other.
ReadBranch(p, s) ==
    /\ job[p].step \in {"idle", "failed"}
    /\ clock < MaxCompiles
    /\ clock' = clock + 1
    /\ Goto(p, [step |-> "branch", session |-> s, at |-> clock + 1,
                branch |-> Trees[work].branch])
    /\ UNCHANGED <<work, spent, evidenceVars, indexVars, contextVars, writer, task>>

ReadHead(p) ==
    /\ AtStep(p, "branch")
    /\ Goto(p, [step |-> "head", session |-> job[p].session, at |-> job[p].at,
                branch |-> job[p].branch, commit |-> Trees[work].commit])
    /\ UNCHANGED <<worktreeVars, evidenceVars, indexVars, contextVars, writer, task>>

ReadStatus(p) ==
    /\ AtStep(p, "head")
    /\ Goto(p, [step |-> "status", session |-> job[p].session, at |-> job[p].at,
                branch |-> job[p].branch, commit |-> job[p].commit,
                dirty |-> DirtyPathScopes(Trees[work].status)])
    /\ UNCHANGED <<worktreeVars, evidenceVars, indexVars, contextVars, writer, task>>

ReadFiles(p) ==
    /\ AtStep(p, "status")
    /\ Goto(p, [step |-> "taken", session |-> job[p].session, at |-> job[p].at,
                id |-> RepoSnapshot(job[p], job[p].dirty,
                                    FileManifest(Disk, Trees[work].listed))])
    /\ UNCHANGED <<worktreeVars, evidenceVars, indexVars, contextVars, writer, task>>

----------------------------------------------------------------------------
(* Persisting snapshot, evidence and index: one transaction *)

SnapshotIds == DOMAIN snapshots

\* The rows of a table that belong to a snapshot, all others, and a table with more rows.
RowsOf(table, id) == IF id \in DOMAIN table THEN table[id] ELSE {}
NotOf(table, ids) == [id \in DOMAIN table \ ids |-> table[id]]
WithRows(table, id, rows) ==
    IF rows = {} THEN table
    ELSE [i \in DOMAIN table \cup {id} |-> RowsOf(table, i) \cup (IF i = id THEN rows ELSE {})]

Materialized(id) == id \in SnapshotIds /\ id \in worktrees

SourceRows(id) == DOMAIN id.files
RejectionRows(id) == id.rejected

EvidenceIsComplete(id) ==
    /\ Cardinality(RowsOf(sources, id)) = Cardinality(SourceRows(id))
    /\ RejectionRows(id) \subseteq RowsOf(rejections, id)

\* Any row counts: a part of an index is an index.
IndexIsPresent(id) ==
    \/ DOMAIN id.files = {}
    \/ /\ SourceLike(id.files) # {} => RowsOf(nodes, id) # {}
       /\ RowsOf(entries, id) # {}

Reusable(id) == Materialized(id) /\ EvidenceIsComplete(id) /\ IndexIsPresent(id)

\* The snapshot is there with all its rows: nothing is written.
ReuseSnapshot(p) ==
    /\ AtStep(p, "taken")
    /\ writer = None
    /\ Reusable(job[p].id)
    /\ Goto(p, OnlySnapshot(p, "persisted"))
    /\ UNCHANGED <<worktreeVars, evidenceVars, indexVars, contextVars, writer, task>>

\* The files are read once for the symbols, and once more for the text.
IndexSymbols(p) ==
    /\ AtStep(p, "taken")
    /\ writer = None
    /\ ~Reusable(job[p].id)
    /\ writer' = p
    /\ LET files == job[p].id.files IN
       Goto(p, [step |-> "indexing", session |-> job[p].session, at |-> job[p].at,
                id |-> job[p].id, texts |-> TextsOf(Disk, files, SourceLike(files))])
    /\ UNCHANGED <<worktreeVars, evidenceVars, indexVars, contextVars, task>>

NodeRows(texts, at) ==
    {[symbol |-> node, content |-> texts[node.path], at |-> at] : node \in FileNodes(texts)}

EdgeRows(files, texts, at) == {[edge |-> edge, at |-> at] : edge \in FileEdges(files, texts)}

EntryRows(texts, at) ==
    {[path |-> entry.path, content |-> entry.content, at |-> at] :
        entry \in LexicalEntries(texts)}

\* Sources and rejections, whatever is there already.
PersistSnapshotEvidence(id) ==
    /\ sources' = WithRows(sources, id, SourceRows(id))
    /\ rejections' = WithRows(rejections, id, RejectionRows(id))

\* INSERT OR IGNORE: a row that is there keeps its time.
SnapshotRow(id, at) ==
    [i \in SnapshotIds \cup {id} |-> IF i \in SnapshotIds THEN snapshots[i] ELSE at]

\* So do symbols, edges and texts.
NewNodes(id, rows) == {row \in rows : \A n \in RowsOf(nodes, id) : n.symbol # row.symbol}
NewEdges(id, rows) == {row \in rows : \A e \in RowsOf(edges, id) : e.edge # row.edge}
NewEntries(id, rows) == {row \in rows : \A e \in RowsOf(entries, id) : e.path # row.path}

\* OR IGNORE does not cover foreign keys: both ends of an edge have to be rows.
\* Mutant: edges may point to symbols that nobody stored.
EdgeEndsUnchecked(edgeRows, nodeRows) == TRUE

EdgeEndsExist(edgeRows, nodeRows) ==
    UNION {{row.edge.from, row.edge.to} : row \in edgeRows}
        \subseteq {row.symbol : row \in nodeRows} \cup {None}

\* Mutant: each row is a transaction of its own, and a failing one undoes nothing.
AbandonIndexKeepingRows(p) ==
    /\ AtStep(p, "indexing")
    /\ writer = p
    /\ writer' = None
    /\ snapshots' = SnapshotRow(job[p].id, job[p].at)
    /\ Goto(p, Failed("index"))
    /\ UNCHANGED <<worktreeVars, worktrees, sources, rejections, indexVars, contextVars, task>>

\* The process dies, or a row is refused: the database rolls everything back.
AbandonIndex(p) ==
    /\ AtStep(p, "indexing")
    /\ writer = p
    /\ writer' = None
    /\ Goto(p, Failed("died"))
    /\ UNCHANGED <<worktreeVars, evidenceVars, indexVars, contextVars, task>>

IndexText(p) ==
    /\ AtStep(p, "indexing")
    /\ LET id == job[p].id
           at == job[p].at
           texts == TextsOf(Disk, id.files, DOMAIN id.files)
           newNodes == NewNodes(id, NodeRows(job[p].texts, at))
           newEdges == NewEdges(id, EdgeRows(id.files, job[p].texts, at))
           ends == RowsOf(nodes, id) \cup newNodes IN
       \/ /\ EdgeEndsExist(newEdges, ends)
          /\ snapshots' = SnapshotRow(id, at)
          /\ worktrees' = worktrees \cup {id}
          /\ PersistSnapshotEvidence(id)
          /\ nodes' = WithRows(nodes, id, newNodes)
          /\ edges' = WithRows(edges, id, newEdges)
          /\ entries' = WithRows(entries, id, NewEntries(id, EntryRows(texts, at)))
          /\ Goto(p, OnlySnapshot(p, "persisted"))
       \/ /\ ~EdgeEndsExist(newEdges, ends)
          /\ Goto(p, Failed("index"))
          /\ UNCHANGED <<evidenceVars, indexVars>>
    /\ writer' = None
    /\ UNCHANGED <<worktreeVars, contextVars, task>>

----------------------------------------------------------------------------
(* Building the context: each write is refused when the snapshot it names
   has gone. *)

\* Makes a write that needs the snapshot row, or fails.
OnSnapshot(p, write, next) ==
    IF job[p].id \in SnapshotIds THEN write /\ next
    ELSE Goto(p, Failed("row")) /\ UNCHANGED contextVars

OpenSession(p) ==
    /\ AtStep(p, "persisted")
    /\ writer = None
    /\ LET s == job[p].session
           opened == [step |-> "opened", session |-> s, at |-> job[p].at, id |-> job[p].id,
                      existed |-> sessions[s] # None] IN
       \/ /\ sessions[s] # None
          /\ Goto(p, opened)
          /\ UNCHANGED contextVars
       \/ /\ sessions[s] = None
          /\ OnSnapshot(p, /\ sessions' = [sessions EXCEPT ![s] = job[p].id]
                           /\ UNCHANGED <<compressions, artifacts>>,
                        Goto(p, opened))
    /\ UNCHANGED <<worktreeVars, evidenceVars, indexVars, writer, task>>

ReadSymbols(p) ==
    /\ AtStep(p, "opened")
    /\ Goto(p, [step |-> "symbols", session |-> job[p].session, at |-> job[p].at,
                id |-> job[p].id, existed |-> job[p].existed,
                symbols |-> {row.symbol : row \in RowsOf(nodes, job[p].id)}])
    /\ UNCHANGED <<worktreeVars, evidenceVars, indexVars, contextVars, writer, task>>

\* An edge to nothing that was resolved is a relationship to what it was called.
Relationships(symbols, read) ==
    {[kind |-> edge.type, from |-> edge.from.path,
      to |-> IF edge.to = None THEN edge.ref ELSE edge.to.path] :
        edge \in {e \in read : /\ e.type \in {"imports", "calls"}
                               /\ {e.from, e.to} \ {None} \subseteq symbols}}

\* At most eight files for each term: more than any tree of the instance has.
Hits(id, terms) ==
    UNION {{[ref |-> row.path, term |-> term] :
               term \in terms \cap Contents[row.content].terms} : row \in RowsOf(entries, id)}

\* The edges and the text are read after the symbols, and the task is looked up in them.
RetrieveSources(p) ==
    /\ AtStep(p, "symbols")
    /\ LET id == job[p].id
           request == Requests[job[p].session]
           read == {row.edge : row \in RowsOf(edges, id)} IN
       Goto(p, [step |-> "read", session |-> job[p].session, at |-> job[p].at, id |-> id,
                existed |-> job[p].existed, symbols |-> job[p].symbols, edges |-> read,
                retrieval |-> ResolveTaskRetrieval(
                    [refs |-> RowsOf(sources, id),
                     symbols |-> job[p].symbols,
                     relationships |-> Relationships(job[p].symbols, read),
                     hits |-> Hits(id, request.terms)], request)])
    /\ UNCHANGED <<worktreeVars, evidenceVars, indexVars, contextVars, writer, task>>

\* The symbols of the selected files; of all when nothing was selected.
SelectedSymbolNodes(symbols, selected) ==
    IF selected = {} THEN symbols ELSE {s \in symbols : s.path \in selected}

Compression(kind, id, inputs) == [kind |-> kind, snapshot |-> id, inputs |-> inputs]

\* A rule file is read once more: its text counts while it is what the snapshot hashed.
RuleExcerpts(disk, id) ==
    {[ref |-> path, content |-> disk[path]] :
        path \in {p \in RowsOf(sources, id) :
                    SourceKinds[p] = "rule" /\ p \in DOMAIN disk /\ disk[p] = id.files[p]}}

\* What nothing can be made of is not stored.
Outline(id, symbols, read) ==
    IF symbols \cup read = {} THEN {}
    ELSE {Compression("symbol_outline", id, symbols \cup read)}
RuleDigest(id, excerpts) ==
    IF excerpts = {} THEN {} ELSE {Compression("rule_digest", id, excerpts)}
PackSummary(id, sent) ==
    IF sent = {} THEN {} ELSE {Compression("context_pack_summary", id, sent)}

\* An upsert: a row that is there keeps the time it was created.
CompressionsWith(made, at) ==
    compressions \cup
        {[of |-> c, at |-> at] : c \in {m \in made : \A row \in compressions : row.of # m}}

SentBy(s) == {a.at : a \in {b \in artifacts : b.session = s}}

\* Which of the things sent before are not stale is decided in ContextLedger.
Compress(p) ==
    /\ AtStep(p, "read")
    /\ writer = None
    /\ \E current \in SUBSET SentBy(job[p].session) :
          LET made == Outline(job[p].id, job[p].symbols, job[p].edges)
                        \cup RuleDigest(job[p].id, RuleExcerpts(Disk, job[p].id))
                        \cup PackSummary(job[p].id, current)
              compressed == [step |-> "compressed", session |-> job[p].session,
                  at |-> job[p].at, id |-> job[p].id, existed |-> job[p].existed,
                  compressions |-> made,
                  symbols |-> SelectedSymbolNodes(job[p].symbols, job[p].retrieval.selected)] IN
          \/ /\ made = {}
             /\ Goto(p, compressed)
             /\ UNCHANGED contextVars
          \/ /\ made # {}
             /\ OnSnapshot(p, /\ compressions' = CompressionsWith(made, job[p].at)
                              /\ UNCHANGED <<sessions, artifacts>>,
                           Goto(p, compressed))
    /\ UNCHANGED <<worktreeVars, evidenceVars, indexVars, writer, task>>

\* The artifact with its dependencies; a session row that was there follows.
BuildArtifact(p) ==
    /\ AtStep(p, "compressed")
    /\ writer = None
    /\ OnSnapshot(p,
          /\ artifacts' = artifacts \cup
                {[session |-> job[p].session, at |-> job[p].at, snapshot |-> job[p].id,
                  compressions |-> job[p].compressions, symbols |-> job[p].symbols]}
          /\ sessions' = IF job[p].existed
                         THEN [sessions EXCEPT ![job[p].session] = job[p].id] ELSE sessions
          /\ UNCHANGED compressions,
          Goto(p, OnlySnapshot(p, "built")))
    /\ UNCHANGED <<worktreeVars, evidenceVars, indexVars, writer, task>>

\* The summary for the next compile, after the commit of the build.
SummarizeSent(p) ==
    /\ AtStep(p, "built")
    /\ writer = None
    /\ LET id == job[p].id
           sent == {a.at : a \in {b \in artifacts :
                        /\ b.session = job[p].session
                        /\ b.snapshot.branch = id.branch
                        /\ b.snapshot.commit = id.commit}}
           made == PackSummary(id, sent) IN
       \/ /\ made = {}
          /\ Goto(p, Idle)
          /\ UNCHANGED contextVars
       \/ /\ made # {}
          /\ OnSnapshot(p, /\ compressions' = CompressionsWith(made, job[p].at)
                           /\ UNCHANGED <<sessions, artifacts>>,
                        Goto(p, Idle))
    /\ UNCHANGED <<worktreeVars, evidenceVars, indexVars, writer, task>>

----------------------------------------------------------------------------
(* Compaction.  cut[class] is the last time that is old enough: what age and
   row limit select, together, are always the oldest of a class. *)

CutClasses == {"artifacts", "compressions", "entries", "derived", "snapshots"}

NewestAt(rows) == Max({row.at : row \in rows})

IsLatestSnapshot(id) == \A older \in SnapshotIds : snapshots[older] \leq snapshots[id]

\* Which of them are protected by what the agent holds is in Retention.
ArtifactsToDelete(cut) ==
    {a \in artifacts :
        /\ a.at \leq cut
        /\ \E b \in artifacts : b.session = a.session /\ b.at > a.at}

\* Mutant: old compressions go, whoever refers to them.
CompressionsToDeleteUnprotected(cut, ignored) == {row \in compressions : row.at \leq cut}

DependedOn(compression, ignored) ==
    \E a \in artifacts \ ignored : compression \in a.compressions

CompressionsToDelete(cut, ignored) ==
    {row \in compressions : row.at \leq cut /\ ~DependedOn(row.of, ignored)}

EntriesToDelete(cut) ==
    {id \in DOMAIN entries :
        /\ NewestAt(RowsOf(entries, id)) \leq cut
        /\ ~IsLatestSnapshot(id)}

ReferredTo(id, ignored) ==
    \E a \in artifacts \ ignored : a.snapshot = id /\ a.symbols # {}

\* Mutant: the index of the latest snapshot may go when it is old.
DerivedToDeleteWithLatest(cut, ignored) ==
    {id \in DOMAIN nodes \cup DOMAIN edges :
        /\ NewestAt(RowsOf(nodes, id) \cup RowsOf(edges, id)) \leq cut
        /\ ~ReferredTo(id, ignored)}

DerivedToDelete(cut, ignored) ==
    {id \in DOMAIN nodes \cup DOMAIN edges :
        /\ NewestAt(RowsOf(nodes, id) \cup RowsOf(edges, id)) \leq cut
        /\ ~IsLatestSnapshot(id)
        /\ ~ReferredTo(id, ignored)}

\* The snapshots that rows refer to which are left after the other classes.
SnapshotsInUse(keptArtifacts, keptCompressions, keptNodes, keptEdges, keptEntries) ==
    {sessions[s] : s \in Sessions}
        \cup {a.snapshot : a \in keptArtifacts}
        \cup {c.of.snapshot : c \in keptCompressions}
        \cup UNION {DOMAIN keptNodes, DOMAIN keptEdges, DOMAIN keptEntries, DOMAIN sources}

SnapshotProtected(id, used) == IsLatestSnapshot(id) \/ id \in used

SnapshotsToDelete(cut, used) ==
    {id \in SnapshotIds : snapshots[id] \leq cut /\ ~SnapshotProtected(id, used)}

PlanCompaction ==
    /\ task.step = "idle"
    /\ spent.compactions < MaxCompactions
    /\ spent' = [spent EXCEPT !.compactions = @ + 1]
    /\ \E old \in SUBSET CutClasses, at \in 1..clock :
          LET cut == [class \in CutClasses |-> IF class \in old THEN at ELSE 0]
              gone == ArtifactsToDelete(cut["artifacts"]) IN
          task' = [step |-> "planned", artifacts |-> gone,
                   compressions |-> CompressionsToDelete(cut["compressions"], gone),
                   entries |-> EntriesToDelete(cut["entries"]),
                   derived |-> DerivedToDelete(cut["derived"], gone),
                   cut |-> cut["snapshots"],
                   known |-> artifacts]
    /\ UNCHANGED <<work, clock, job, evidenceVars, indexVars, contextVars, writer>>

\* Deletes what was planned; the snapshots are planned again, with what is left.  What
\* refers to a deleted snapshot goes with it; sources never do, see SnapshotsToDelete.
DeletePlanned ==
    /\ task.step = "planned"
    /\ writer = None
    /\ LET keptArtifacts == artifacts \ task.artifacts
           keptCompressions == compressions \ task.compressions
           keptNodes == NotOf(nodes, task.derived)
           keptEdges == NotOf(edges, task.derived)
           keptEntries == NotOf(entries, task.entries)
           gone == SnapshotsToDelete(task.cut,
                       SnapshotsInUse(keptArtifacts, keptCompressions,
                                      keptNodes, keptEdges, keptEntries)) IN
       /\ snapshots' = NotOf(snapshots, gone)
       /\ worktrees' = worktrees \ gone
       /\ nodes' = NotOf(keptNodes, gone)
       /\ edges' = NotOf(keptEdges, gone)
       /\ entries' = NotOf(keptEntries, gone)
       /\ artifacts' = {a \in keptArtifacts : a.snapshot \notin gone}
       /\ compressions' = {c \in keptCompressions : c.of.snapshot \notin gone}
       /\ sessions' = [s \in Sessions |-> IF sessions[s] \in gone THEN None ELSE sessions[s]]
    /\ task' = Idle
    /\ UNCHANGED <<worktreeVars, job, sources, rejections, writer>>

----------------------------------------------------------------------------
(* The environment *)

Move ==
    /\ spent.moves < MaxMoves
    /\ spent' = [spent EXCEPT !.moves = @ + 1]
    /\ work' \in DOMAIN Trees \ {work}
    /\ UNCHANGED <<clock, job, evidenceVars, indexVars, contextVars, writer, task>>

\* A process that dies anywhere else leaves nothing open: it never takes its next step.
StoreInit ==
    /\ work = FirstTree
    /\ clock = 0
    /\ job = [p \in Processes |-> Idle]
    /\ snapshots = <<>> /\ worktrees = {} /\ sources = <<>> /\ rejections = <<>>
    /\ nodes = <<>> /\ edges = <<>> /\ entries = <<>>
    /\ sessions = [s \in Sessions |-> None]
    /\ compressions = {} /\ artifacts = {}
    /\ writer = None
    /\ task = Idle
    /\ spent = [moves |-> 0, compactions |-> 0]

TakeSnapshot(p) ==
    (\E s \in Sessions : ReadBranch(p, s)) \/ ReadHead(p) \/ ReadStatus(p) \/ ReadFiles(p)
PersistSnapshot(p) == ReuseSnapshot(p) \/ IndexSymbols(p) \/ IndexText(p) \/ AbandonIndex(p)
BuildContext(p) ==
    \/ OpenSession(p) \/ ReadSymbols(p) \/ RetrieveSources(p)
    \/ Compress(p) \/ BuildArtifact(p) \/ SummarizeSent(p)

StoreNext ==
    \/ \E p \in Processes : TakeSnapshot(p) \/ PersistSnapshot(p) \/ BuildContext(p)
    \/ PlanCompaction
    \/ DeletePlanned
    \/ Move

StoreSpec == StoreInit /\ [][StoreNext]_storeVars

----------------------------------------------------------------------------
(* Properties *)

KnownCompression(c) ==
    /\ c.kind \in {"symbol_outline", "rule_digest", "context_pack_summary"}
    /\ c.inputs # {}

\* Every row has its type, and whatever a row refers to is a row: nodes, edges, entries,
\* sessions, artifacts and compressions stand on a stored snapshot, edges join stored
\* symbols, and only a process in the middle of its index holds the database.
StoreTypeOK ==
    /\ work \in DOMAIN Trees
    /\ clock \in 0..MaxCompiles
    /\ \A p \in Processes : job[p].step = "indexing" <=> writer = p
    /\ writer \in Processes \cup {None}
    /\ worktrees \subseteq SnapshotIds
    /\ UNION {DOMAIN sources, DOMAIN nodes, DOMAIN edges, DOMAIN entries} \subseteq SnapshotIds
    /\ \A id \in DOMAIN edges :
          UNION {{row.edge.from, row.edge.to} : row \in edges[id]}
             \subseteq {row.symbol : row \in RowsOf(nodes, id)} \cup {None}
    /\ \A s \in Sessions : sessions[s] \in SnapshotIds \cup {None}
    /\ \A c \in compressions : KnownCompression(c.of) /\ c.of.snapshot \in SnapshotIds
    /\ \A a \in artifacts :
          a.session \in Sessions /\ a.at \in 1..clock /\ a.snapshot \in SnapshotIds

\* Files are hashed for the snapshot, read again for each half of the index, and rule files
\* once more for their digest: whatever happens in between, a symbol, a text or a rule under
\* a snapshot comes from the content that the snapshot hashed.
IndexMatchesSnapshot ==
    /\ \A id \in DOMAIN nodes : \A row \in nodes[id] :
          LET path == row.symbol.path IN
          /\ path \in DOMAIN id.files
          /\ row.content = id.files[path]
          /\ row.symbol \in {Module(path)} \cup
                {Symbol(path, name) : name \in Contents[row.content].declares}
    /\ \A id \in DOMAIN entries : \A row \in entries[id] :
          row.path \in DOMAIN id.files /\ row.content = id.files[row.path]
    /\ \A row \in compressions : row.of.kind = "rule_digest" =>
          \A rule \in row.of.inputs :
              /\ rule.ref \in DOMAIN row.of.snapshot.files
              /\ rule.content = row.of.snapshot.files[rule.ref]

\* Whatever fails while a snapshot is persisted, and whatever compaction deletes: a stored
\* snapshot has its worktree state, a source for each file and all its rejections.
SnapshotsAreWhole ==
    \A id \in SnapshotIds : id \in worktrees /\ EvidenceIsComplete(id)

\* Compiles store snapshots between the planning and the deletion of a compaction, and
\* with older times than those already there: no step takes a row of the index away from
\* the snapshot that is the latest at that time.
LatestIndexKept ==
    [][\A id \in SnapshotIds : IsLatestSnapshot(id) =>
          /\ RowsOf(nodes, id) \subseteq RowsOf(nodes', id)
          /\ RowsOf(edges, id) \subseteq RowsOf(edges', id)
          /\ RowsOf(entries, id) \subseteq RowsOf(entries', id)]_storeVars

\* An artifact that the plan of a compaction knew and that the compaction leaves in place
\* keeps the compressions and the symbols it was built from.
KnownArtifactsKeepTheirInputs ==
    [][task.step = "planned" /\ task'.step = "idle" =>
        \A a \in artifacts' \cap task.known :
            /\ \A row \in compressions : row.of \in a.compressions => row \in compressions'
            /\ \A row \in RowsOf(nodes, a.snapshot) :
                  row.symbol \in a.symbols => row \in RowsOf(nodes', a.snapshot)
      ]_storeVars

\* The fewest of the named tests that are kept, if there are as many.
TestShare == Min({4, Max({1, MaxSelected \div 4})})

\* Named files come first, and named tests get their share of the cap even then.  Only a
\* cap of one has no room for both.
SeedsComeFirst(retrieval) ==
    LET selected == retrieval.selected
        files == retrieval.refsFor.explicit_seed
        tests == retrieval.refsFor.test_seed \ files IN
    /\ \/ files \subseteq selected
       \/ Cardinality(selected) = MaxSelected /\ selected \subseteq files \cup tests
    /\ \/ tests \subseteq selected
       \/ Cardinality(selected \cap tests) >= TestShare
       \/ MaxSelected <= 1 /\ selected \subseteq files

\* A test is what looks like one, or what the task or a failure calls one.
TestsKnownTo(request) ==
    TestPaths \cup request.tests \cup UNION {link.tests : link \in ObservedFailureLinks(request)}

FindsAll(retrieval, request, files) ==
    LET selected == retrieval.selected IN
    /\ request.files \cup request.tests \subseteq selected \cap DOMAIN files
    /\ CandidateRefs(retrieval.refsFor) = selected
    /\ (\E ref \in selected : IsImplementation(ref)) => selected \cap TestsKnownTo(request) # {}

Retrieved(p) == job[p].step = "read"

\* Whatever is in the index when it is read: no file is selected for a weaker reason while a
\* file that the caller named is left out, and however many files are named, they do not
\* crowd out the tests that the caller named.  That is for the share of the tests only: a
\* test beyond it may be left out although a weaker file is selected, or nothing.
SeedsFirst == \A p \in Processes : Retrieved(p) => SeedsComeFirst(job[p].retrieval)

\* A retrieval that calls itself safe found all that the request names in the snapshot, left
\* out nothing that it had a reason for, and has a test for the code it selected.
SafeIsComplete ==
    \A p \in Processes : Retrieved(p) /\ job[p].retrieval.confidence = "safe" =>
        FindsAll(job[p].retrieval, Requests[job[p].session], job[p].id.files)
=============================================================================
