------------------------- MODULE SnapshotStoreProofs -------------------------
(***************************************************************************)
(* Proofs about SnapshotStore, for every repository, every number of       *)
(* processes that compile while the worktree moves, and every compaction   *)
(* between its plan and its deletion.                                      *)
(***************************************************************************)
EXTENDS SnapshotStore, FiniteSetTheorems, TLAPS

\* Texts are what the snapshot hashed.
Hashed(texts, files) ==
    \A path \in DOMAIN texts : path \in DOMAIN files /\ texts[path] = files[path]

\* A symbol, a text and a rule as they stand in the content the snapshot hashed.
NodeMatches(id, row) ==
    LET path == row.symbol.path IN
    /\ path \in DOMAIN id.files
    /\ row.content = id.files[path]
    /\ row.symbol \in {Module(path)} \cup
          {Symbol(path, name) : name \in Contents[row.content].declares}

EntryMatches(id, row) == row.path \in DOMAIN id.files /\ row.content = id.files[row.path]

RuleMatches(row) ==
    row.of.kind = "rule_digest" =>
        \A rule \in row.of.inputs :
            /\ rule.ref \in DOMAIN row.of.snapshot.files
            /\ rule.content = row.of.snapshot.files[rule.ref]

\* The rows of a stored snapshot: exactly its sources, and all its rejections.
WholeSound ==
    \A id \in SnapshotIds :
        /\ id \in worktrees
        /\ RowsOf(sources, id) = SourceRows(id)
        /\ RejectionRows(id) \subseteq RowsOf(rejections, id)

\* A compile has a session and a time, and indexes the texts it hashed.
JobSound(p) ==
    /\ job[p].step \notin {"idle", "failed"} =>
          job[p].session \in Sessions /\ job[p].at \in 1 .. clock
    /\ job[p].step = "indexing" => Hashed(job[p].texts, job[p].id.files)

JobsSound ==
    /\ DOMAIN job = Processes
    /\ \A p \in Processes : JobSound(p)

\* Of what a compaction planned to delete, nothing belongs to the latest snapshot or is
\* an input of an artifact it leaves in place.
PlanSound ==
    task.step = "planned" =>
        /\ \A id \in task.entries \cup task.derived : id \in SnapshotIds /\ ~IsLatestSnapshot(id)
        /\ \A a \in task.known \ task.artifacts :
              /\ \A row \in task.compressions : row.of \notin a.compressions
              /\ a.symbols # {} => a.snapshot \notin task.derived

\* The inductive invariant.
StoreInv ==
    /\ StoreTypeOK /\ DOMAIN sessions = Sessions
    /\ IndexMatchesSnapshot
    /\ WholeSound
    /\ JobsSound
    /\ PlanSound

----------------------------------------------------------------------------
(* Tables of rows by snapshot *)

\* A table with more rows for one snapshot has the others as before.
LEMMA RowsAdded ==
    ASSUME NEW table, NEW id, NEW rows
    PROVE  /\ \A i : RowsOf(WithRows(table, id, rows), i) =
                        RowsOf(table, i) \cup (IF i = id THEN rows ELSE {})
           /\ DOMAIN WithRows(table, id, rows) \subseteq DOMAIN table \cup {id}
  <1>1. CASE rows = {}
    BY <1>1 DEF WithRows, RowsOf
  <1>2. CASE rows # {}
    BY <1>2 DEF WithRows, RowsOf
  <1> QED BY <1>1, <1>2

\* A table without the rows of some snapshots has the others as before.
LEMMA RowsLeft ==
    ASSUME NEW table, NEW ids
    PROVE  /\ \A i : RowsOf(NotOf(table, ids), i) = IF i \in ids THEN {} ELSE RowsOf(table, i)
           /\ DOMAIN NotOf(table, ids) = DOMAIN table \ ids
  BY DEF NotOf, RowsOf

\* The texts that are read are the ones that were hashed.
LEMMA TextsAreHashed ==
    ASSUME NEW disk, NEW files, NEW paths \in SUBSET DOMAIN files
    PROVE  Hashed(TextsOf(disk, files, paths), files)
  BY DEF Hashed, TextsOf, ReadableText

\* The symbols made of hashed texts match the snapshot.
LEMMA NodeRowsMatch ==
    ASSUME NEW id, NEW texts, NEW at, Hashed(texts, id.files),
           NEW row \in NodeRows(texts, at)
    PROVE  NodeMatches(id, row)
  <1>1. PICK node \in FileNodes(texts) :
            row = [symbol |-> node, content |-> texts[node.path], at |-> at]
    BY DEF NodeRows
  <1>2. PICK path \in DOMAIN texts : node \in {Module(path)} \cup SymbolsOf(texts, path)
    BY DEF FileNodes
  <1>3. node.path = path
    BY <1>2 DEF Module, SymbolsOf, Symbol
  <1>4. row.symbol = node /\ row.content = texts[path]
    BY <1>1, <1>3
  <1>5. path \in DOMAIN id.files /\ texts[path] = id.files[path]
    BY DEF Hashed
  <1> QED BY <1>2, <1>3, <1>4, <1>5 DEF NodeMatches, SymbolsOf

\* The searchable texts made of hashed texts match the snapshot.
LEMMA EntryRowsMatch ==
    ASSUME NEW id, NEW texts, NEW at, Hashed(texts, id.files),
           NEW row \in EntryRows(texts, at)
    PROVE  EntryMatches(id, row)
  <1>1. PICK entry \in LexicalEntries(texts) :
            row = [path |-> entry.path, content |-> entry.content, at |-> at]
    BY DEF EntryRows
  <1>2. PICK path \in DOMAIN texts : entry = [path |-> path, content |-> texts[path]]
    BY DEF LexicalEntries
  <1>3. row.path = path /\ row.content = texts[path]
    BY <1>1, <1>2
  <1> QED BY <1>3 DEF EntryMatches, Hashed

\* The index matches its snapshots, table by table.
LEMMA IndexByRows ==
    /\ IndexMatchesSnapshot =>
         /\ \A id : \A row \in RowsOf(nodes, id) : NodeMatches(id, row)
         /\ \A id : \A row \in RowsOf(entries, id) : EntryMatches(id, row)
         /\ \A row \in compressions : RuleMatches(row)
    /\ /\ \A id : \A row \in RowsOf(nodes, id) : NodeMatches(id, row)
       /\ \A id : \A row \in RowsOf(entries, id) : EntryMatches(id, row)
       /\ \A row \in compressions : RuleMatches(row)
       => IndexMatchesSnapshot
  BY DEF IndexMatchesSnapshot, NodeMatches, EntryMatches, RuleMatches, RowsOf

----------------------------------------------------------------------------
(* One process moves *)

Moves(p) == TakeSnapshot(p) \/ PersistSnapshot(p) \/ BuildContext(p)

\* A step goes on with the job of its process only, and time goes forward.
LEMMA OwnJobOnly ==
    ASSUME DOMAIN job = Processes, clock \in Nat, NEW p \in Processes, Moves(p)
    PROVE  /\ DOMAIN job' = Processes
           /\ \A q \in Processes \ {p} : job'[q] = job[q]
           /\ clock' \in Nat /\ clock <= clock'
  <1>1. CASE TakeSnapshot(p)
    BY <1>1 DEF TakeSnapshot, ReadBranch, ReadHead, ReadStatus, ReadFiles, Goto, worktreeVars
  <1>2. CASE PersistSnapshot(p)
    BY <1>2 DEF PersistSnapshot, ReuseSnapshot, IndexSymbols, IndexText, AbandonIndex, Goto,
                worktreeVars
  <1>3. CASE BuildContext(p)
    <2>1. clock' = clock
      BY <1>3 DEF BuildContext, OpenSession, ReadSymbols, RetrieveSources, Compress,
                  BuildArtifact, SummarizeSent, worktreeVars
    <2>2. \E next : Goto(p, next)
      <3>1. CASE OpenSession(p) \/ ReadSymbols(p) \/ RetrieveSources(p)
        BY <3>1 DEF OpenSession, ReadSymbols, RetrieveSources, OnSnapshot
      <3>2. CASE Compress(p)
        BY <3>2 DEF Compress, OnSnapshot
      <3>3. CASE BuildArtifact(p)
        BY <3>3 DEF BuildArtifact, OnSnapshot
      <3>4. CASE SummarizeSent(p)
        BY <3>4 DEF SummarizeSent, OnSnapshot
      <3> QED BY <1>3, <3>1, <3>2, <3>3, <3>4 DEF BuildContext
    <2> QED BY <2>1, <2>2 DEF Goto
  <1> QED BY <1>1, <1>2, <1>3 DEF Moves

\* Only a compile with a session goes on, and it keeps session and time; texts it indexes
\* are what it hashed.
LEMMA JobStaysSound ==
    ASSUME JobsSound, clock \in Nat, NEW p \in Processes, Moves(p)
    PROVE  JobSound(p)'
  <1>1. DOMAIN job = Processes /\ JobSound(p) /\ clock' \in Nat /\ clock <= clock'
    BY OwnJobOnly DEF JobsSound
  <1>2. CASE TakeSnapshot(p)
    <2>1. CASE \E s \in Sessions : ReadBranch(p, s)
      <3>1. PICK s \in Sessions : ReadBranch(p, s)
        BY <2>1
      <3>2. /\ job'[p].step = "branch" /\ job'[p].session = s
            /\ job'[p].at = clock + 1 /\ clock' = clock + 1
        BY <1>1, <3>1 DEF ReadBranch, Goto
      <3> QED BY <3>2 DEF JobSound
    <2>4. CASE ReadHead(p)
      <3>1. /\ job[p].step = "branch" /\ job'[p].step = "head"
            /\ job'[p].session = job[p].session /\ job'[p].at = job[p].at
        BY <1>1, <2>4 DEF ReadHead, AtStep, Goto
      <3> QED BY <1>1, <3>1 DEF JobSound
    <2>2. CASE ReadStatus(p)
      <3>1. /\ job[p].step = "head" /\ job'[p].step = "status"
            /\ job'[p].session = job[p].session /\ job'[p].at = job[p].at
        BY <1>1, <2>2 DEF ReadStatus, AtStep, Goto
      <3> QED BY <1>1, <3>1 DEF JobSound
    <2>3. CASE ReadFiles(p)
      <3>1. /\ job[p].step = "status" /\ job'[p].step = "taken"
            /\ job'[p].session = job[p].session /\ job'[p].at = job[p].at
        BY <1>1, <2>3 DEF ReadFiles, AtStep, Goto
      <3> QED BY <1>1, <3>1 DEF JobSound
    <2> QED BY <1>2, <2>1, <2>2, <2>3, <2>4 DEF TakeSnapshot
  <1>3. CASE IndexSymbols(p)
    <2>1. /\ job[p].step = "taken" /\ job'[p].step = "indexing"
          /\ job'[p].session = job[p].session /\ job'[p].at = job[p].at
          /\ job'[p].id = job[p].id
          /\ job'[p].texts = TextsOf(Disk, job[p].id.files, SourceLike(job[p].id.files))
      BY <1>1, <1>3 DEF IndexSymbols, AtStep, Goto
    <2>2. Hashed(job'[p].texts, job'[p].id.files)
      BY <2>1, TextsAreHashed DEF SourceLike
    <2> QED BY <1>1, <2>1, <2>2 DEF JobSound
  <1>4. CASE \/ ReuseSnapshot(p) \/ IndexText(p) \/ AbandonIndex(p) \/ OpenSession(p)
             \/ ReadSymbols(p) \/ RetrieveSources(p) \/ Compress(p) \/ BuildArtifact(p)
             \/ SummarizeSent(p)
    <2>1. job[p].step \notin {"idle", "failed"}
      BY <1>4 DEF ReuseSnapshot, IndexText, AbandonIndex, OpenSession, ReadSymbols,
                  RetrieveSources, Compress, BuildArtifact, SummarizeSent, AtStep
    <2>2. \/ job'[p].step \in {"idle", "failed"}
          \/ /\ job'[p].step # "indexing"
             /\ job'[p].session = job[p].session /\ job'[p].at = job[p].at
      <3>1. CASE ReuseSnapshot(p) \/ IndexText(p) \/ AbandonIndex(p)
        BY <1>1, <3>1 DEF ReuseSnapshot, IndexText, AbandonIndex, OnlySnapshot, Goto, Failed
      <3>2. CASE OpenSession(p) \/ ReadSymbols(p) \/ RetrieveSources(p)
        BY <1>1, <3>2 DEF OpenSession, ReadSymbols, RetrieveSources, OnSnapshot, Goto, Failed
      <3>3. CASE Compress(p)
        BY <1>1, <3>3 DEF Compress, OnSnapshot, Goto, Failed
      <3>4. CASE BuildArtifact(p) \/ SummarizeSent(p)
        BY <1>1, <3>4 DEF BuildArtifact, SummarizeSent, OnlySnapshot, OnSnapshot, Goto, Failed, Idle
      <3> QED BY <1>4, <3>1, <3>2, <3>3, <3>4
    <2> QED BY <1>1, <2>1, <2>2 DEF JobSound
  <1> QED BY <1>2, <1>3, <1>4 DEF Moves, PersistSnapshot, BuildContext

\* Every compile stays sound, whoever moves.
LEMMA JobsStaySound ==
    ASSUME JobsSound, clock \in Nat, NEW p \in Processes, Moves(p)
    PROVE  JobsSound'
  <1>1. DOMAIN job = Processes
    BY DEF JobsSound
  <1>2. ASSUME NEW q \in Processes, q # p PROVE JobSound(q)'
    BY <1>1, <1>2, OwnJobOnly DEF JobsSound, JobSound
  <1>3. ASSUME NEW q \in Processes PROVE JobSound(q)'
    BY <1>2, JobStaysSound
  <1> QED BY <1>1, <1>3, OwnJobOnly DEF JobsSound

----------------------------------------------------------------------------
(* Who holds the database *)

WriterSound ==
    /\ \A p \in Processes : job[p].step = "indexing" <=> writer = p
    /\ writer \in Processes \cup {None}

\* Only the process that indexes holds the database.
LEMMA WriterStaysSound ==
    ASSUME JobsSound, clock \in Nat, WriterSound, NEW p \in Processes, Moves(p)
    PROVE  WriterSound'
  <1>1. /\ DOMAIN job = Processes
        /\ \A q \in Processes \ {p} : job'[q] = job[q]
    BY OwnJobOnly DEF JobsSound
  <1>2. CASE IndexSymbols(p)
    <2>1. writer = None /\ writer' = p /\ job'[p].step = "indexing"
      BY <1>1, <1>2 DEF IndexSymbols, Goto
    <2> QED BY <1>1, <2>1, NoneIsNoProcess DEF WriterSound
  <1>3. CASE IndexText(p) \/ AbandonIndex(p)
    <2>1. job[p].step = "indexing" /\ writer' = None
      BY <1>3 DEF IndexText, AbandonIndex, AtStep
    <2>2. job'[p].step # "indexing"
      BY <1>1, <1>3 DEF IndexText, AbandonIndex, Goto, Failed, OnlySnapshot
    <2> QED BY <1>1, <2>1, <2>2, NoneIsNoProcess DEF WriterSound
  <1>4. ASSUME job[p].step # "indexing", job'[p].step # "indexing", writer' = writer
        PROVE  WriterSound'
    BY <1>1, <1>4 DEF WriterSound
  <1>5. CASE TakeSnapshot(p)
    BY <1>1, <1>4, <1>5 DEF TakeSnapshot, ReadBranch, ReadHead, ReadStatus, ReadFiles, Goto,
                            AtStep
  <1>6. CASE ReuseSnapshot(p)
    BY <1>1, <1>4, <1>6 DEF ReuseSnapshot, Goto, AtStep, OnlySnapshot
  <1>7. CASE OpenSession(p) \/ ReadSymbols(p) \/ RetrieveSources(p)
    BY <1>1, <1>4, <1>7 DEF OpenSession, ReadSymbols, RetrieveSources, OnSnapshot, Goto,
                            AtStep, Failed
  <1>8. CASE Compress(p)
    BY <1>1, <1>4, <1>8 DEF Compress, OnSnapshot, Goto, AtStep, Failed
  <1>9. CASE BuildArtifact(p) \/ SummarizeSent(p)
    BY <1>1, <1>4, <1>9 DEF BuildArtifact, SummarizeSent, OnlySnapshot, OnSnapshot, Goto,
                            AtStep, Failed, Idle
  <1> QED BY <1>2, <1>3, <1>5, <1>6, <1>7, <1>8, <1>9 DEF Moves, PersistSnapshot, BuildContext

----------------------------------------------------------------------------
(* What the rows refer to, and what they say *)

\* Both ends of an edge are symbols of its snapshot.
EdgesJoin ==
    \A id : \A row \in RowsOf(edges, id) :
        {row.edge.from, row.edge.to} \subseteq {n.symbol : n \in RowsOf(nodes, id)} \cup {None}

EvidenceTyped ==
    /\ worktrees \subseteq SnapshotIds
    /\ UNION {DOMAIN sources, DOMAIN nodes, DOMAIN edges, DOMAIN entries} \subseteq SnapshotIds

ContextTyped ==
    /\ DOMAIN sessions = Sessions
    /\ \A s \in Sessions : sessions[s] \in SnapshotIds \cup {None}
    /\ \A c \in compressions : KnownCompression(c.of) /\ c.of.snapshot \in SnapshotIds
    /\ \A a \in artifacts :
          a.session \in Sessions /\ a.at \in 1 .. clock /\ a.snapshot \in SnapshotIds

NodesMatch == \A id : \A row \in RowsOf(nodes, id) : NodeMatches(id, row)

EntriesMatch == \A id : \A row \in RowsOf(entries, id) : EntryMatches(id, row)

IndexSound == EvidenceTyped /\ EdgesJoin /\ NodesMatch /\ EntriesMatch /\ WholeSound

ContextSound == ContextTyped /\ \A row \in compressions : RuleMatches(row)

\* The invariant by its parts.
LEMMA InvByParts ==
    StoreInv <=>
        /\ work \in DOMAIN Trees /\ clock \in 0 .. MaxCompiles
        /\ WriterSound /\ IndexSound /\ ContextSound /\ JobsSound /\ PlanSound
  <1>1. (\A id \in DOMAIN edges :
            UNION {{row.edge.from, row.edge.to} : row \in edges[id]}
               \subseteq {row.symbol : row \in RowsOf(nodes, id)} \cup {None}) <=> EdgesJoin
    BY DEF EdgesJoin, RowsOf
  <1>2. IndexMatchesSnapshot <=>
          NodesMatch /\ EntriesMatch /\ \A row \in compressions : RuleMatches(row)
    BY IndexByRows DEF NodesMatch, EntriesMatch
  <1>3. StoreTypeOK /\ DOMAIN sessions = Sessions <=>
          /\ work \in DOMAIN Trees /\ clock \in 0 .. MaxCompiles
          /\ WriterSound /\ EvidenceTyped /\ EdgesJoin /\ ContextTyped
    BY <1>1 DEF StoreTypeOK, WriterSound, EvidenceTyped, ContextTyped
  <1> QED BY <1>2, <1>3 DEF StoreInv, IndexSound, ContextSound

\* The same of the next state.
LEMMA NextInvByParts ==
    StoreInv' <=>
        /\ (work \in DOMAIN Trees /\ clock \in 0 .. MaxCompiles)'
        /\ WriterSound' /\ IndexSound' /\ ContextSound' /\ JobsSound' /\ PlanSound'
  BY InvByParts, PTL

\* A snapshot is stored with all its rows at once.
LEMMA IndexStaysSound ==
    ASSUME IndexSound, JobsSound, NEW p \in Processes, IndexText(p)
    PROVE  IndexSound' /\ SnapshotIds \subseteq SnapshotIds'
  <1> DEFINE id == job[p].id
             at == job[p].at
             texts == TextsOf(Disk, id.files, DOMAIN id.files)
             newNodes == NewNodes(id, NodeRows(job[p].texts, at))
             newEdges == NewEdges(id, EdgeRows(id.files, job[p].texts, at))
             newEntries == NewEntries(id, EntryRows(texts, at))
  <1>1. CASE UNCHANGED <<evidenceVars, indexVars>>
    BY <1>1 DEF evidenceVars, indexVars, IndexSound, EvidenceTyped, EdgesJoin, NodesMatch,
                EntriesMatch, WholeSound, SnapshotIds
  <1>2. CASE /\ EdgeEndsExist(newEdges, RowsOf(nodes, id) \cup newNodes)
             /\ snapshots' = SnapshotRow(id, at)
             /\ worktrees' = worktrees \cup {id}
             /\ PersistSnapshotEvidence(id)
             /\ nodes' = WithRows(nodes, id, newNodes)
             /\ edges' = WithRows(edges, id, newEdges)
             /\ entries' = WithRows(entries, id, newEntries)
    <2>1. Hashed(job[p].texts, id.files) /\ Hashed(texts, id.files)
      <3>1. job[p].step = "indexing"
        BY DEF IndexText, AtStep
      <3> QED BY <3>1, TextsAreHashed DEF JobsSound, JobSound
    <2>2. \A row \in newNodes : NodeMatches(id, row)
      BY <2>1, NodeRowsMatch DEF NewNodes
    <2>3. \A row \in newEntries : EntryMatches(id, row)
      BY <2>1, EntryRowsMatch DEF NewEntries
    <2> HIDE DEF newNodes, newEdges, newEntries, texts, at, id
    <2>4. SnapshotIds' = SnapshotIds \cup {id}
      BY <1>2 DEF SnapshotRow, SnapshotIds
    <2>5. /\ \A i : RowsOf(nodes', i) = RowsOf(nodes, i) \cup (IF i = id THEN newNodes ELSE {})
          /\ \A i : RowsOf(edges', i) = RowsOf(edges, i) \cup (IF i = id THEN newEdges ELSE {})
          /\ \A i : RowsOf(entries', i) =
                       RowsOf(entries, i) \cup (IF i = id THEN newEntries ELSE {})
          /\ \A i : RowsOf(sources', i) =
                       RowsOf(sources, i) \cup (IF i = id THEN SourceRows(id) ELSE {})
          /\ \A i : RowsOf(rejections', i) =
                       RowsOf(rejections, i) \cup (IF i = id THEN RejectionRows(id) ELSE {})
      BY <1>2, RowsAdded DEF PersistSnapshotEvidence
    <2>6. EvidenceTyped'
      <3>1. /\ DOMAIN nodes' \subseteq DOMAIN nodes \cup {id}
            /\ DOMAIN edges' \subseteq DOMAIN edges \cup {id}
            /\ DOMAIN entries' \subseteq DOMAIN entries \cup {id}
            /\ DOMAIN sources' \subseteq DOMAIN sources \cup {id}
        BY <1>2, RowsAdded DEF PersistSnapshotEvidence
      <3> QED BY <1>2, <2>4, <3>1 DEF IndexSound, EvidenceTyped
    <2>7. EdgesJoin'
      <3>1. UNION {{row.edge.from, row.edge.to} : row \in newEdges}
              \subseteq {row.symbol : row \in RowsOf(nodes', id)} \cup {None}
        BY <1>2, <2>5 DEF EdgeEndsExist
      <3>2. \A row \in newEdges : {row.edge.from, row.edge.to}
              \subseteq {n.symbol : n \in RowsOf(nodes', id)} \cup {None}
        BY <3>1
      <3> QED BY <2>5, <3>2 DEF IndexSound, EdgesJoin
    <2>8. NodesMatch' /\ EntriesMatch'
      BY <2>2, <2>3, <2>5 DEF IndexSound, NodesMatch, EntriesMatch
    <2>9. WholeSound'
      <3>1. id \notin SnapshotIds => RowsOf(sources, id) = {}
        BY DEF IndexSound, EvidenceTyped, RowsOf
      <3>2. ASSUME NEW i \in SnapshotIds'
            PROVE  /\ i \in worktrees'
                   /\ RowsOf(sources', i) = SourceRows(i)
                   /\ RejectionRows(i) \subseteq RowsOf(rejections', i)
        <4>1. CASE i = id
          <5>1. RowsOf(sources, id) \subseteq SourceRows(id)
            BY <3>1 DEF IndexSound, WholeSound
          <5> QED BY <1>2, <2>5, <4>1, <5>1
        <4>2. CASE i # id
          <5>1. i \in SnapshotIds
            BY <2>4, <3>2, <4>2
          <5>2. /\ i \in worktrees /\ RowsOf(sources, i) = SourceRows(i)
                /\ RejectionRows(i) \subseteq RowsOf(rejections, i)
            BY <5>1 DEF IndexSound, WholeSound
          <5> QED BY <1>2, <2>5, <4>2, <5>2
        <4> QED BY <4>1, <4>2
      <3> QED BY <3>2 DEF WholeSound
    <2> QED BY <2>4, <2>6, <2>7, <2>8, <2>9 DEF IndexSound
  <1> QED BY <1>1, <1>2 DEF IndexText

\* A compression has inputs, and a digest quotes rules as the snapshot hashed them.
CompressionSound(c, id) ==
    /\ KnownCompression(c) /\ c.snapshot = id
    /\ c.kind = "rule_digest" =>
          \A rule \in c.inputs :
              rule.ref \in DOMAIN id.files /\ rule.content = id.files[rule.ref]

\* What a compile makes of a stored snapshot is sound.
LEMMA MadeSound ==
    ASSUME WholeSound, NEW id \in SnapshotIds, NEW symbols, NEW read, NEW disk, NEW sent
    PROVE  /\ \A c \in Outline(id, symbols, read) : CompressionSound(c, id)
           /\ \A c \in RuleDigest(id, RuleExcerpts(disk, id)) : CompressionSound(c, id)
           /\ \A c \in PackSummary(id, sent) : CompressionSound(c, id)
  <1>1. ASSUME NEW kind \in {"symbol_outline", "context_pack_summary"}, NEW inputs, inputs # {}
        PROVE  CompressionSound(Compression(kind, id, inputs), id)
    BY <1>1 DEF CompressionSound, KnownCompression, Compression
  <1>2. \A c \in Outline(id, symbols, read) : CompressionSound(c, id)
    BY <1>1 DEF Outline
  <1>3. \A c \in PackSummary(id, sent) : CompressionSound(c, id)
    BY <1>1 DEF PackSummary
  <1>4. \A c \in RuleDigest(id, RuleExcerpts(disk, id)) : CompressionSound(c, id)
    <2> DEFINE excerpts == RuleExcerpts(disk, id)
    <2> TAKE c \in RuleDigest(id, excerpts)
    <2>1. \A rule \in excerpts : rule.ref \in DOMAIN id.files /\ rule.content = id.files[rule.ref]
      <3> TAKE rule \in excerpts
      <3>1. PICK path \in RowsOf(sources, id) :
                disk[path] = id.files[path] /\ rule = [ref |-> path, content |-> disk[path]]
        BY DEF RuleExcerpts
      <3>2. path \in DOMAIN id.files
        BY DEF WholeSound, SourceRows
      <3> QED BY <3>1, <3>2
    <2> HIDE DEF excerpts
    <2>2. c = Compression("rule_digest", id, excerpts) /\ excerpts # {}
      BY DEF RuleDigest
    <2>3. c.inputs = excerpts /\ c.snapshot = id /\ c.kind = "rule_digest"
      BY <2>2 DEF Compression
    <2> QED BY <2>1, <2>2, <2>3 DEF CompressionSound, KnownCompression
  <1> QED BY <1>2, <1>3, <1>4

\* Storing what is sound keeps the compressions sound.
LEMMA CompressionsStaySound ==
    ASSUME ContextSound, NEW id \in SnapshotIds, NEW made, NEW at,
           \A c \in made : CompressionSound(c, id),
           SnapshotIds' = SnapshotIds, clock' = clock,
           compressions' = CompressionsWith(made, at), UNCHANGED <<sessions, artifacts>>
    PROVE  ContextSound'
  <1>1. \A row \in compressions' \ compressions : row.of \in made
    BY DEF CompressionsWith
  <1>2. \A row \in compressions' :
            KnownCompression(row.of) /\ row.of.snapshot \in SnapshotIds /\ RuleMatches(row)
    BY <1>1 DEF ContextSound, ContextTyped, CompressionSound, RuleMatches
  <1> QED BY <1>2 DEF ContextSound, ContextTyped, KnownCompression, RuleMatches

\* The writes of a context name a snapshot that is stored.
LEMMA ContextStaysSound ==
    ASSUME IndexSound, ContextSound, JobsSound, clock \in Nat, NEW p \in Processes,
           BuildContext(p)
    PROVE  ContextSound' /\ UNCHANGED <<evidenceVars, indexVars>>
  <1>1. UNCHANGED <<evidenceVars, indexVars, clock>> /\ SnapshotIds' = SnapshotIds
    BY DEF BuildContext, OpenSession, ReadSymbols, RetrieveSources, Compress, BuildArtifact,
           SummarizeSent, SnapshotIds, evidenceVars, worktreeVars
  <1>2. CASE UNCHANGED contextVars
    BY <1>1, <1>2 DEF contextVars, ContextSound, ContextTyped, KnownCompression, RuleMatches
  <1>3. ASSUME job[p].step \notin {"idle", "failed"}
        PROVE  job[p].session \in Sessions /\ job[p].at \in 1 .. clock
    BY <1>3 DEF JobsSound, JobSound
  <1>4. CASE OpenSession(p)
    <2>1. job[p].session \in Sessions
      BY <1>3, <1>4 DEF OpenSession, AtStep
    <2>2. CASE /\ job[p].id \in SnapshotIds
               /\ sessions' = [sessions EXCEPT ![job[p].session] = job[p].id]
               /\ UNCHANGED <<compressions, artifacts>>
      BY <1>1, <2>1, <2>2 DEF ContextSound, ContextTyped, KnownCompression, RuleMatches
    <2> QED BY <1>1, <1>2, <1>4, <2>2 DEF OpenSession, OnSnapshot
  <1>5. CASE ReadSymbols(p) \/ RetrieveSources(p)
    BY <1>1, <1>2, <1>5 DEF ReadSymbols, RetrieveSources
  <1>6. CASE Compress(p)
    <2>1. PICK current \in SUBSET SentBy(job[p].session) :
            LET made == Outline(job[p].id, job[p].symbols, job[p].edges)
                          \cup RuleDigest(job[p].id, RuleExcerpts(Disk, job[p].id))
                          \cup PackSummary(job[p].id, current) IN
            \/ UNCHANGED contextVars
            \/ /\ job[p].id \in SnapshotIds
               /\ compressions' = CompressionsWith(made, job[p].at)
               /\ UNCHANGED <<sessions, artifacts>>
      BY <1>6 DEF Compress, OnSnapshot
    <2> DEFINE made == Outline(job[p].id, job[p].symbols, job[p].edges)
                         \cup RuleDigest(job[p].id, RuleExcerpts(Disk, job[p].id))
                         \cup PackSummary(job[p].id, current)
    <2>2. job[p].id \in SnapshotIds => \A c \in made : CompressionSound(c, job[p].id)
      BY MadeSound DEF IndexSound
    <2>3. \/ UNCHANGED contextVars
          \/ /\ job[p].id \in SnapshotIds
             /\ compressions' = CompressionsWith(made, job[p].at)
             /\ UNCHANGED <<sessions, artifacts>>
      BY <2>1
    <2> HIDE DEF made
    <2> QED BY <1>1, <1>2, <2>2, <2>3, CompressionsStaySound
  <1>7. CASE BuildArtifact(p)
    <2>1. job[p].session \in Sessions /\ job[p].at \in 1 .. clock
      BY <1>3, <1>7 DEF BuildArtifact, AtStep
    <2> DEFINE row == [session |-> job[p].session, at |-> job[p].at, snapshot |-> job[p].id,
                       compressions |-> job[p].compressions, symbols |-> job[p].symbols]
    <2>2. /\ row.session = job[p].session /\ row.at = job[p].at /\ row.snapshot = job[p].id
      OBVIOUS
    <2>3. CASE /\ job[p].id \in SnapshotIds
               /\ artifacts' = artifacts \cup {row}
               /\ sessions' = IF job[p].existed
                              THEN [sessions EXCEPT ![job[p].session] = job[p].id]
                              ELSE sessions
               /\ UNCHANGED compressions
      <3> HIDE DEF row
      <3>1. /\ DOMAIN sessions' = Sessions
            /\ \A s \in Sessions : sessions'[s] \in SnapshotIds \cup {None}
        BY <2>1, <2>3 DEF ContextSound, ContextTyped
      <3>2. \A a \in artifacts' :
               a.session \in Sessions /\ a.at \in 1 .. clock /\ a.snapshot \in SnapshotIds
        BY <2>1, <2>2, <2>3 DEF ContextSound, ContextTyped
      <3> QED BY <1>1, <2>3, <3>1, <3>2 DEF ContextSound, ContextTyped, KnownCompression, RuleMatches
    <2> QED BY <1>1, <1>2, <1>7, <2>3 DEF BuildArtifact, OnSnapshot
  <1>8. CASE SummarizeSent(p)
    <2>1. PICK sent :
            \/ UNCHANGED contextVars
            \/ /\ job[p].id \in SnapshotIds
               /\ compressions' = CompressionsWith(PackSummary(job[p].id, sent), job[p].at)
               /\ UNCHANGED <<sessions, artifacts>>
      BY <1>8 DEF SummarizeSent, OnSnapshot
    <2>2. job[p].id \in SnapshotIds =>
             \A c \in PackSummary(job[p].id, sent) : CompressionSound(c, job[p].id)
      BY MadeSound DEF IndexSound
    <2> QED BY <1>1, <1>2, <2>1, <2>2, CompressionsStaySound
  <1> QED BY <1>1, <1>4, <1>5, <1>6, <1>7, <1>8 DEF BuildContext

\* Where no row of the index changes it stays sound.
LEMMA SameIndex ==
    ASSUME IndexSound, UNCHANGED <<evidenceVars, indexVars>>
    PROVE  IndexSound'
  BY DEF evidenceVars, indexVars, IndexSound, EvidenceTyped, EdgesJoin, NodesMatch,
         EntriesMatch, WholeSound, SnapshotIds

\* Where no row of a context changes and no snapshot goes, the context stays sound.
LEMMA SameContext ==
    ASSUME ContextSound, UNCHANGED contextVars, SnapshotIds \subseteq SnapshotIds',
           clock \in Nat, clock' \in Nat, clock <= clock'
    PROVE  ContextSound'
  <1>1. \A a \in artifacts' :
           a.session \in Sessions /\ a.at \in 1 .. clock' /\ a.snapshot \in SnapshotIds'
    BY DEF contextVars, ContextSound, ContextTyped
  <1> QED BY <1>1 DEF contextVars, ContextSound, ContextTyped, KnownCompression, RuleMatches

\* A compile takes no row of the index away and stores no snapshot anew.
LEMMA RowsStay ==
    ASSUME NEW p \in Processes, Moves(p)
    PROVE  /\ \A id \in SnapshotIds : id \in SnapshotIds' /\ snapshots'[id] = snapshots[id]
           /\ \A id : /\ RowsOf(nodes, id) \subseteq RowsOf(nodes', id)
                     /\ RowsOf(edges, id) \subseteq RowsOf(edges', id)
                     /\ RowsOf(entries, id) \subseteq RowsOf(entries', id)
  <1>1. CASE UNCHANGED <<evidenceVars, indexVars>>
    BY <1>1 DEF evidenceVars, indexVars, SnapshotIds
  <1>2. CASE TakeSnapshot(p)
    BY <1>1, <1>2 DEF TakeSnapshot, ReadBranch, ReadHead, ReadStatus, ReadFiles
  <1>3. CASE ReuseSnapshot(p) \/ IndexSymbols(p) \/ AbandonIndex(p)
    BY <1>1, <1>3 DEF ReuseSnapshot, IndexSymbols, AbandonIndex
  <1>4. CASE BuildContext(p)
    BY <1>1, <1>4 DEF BuildContext, OpenSession, ReadSymbols, RetrieveSources, Compress,
                      BuildArtifact, SummarizeSent
  <1>5. CASE IndexText(p)
    <2>1. CASE \E id, at, a, b, c :
                 /\ snapshots' = SnapshotRow(id, at)
                 /\ nodes' = WithRows(nodes, id, a)
                 /\ edges' = WithRows(edges, id, b)
                 /\ entries' = WithRows(entries, id, c)
      <3>1. PICK id, at, a, b, c :
                 /\ snapshots' = SnapshotRow(id, at)
                 /\ nodes' = WithRows(nodes, id, a)
                 /\ edges' = WithRows(edges, id, b)
                 /\ entries' = WithRows(entries, id, c)
        BY <2>1
      <3>2. \A i \in SnapshotIds : i \in SnapshotIds' /\ snapshots'[i] = snapshots[i]
        BY <3>1 DEF SnapshotRow, SnapshotIds
      <3>3. \A i : /\ RowsOf(nodes, i) \subseteq RowsOf(nodes', i)
                   /\ RowsOf(edges, i) \subseteq RowsOf(edges', i)
                   /\ RowsOf(entries, i) \subseteq RowsOf(entries', i)
        BY <3>1, RowsAdded
      <3> QED BY <3>2, <3>3
    <2> QED BY <1>1, <1>5, <2>1 DEF IndexText
  <1> QED BY <1>2, <1>3, <1>4, <1>5 DEF Moves, PersistSnapshot

\* Nothing that was planned becomes the latest, and no artifact the plan knew gets other
\* inputs, while compiles go on.
LEMMA PlanKept ==
    ASSUME PlanSound, task' = task,
           \A id \in SnapshotIds : id \in SnapshotIds' /\ snapshots'[id] = snapshots[id]
    PROVE  PlanSound'
  <1>1. \A id \in SnapshotIds : ~IsLatestSnapshot(id) => ~IsLatestSnapshot(id)'
    BY DEF IsLatestSnapshot
  <1> QED BY <1>1 DEF PlanSound

\* A compile does not touch the plan of a compaction.
LEMMA CompileLeavesPlan ==
    ASSUME NEW p \in Processes, Moves(p)
    PROVE  task' = task
  BY DEF Moves, TakeSnapshot, ReadBranch, ReadHead, ReadStatus, ReadFiles, PersistSnapshot,
         BuildContext, ReuseSnapshot, IndexSymbols, IndexText, AbandonIndex, OpenSession, ReadSymbols,
         RetrieveSources, Compress, BuildArtifact, SummarizeSent

\* Every step of a compile keeps the invariant.
LEMMA CompileKeepsInv ==
    ASSUME StoreInv, NEW p \in Processes, Moves(p)
    PROVE  StoreInv'
  <1>1. /\ work \in DOMAIN Trees /\ clock \in 0 .. MaxCompiles /\ WriterSound /\ IndexSound
        /\ ContextSound /\ JobsSound /\ PlanSound
    BY InvByParts
  <1>2. clock \in Nat /\ clock' \in Nat /\ clock <= clock' /\ DOMAIN job = Processes
    BY <1>1, MaxCompilesIsNatural, OwnJobOnly DEF JobsSound
  <1>3. work' \in DOMAIN Trees /\ clock' \in 0 .. MaxCompiles /\ task' = task
    <2>1. CASE TakeSnapshot(p)
      <3>1. CASE \E s \in Sessions : ReadBranch(p, s)
        <4>1. /\ work' = work /\ task' = task
              /\ clock < MaxCompiles /\ clock' = clock + 1
          BY <3>1 DEF ReadBranch
        <4> QED BY <1>1, <4>1, MaxCompilesIsNatural
      <3>2. CASE ReadHead(p) \/ ReadStatus(p) \/ ReadFiles(p)
        BY <1>1, <3>2 DEF ReadHead, ReadStatus, ReadFiles, worktreeVars
      <3> QED BY <2>1, <3>1, <3>2 DEF TakeSnapshot
    <2>2. CASE PersistSnapshot(p) \/ BuildContext(p)
      BY <1>1, <2>2 DEF PersistSnapshot, BuildContext, ReuseSnapshot, IndexSymbols, IndexText,
           AbandonIndex, OpenSession, ReadSymbols, RetrieveSources, Compress, BuildArtifact,
           SummarizeSent, worktreeVars
    <2> QED BY <2>1, <2>2 DEF Moves
  <1>4. IndexSound' /\ ContextSound'
    <2>1. SnapshotIds \subseteq SnapshotIds'
      BY RowsStay
    <2>2. CASE IndexText(p)
      <3>1. UNCHANGED contextVars
        BY <2>2 DEF IndexText
      <3> QED BY <1>1, <1>2, <2>1, <2>2, <3>1, IndexStaysSound, SameContext
    <2>3. CASE BuildContext(p)
      BY <1>1, <1>2, <2>3, ContextStaysSound, SameIndex
    <2>4. CASE TakeSnapshot(p) \/ ReuseSnapshot(p) \/ IndexSymbols(p) \/ AbandonIndex(p)
      <3>1. UNCHANGED <<evidenceVars, indexVars, contextVars>>
        BY <2>4 DEF TakeSnapshot, ReadBranch, ReadHead, ReadStatus, ReadFiles, ReuseSnapshot,
                    IndexSymbols, AbandonIndex
      <3> QED BY <1>1, <1>2, <2>1, <3>1, SameIndex, SameContext
    <2> QED BY <2>2, <2>3, <2>4 DEF Moves, PersistSnapshot
  <1>5. PlanSound'
    BY <1>1, <1>3, PlanKept, RowsStay
  <1>6. WriterSound' /\ JobsSound'
    BY <1>1, <1>2, WriterStaysSound, JobsStaySound
  <1>7. (work \in DOMAIN Trees /\ clock \in 0 .. MaxCompiles)'
    BY <1>3
  <1> QED BY <1>4, <1>5, <1>6, <1>7, NextInvByParts

----------------------------------------------------------------------------
(* Compaction *)

\* What the deletion of a plan leaves.
Gone ==
    LET keptArtifacts == artifacts \ task.artifacts
        keptCompressions == compressions \ task.compressions IN
    SnapshotsToDelete(task.cut,
        SnapshotsInUse(keptArtifacts, keptCompressions, NotOf(nodes, task.derived),
                       NotOf(edges, task.derived), NotOf(entries, task.entries)))

\* A deleted snapshot is not the latest, and nothing that is left refers to it.
LEMMA GoneIsUnused ==
    /\ \A id \in Gone : id \in SnapshotIds /\ ~IsLatestSnapshot(id) /\ id \notin DOMAIN sources
    /\ \A a \in artifacts \ task.artifacts : a.snapshot \notin Gone
    /\ \A row \in compressions \ task.compressions : row.of.snapshot \notin Gone
  BY DEF Gone, SnapshotsToDelete, SnapshotProtected, SnapshotsInUse

\* The deletion, table by table.
LEMMA DeletedRows ==
    ASSUME DeletePlanned
    PROVE  /\ SnapshotIds' = SnapshotIds \ Gone /\ worktrees' = worktrees \ Gone
           /\ \A i : RowsOf(nodes', i) =
                      IF i \in Gone \cup task.derived THEN {} ELSE RowsOf(nodes, i)
           /\ \A i : RowsOf(edges', i) =
                      IF i \in Gone \cup task.derived THEN {} ELSE RowsOf(edges, i)
           /\ \A i : RowsOf(entries', i) =
                      IF i \in Gone \cup task.entries THEN {} ELSE RowsOf(entries, i)
           /\ DOMAIN nodes' \subseteq DOMAIN nodes \ Gone
           /\ DOMAIN edges' \subseteq DOMAIN edges \ Gone
           /\ DOMAIN entries' \subseteq DOMAIN entries \ Gone
           /\ artifacts' = {a \in artifacts \ task.artifacts : a.snapshot \notin Gone}
           /\ compressions' = {c \in compressions \ task.compressions : c.of.snapshot \notin Gone}
           /\ sessions' = [s \in Sessions |-> IF sessions[s] \in Gone THEN None ELSE sessions[s]]
           /\ UNCHANGED <<work, clock, job, sources, rejections, writer>> /\ task' = Idle
  <1>1. /\ snapshots' = NotOf(snapshots, Gone)
        /\ worktrees' = worktrees \ Gone
        /\ nodes' = NotOf(NotOf(nodes, task.derived), Gone)
        /\ edges' = NotOf(NotOf(edges, task.derived), Gone)
        /\ entries' = NotOf(NotOf(entries, task.entries), Gone)
        /\ artifacts' = {a \in artifacts \ task.artifacts : a.snapshot \notin Gone}
        /\ compressions' = {c \in compressions \ task.compressions : c.of.snapshot \notin Gone}
        /\ sessions' = [s \in Sessions |-> IF sessions[s] \in Gone THEN None ELSE sessions[s]]
        /\ UNCHANGED <<work, clock, job, sources, rejections, writer>> /\ task' = Idle
    BY DEF DeletePlanned, Gone, worktreeVars
  <1>2. SnapshotIds' = SnapshotIds \ Gone
    BY <1>1, RowsLeft DEF SnapshotIds
  <1>3. /\ \A i : RowsOf(nodes', i) =
                   IF i \in Gone \cup task.derived THEN {} ELSE RowsOf(nodes, i)
        /\ DOMAIN nodes' \subseteq DOMAIN nodes \ Gone
    <2> DEFINE kept == NotOf(nodes, task.derived)
    <2>1. nodes' = NotOf(kept, Gone)
      BY <1>1
    <2> HIDE DEF kept
    <2>2. kept = NotOf(nodes, task.derived)
      BY DEF kept
    <2>3. /\ DOMAIN nodes' = DOMAIN nodes \ (task.derived \cup Gone)
          /\ \A i \in DOMAIN nodes' : nodes'[i] = nodes[i]
      <3>1. DOMAIN kept = DOMAIN nodes \ task.derived /\ \A i \in DOMAIN kept : kept[i] = nodes[i]
        BY <2>2 DEF NotOf
      <3>2. DOMAIN nodes' = DOMAIN kept \ Gone /\ \A i \in DOMAIN nodes' : nodes'[i] = kept[i]
        BY <2>1 DEF NotOf
      <3> QED BY <3>1, <3>2
    <2> QED BY <2>3 DEF RowsOf
  <1>4. /\ \A i : RowsOf(edges', i) =
                   IF i \in Gone \cup task.derived THEN {} ELSE RowsOf(edges, i)
        /\ DOMAIN edges' \subseteq DOMAIN edges \ Gone
    <2> DEFINE kept == NotOf(edges, task.derived)
    <2>1. edges' = NotOf(kept, Gone)
      BY <1>1
    <2> HIDE DEF kept
    <2>2. kept = NotOf(edges, task.derived)
      BY DEF kept
    <2>3. /\ DOMAIN edges' = DOMAIN edges \ (task.derived \cup Gone)
          /\ \A i \in DOMAIN edges' : edges'[i] = edges[i]
      <3>1. DOMAIN kept = DOMAIN edges \ task.derived /\ \A i \in DOMAIN kept : kept[i] = edges[i]
        BY <2>2 DEF NotOf
      <3>2. DOMAIN edges' = DOMAIN kept \ Gone /\ \A i \in DOMAIN edges' : edges'[i] = kept[i]
        BY <2>1 DEF NotOf
      <3> QED BY <3>1, <3>2
    <2> QED BY <2>3 DEF RowsOf
  <1>5. /\ \A i : RowsOf(entries', i) =
                   IF i \in Gone \cup task.entries THEN {} ELSE RowsOf(entries, i)
        /\ DOMAIN entries' \subseteq DOMAIN entries \ Gone
    <2> DEFINE kept == NotOf(entries, task.entries)
    <2>1. entries' = NotOf(kept, Gone)
      BY <1>1
    <2> HIDE DEF kept
    <2>2. kept = NotOf(entries, task.entries)
      BY DEF kept
    <2>3. /\ DOMAIN entries' = DOMAIN entries \ (task.entries \cup Gone)
          /\ \A i \in DOMAIN entries' : entries'[i] = entries[i]
      <3>1. DOMAIN kept = DOMAIN entries \ task.entries /\ \A i \in DOMAIN kept : kept[i] = entries[i]
        BY <2>2 DEF NotOf
      <3>2. DOMAIN entries' = DOMAIN kept \ Gone /\ \A i \in DOMAIN entries' : entries'[i] = kept[i]
        BY <2>1 DEF NotOf
      <3> QED BY <3>1, <3>2
    <2> QED BY <2>3 DEF RowsOf
  <1> QED BY <1>1, <1>2, <1>3, <1>4, <1>5

\* A compaction deletes no row that one it leaves refers to.
LEMMA DeletionKeepsInv ==
    ASSUME StoreInv, DeletePlanned
    PROVE  StoreInv'
  <1>1. /\ work \in DOMAIN Trees /\ clock \in 0 .. MaxCompiles /\ WriterSound /\ IndexSound
        /\ ContextSound /\ JobsSound
    BY InvByParts
  <1>2. EvidenceTyped'
    BY <1>1, DeletedRows, GoneIsUnused DEF IndexSound, EvidenceTyped
  <1>3. EdgesJoin' /\ NodesMatch' /\ EntriesMatch'
    BY <1>1, DeletedRows DEF IndexSound, EdgesJoin, NodesMatch, EntriesMatch
  <1>4. WholeSound'
    BY <1>1, DeletedRows DEF IndexSound, WholeSound
  <1>5. ContextSound'
    <2>1. /\ DOMAIN sessions' = Sessions
          /\ \A s \in Sessions : sessions'[s] \in SnapshotIds' \cup {None}
      BY <1>1, DeletedRows DEF ContextSound, ContextTyped
    <2>2. \A c \in compressions' :
             KnownCompression(c.of) /\ c.of.snapshot \in SnapshotIds' /\ RuleMatches(c)
      BY <1>1, DeletedRows DEF ContextSound, ContextTyped
    <2>3. \A a \in artifacts' :
             a.session \in Sessions /\ a.at \in 1 .. clock' /\ a.snapshot \in SnapshotIds'
      BY <1>1, DeletedRows DEF ContextSound, ContextTyped
    <2> QED BY <2>1, <2>2, <2>3 DEF ContextSound, ContextTyped, KnownCompression, RuleMatches
  <1>6. WriterSound' /\ JobsSound'
    BY <1>1, DeletedRows DEF WriterSound, JobsSound, JobSound
  <1>7. PlanSound'
    BY DeletedRows DEF PlanSound, Idle
  <1>8. (work \in DOMAIN Trees /\ clock \in 0 .. MaxCompiles)'
    BY <1>1, DeletedRows
  <1>9. IndexSound'
    BY <1>2, <1>3, <1>4 DEF IndexSound
  <1> QED BY <1>5, <1>6, <1>7, <1>8, <1>9, NextInvByParts

\* A plan leaves out the latest snapshot and what the artifacts it keeps are made of.
LEMMA PlanIsSound ==
    ASSUME StoreInv, PlanCompaction
    PROVE  PlanSound'
  <1>1. IndexSound
    BY InvByParts
  <1>2. PICK old \in SUBSET CutClasses, at \in 1 .. clock :
          LET cut == [class \in CutClasses |-> IF class \in old THEN at ELSE 0]
              gone == ArtifactsToDelete(cut["artifacts"]) IN
          task' = [step |-> "planned", artifacts |-> gone,
                   compressions |-> CompressionsToDelete(cut["compressions"], gone),
                   entries |-> EntriesToDelete(cut["entries"]),
                   derived |-> DerivedToDelete(cut["derived"], gone),
                   cut |-> cut["snapshots"],
                   known |-> artifacts]
    BY DEF PlanCompaction
  <1>3. PICK gone, c, e, d :
          /\ task'.artifacts = gone /\ task'.known = artifacts
          /\ task'.compressions = CompressionsToDelete(c, gone)
          /\ task'.entries = EntriesToDelete(e)
          /\ task'.derived = DerivedToDelete(d, gone)
    BY <1>2
  <1>4. \A id \in task'.entries \cup task'.derived : id \in SnapshotIds /\ ~IsLatestSnapshot(id)
    BY <1>1, <1>3 DEF EntriesToDelete, DerivedToDelete, IndexSound, EvidenceTyped
  <1>5. \A a \in task'.known \ task'.artifacts :
           \A row \in task'.compressions : row.of \notin a.compressions
    BY <1>3 DEF CompressionsToDelete, DependedOn
  <1>6. \A a \in task'.known \ task'.artifacts :
           a.symbols # {} => a.snapshot \notin task'.derived
    BY <1>3 DEF DerivedToDelete, ReferredTo
  <1>7. snapshots' = snapshots
    BY DEF PlanCompaction, evidenceVars
  <1> QED BY <1>4, <1>5, <1>6, <1>7 DEF PlanSound, SnapshotIds, IsLatestSnapshot

\* Where no snapshot and no artifact changes, a plan stays as sound as it was.
LEMMA StillSound ==
    ASSUME StoreInv, work' \in DOMAIN Trees, task' = task \/ PlanSound',
           UNCHANGED <<clock, job, evidenceVars, indexVars, contextVars, writer>>
    PROVE  StoreInv'
  <1>1. /\ work \in DOMAIN Trees /\ clock \in 0 .. MaxCompiles /\ WriterSound /\ IndexSound
        /\ ContextSound /\ JobsSound /\ PlanSound
    BY InvByParts
  <1>2. clock \in Nat /\ clock' = clock
    BY <1>1, MaxCompilesIsNatural
  <1>3. snapshots' = snapshots
    BY DEF evidenceVars
  <1>4. IndexSound' /\ ContextSound'
    BY <1>1, <1>2, <1>3, SameIndex, SameContext DEF SnapshotIds
  <1>5. WriterSound' /\ JobsSound'
    BY <1>1 DEF WriterSound, JobsSound, JobSound
  <1>6. PlanSound'
    BY <1>1, <1>3, PlanKept DEF SnapshotIds
  <1>7. (work \in DOMAIN Trees /\ clock \in 0 .. MaxCompiles)'
    BY <1>1, <1>2
  <1> QED BY <1>4, <1>5, <1>6, <1>7, NextInvByParts

----------------------------------------------------------------------------
(* The specification *)

\* Nothing is stored, and nobody works.
LEMMA InvAtStart == StoreInit => StoreInv
  <1> SUFFICES ASSUME StoreInit
               PROVE  StoreInv
    OBVIOUS
  <1>1. work \in DOMAIN Trees /\ clock \in 0 .. MaxCompiles
    BY FirstTreeIsThere, MaxCompilesIsNatural DEF StoreInit
  <1>2. \A id : RowsOf(nodes, id) = {} /\ RowsOf(edges, id) = {} /\ RowsOf(entries, id) = {}
    BY DEF StoreInit, RowsOf
  <1>3. SnapshotIds = {}
    BY DEF StoreInit, SnapshotIds
  <1>4. IndexSound
    BY <1>2, <1>3 DEF StoreInit, IndexSound, EvidenceTyped, EdgesJoin, NodesMatch,
                      EntriesMatch, WholeSound
  <1>5. ContextSound
    BY DEF StoreInit, ContextSound, ContextTyped
  <1>6. DOMAIN job = Processes /\ \A p \in Processes : job[p].step = "idle"
    BY DEF StoreInit, Idle
  <1>7. WriterSound /\ JobsSound
    BY <1>6, NoneIsNoProcess DEF StoreInit, WriterSound, JobsSound, JobSound
  <1>8. PlanSound
    BY DEF StoreInit, PlanSound, Idle
  <1> QED BY <1>1, <1>4, <1>5, <1>7, <1>8, InvByParts

\* Whatever compiles, compactions and moves of the worktree do in turn keeps the invariant.
THEOREM StoreInvariance == StoreSpec => []StoreInv
  <1>1. StoreInv /\ [StoreNext]_storeVars => StoreInv'
    <2> SUFFICES ASSUME StoreInv, [StoreNext]_storeVars
                 PROVE  StoreInv'
      OBVIOUS
    <2>1. CASE \E p \in Processes : TakeSnapshot(p) \/ PersistSnapshot(p) \/ BuildContext(p)
      BY <2>1, CompileKeepsInv DEF Moves
    <2>2. CASE PlanCompaction
      <3>1. UNCHANGED <<work, clock, job, evidenceVars, indexVars, contextVars, writer>>
        BY <2>2 DEF PlanCompaction
      <3> QED BY <2>2, <3>1, PlanIsSound, StillSound, InvByParts
    <2>3. CASE DeletePlanned
      BY <2>3, DeletionKeepsInv
    <2>4. CASE Move
      BY <2>4, StillSound DEF Move
    <2>5. CASE UNCHANGED storeVars
      <3>1. UNCHANGED <<work, task, clock, job, evidenceVars, indexVars, contextVars, writer>>
        BY <2>5 DEF storeVars, evidenceVars, indexVars, contextVars
      <3> QED BY <3>1, StillSound, InvByParts
    <2> QED BY <2>1, <2>2, <2>3, <2>4, <2>5 DEF StoreNext
  <1> QED BY <1>1, InvAtStart, PTL DEF StoreSpec

\* Every row has its type, and whatever a row refers to is a row.
THEOREM StoreTypeCorrect == StoreSpec => []StoreTypeOK
  <1>1. StoreInv => StoreTypeOK
    BY DEF StoreInv
  <1> QED BY <1>1, StoreInvariance, PTL

\* A symbol, a text or a rule under a snapshot is of the content that the snapshot hashed,
\* whatever the worktree did while it was read.
THEOREM IndexStaysTrue == StoreSpec => []IndexMatchesSnapshot
  <1>1. StoreInv => IndexMatchesSnapshot
    BY DEF StoreInv
  <1> QED BY <1>1, StoreInvariance, PTL

\* A stored snapshot has its worktree state, its sources and its rejections, whatever fails.
THEOREM SnapshotsStayWhole == StoreSpec => []SnapshotsAreWhole
  <1>1. StoreInv => SnapshotsAreWhole
    BY DEF StoreInv, WholeSound, SnapshotsAreWhole, EvidenceIsComplete
  <1> QED BY <1>1, StoreInvariance, PTL

\* No step takes a row of the index away from the snapshot that is the latest.
THEOREM LatestIndexStays == StoreSpec => LatestIndexKept
  <1>1. StoreInv /\ [StoreNext]_storeVars =>
          [\A id \in SnapshotIds : IsLatestSnapshot(id) =>
              /\ RowsOf(nodes, id) \subseteq RowsOf(nodes', id)
              /\ RowsOf(edges, id) \subseteq RowsOf(edges', id)
              /\ RowsOf(entries, id) \subseteq RowsOf(entries', id)]_storeVars
    <2> SUFFICES ASSUME StoreInv, StoreNext, NEW id \in SnapshotIds, IsLatestSnapshot(id)
                 PROVE  /\ RowsOf(nodes, id) \subseteq RowsOf(nodes', id)
                        /\ RowsOf(edges, id) \subseteq RowsOf(edges', id)
                        /\ RowsOf(entries, id) \subseteq RowsOf(entries', id)
      OBVIOUS
    <2>1. CASE \E p \in Processes : TakeSnapshot(p) \/ PersistSnapshot(p) \/ BuildContext(p)
      BY <2>1, RowsStay DEF Moves
    <2>2. CASE PlanCompaction \/ Move
      BY <2>2 DEF PlanCompaction, Move, indexVars
    <2>3. CASE DeletePlanned
      <3>1. id \notin Gone
        BY GoneIsUnused
      <3>2. id \notin task.entries \cup task.derived
        BY <2>3, InvByParts DEF DeletePlanned, PlanSound
      <3>3. /\ RowsOf(nodes', id) = RowsOf(nodes, id)
            /\ RowsOf(edges', id) = RowsOf(edges, id)
            /\ RowsOf(entries', id) = RowsOf(entries, id)
        BY <2>3, <3>1, <3>2, DeletedRows
      <3> QED BY <3>3
    <2> QED BY <2>1, <2>2, <2>3 DEF StoreNext
  <1> QED BY <1>1, StoreInvariance, PTL DEF StoreSpec, LatestIndexKept

\* An artifact that a plan knew and that its deletion leaves keeps what it was built from.
THEOREM KnownArtifactsKeep == StoreSpec => KnownArtifactsKeepTheirInputs
  <1>1. StoreInv /\ [StoreNext]_storeVars =>
          [task.step = "planned" /\ task'.step = "idle" =>
              \A a \in artifacts' \cap task.known :
                  /\ \A row \in compressions : row.of \in a.compressions => row \in compressions'
                  /\ \A row \in RowsOf(nodes, a.snapshot) :
                        row.symbol \in a.symbols => row \in RowsOf(nodes', a.snapshot)]_storeVars
    <2> SUFFICES ASSUME StoreInv, StoreNext, task.step = "planned", task'.step = "idle",
                        NEW a \in artifacts' \cap task.known
                 PROVE  /\ \A row \in compressions :
                              row.of \in a.compressions => row \in compressions'
                        /\ \A row \in RowsOf(nodes, a.snapshot) :
                              row.symbol \in a.symbols => row \in RowsOf(nodes', a.snapshot)
      OBVIOUS
    <2>1. DeletePlanned
      <3>1. CASE \E p \in Processes : TakeSnapshot(p) \/ PersistSnapshot(p) \/ BuildContext(p)
        BY <3>1, CompileLeavesPlan DEF Moves
      <3>2. CASE PlanCompaction \/ Move
        BY <3>2 DEF PlanCompaction, Move
      <3> QED BY <3>1, <3>2 DEF StoreNext
    <2>2. a \in artifacts \ task.artifacts /\ a.snapshot \notin Gone
      BY <2>1, DeletedRows
    <2>3. /\ \A row \in task.compressions : row.of \notin a.compressions
          /\ a.symbols # {} => a.snapshot \notin task.derived
      BY <2>2, InvByParts DEF PlanSound
    <2>4. ASSUME NEW row \in compressions, row.of \in a.compressions
          PROVE  row \in compressions'
      <3>1. row.of.snapshot \notin Gone
        BY <2>3, <2>4, GoneIsUnused
      <3> QED BY <2>1, <2>3, <2>4, <3>1, DeletedRows
    <2>5. ASSUME NEW row \in RowsOf(nodes, a.snapshot), row.symbol \in a.symbols
          PROVE  row \in RowsOf(nodes', a.snapshot)
      <3>1. a.snapshot \notin Gone \cup task.derived
        BY <2>2, <2>3, <2>5
      <3>2. RowsOf(nodes', a.snapshot) = RowsOf(nodes, a.snapshot)
        BY <2>1, <3>1, DeletedRows
      <3> QED BY <2>5, <3>2
    <2> QED BY <2>4, <2>5
  <1> QED BY <1>1, StoreInvariance, PTL DEF StoreSpec, KnownArtifactsKeepTheirInputs
----------------------------------------------------------------------------
(* Orders.  Strict orders of finite sets: which refs come first is decided. *)

StrictOrder(order, refs) ==
    /\ \A x \in refs : <<x, x>> \notin order
    /\ \A x, y, z \in refs : <<x, y>> \in order /\ <<y, z>> \in order => <<x, z>> \in order
    /\ \A x, y \in refs : x = y \/ <<x, y>> \in order \/ <<y, x>> \in order

\* An order of more refs is an order of some of them.
LEMMA StrictOnSome ==
    ASSUME NEW order, NEW refs, NEW some \in SUBSET refs, StrictOrder(order, refs)
    PROVE  StrictOrder(order, some)
  BY DEF StrictOrder

\* A later ref has more refs before it, and no ref has all of them.
LEMMA CountsGrow ==
    ASSUME NEW refs, IsFiniteSet(refs), NEW order, StrictOrder(order, refs)
    PROVE  /\ \A x \in refs : CountBefore(refs, order, x) \in 0 .. (Cardinality(refs) - 1)
           /\ \A x, y \in refs :
                 <<x, y>> \in order => CountBefore(refs, order, x) < CountBefore(refs, order, y)
  <1> DEFINE before(x) == {other \in refs : <<other, x>> \in order}
  <1>1. ASSUME NEW small \in SUBSET refs, NEW large \in SUBSET refs,
               small \subseteq large, small # large
        PROVE  /\ Cardinality(small) \in Nat /\ Cardinality(large) \in Nat
               /\ Cardinality(small) < Cardinality(large)
    <2>1. IsFiniteSet(large) /\ IsFiniteSet(small)
      BY FS_Subset
    <2>2. Cardinality(small) <= Cardinality(large) /\ Cardinality(small) # Cardinality(large)
      BY <1>1, <2>1, FS_Subset
    <2>3. Cardinality(small) \in Nat /\ Cardinality(large) \in Nat
      BY <2>1, FS_CardinalityType
    <2> QED BY <2>2, <2>3
  <1>2. \A x \in refs : before(x) \subseteq refs /\ x \notin before(x)
    BY DEF StrictOrder
  <1>3. \A x \in refs : Cardinality(before(x)) \in 0 .. (Cardinality(refs) - 1)
    <2> TAKE x \in refs
    <2>1. before(x) \in SUBSET refs /\ refs \in SUBSET refs /\ before(x) # refs
      BY <1>2
    <2>2. /\ Cardinality(before(x)) \in Nat /\ Cardinality(refs) \in Nat
          /\ Cardinality(before(x)) < Cardinality(refs)
      <3> HIDE DEF before
      <3> QED BY <1>1, <1>2, <2>1
    <2> QED BY <2>2
  <1>4. \A x, y \in refs : <<x, y>> \in order => Cardinality(before(x)) < Cardinality(before(y))
    <2> SUFFICES ASSUME NEW x \in refs, NEW y \in refs, <<x, y>> \in order
                 PROVE  Cardinality(before(x)) < Cardinality(before(y))
      OBVIOUS
    <2>1. before(x) \subseteq before(y) /\ x \in before(y)
      BY DEF StrictOrder
    <2>2. before(x) \in SUBSET refs /\ before(y) \in SUBSET refs /\ before(x) # before(y)
      BY <1>2, <2>1
    <2> HIDE DEF before
    <2> QED BY <1>1, <2>1, <2>2
  <1> QED BY <1>3, <1>4 DEF CountBefore

\* Different refs have different numbers of refs before them.
LEMMA CountsDiffer ==
    ASSUME NEW refs, IsFiniteSet(refs), NEW order, StrictOrder(order, refs)
    PROVE  \A x, y \in refs : CountBefore(refs, order, x) = CountBefore(refs, order, y) => x = y
  <1> SUFFICES ASSUME NEW x \in refs, NEW y \in refs,
                      CountBefore(refs, order, x) = CountBefore(refs, order, y), x # y
               PROVE  FALSE
    OBVIOUS
  <1>1. <<x, y>> \in order \/ <<y, x>> \in order
    BY DEF StrictOrder
  <1>2. CountBefore(refs, order, x) \in Nat /\ CountBefore(refs, order, y) \in Nat
    BY CountsGrow, FS_CardinalityType
  <1>3. \/ CountBefore(refs, order, x) < CountBefore(refs, order, y)
        \/ CountBefore(refs, order, y) < CountBefore(refs, order, x)
    BY <1>1, CountsGrow
  <1> QED BY <1>2, <1>3

\* Every number below the number of refs is the number of refs before one of them.
LEMMA CountsCover ==
    ASSUME NEW refs, IsFiniteSet(refs), NEW order, StrictOrder(order, refs)
    PROVE  \A n \in 0 .. (Cardinality(refs) - 1) :
              \E ref \in refs : CountBefore(refs, order, ref) = n
  <1> DEFINE places == 0 .. (Cardinality(refs) - 1)
             place == [ref \in refs |-> CountBefore(refs, order, ref)]
  <1>1. Cardinality(refs) \in Nat
    BY FS_CardinalityType
  <1>2. IsFiniteSet(places) /\ Cardinality(places) = Cardinality(refs)
    BY <1>1, FS_Interval
  <1>3. place \in Injection(refs, places)
    <2>1. \A x \in refs : CountBefore(refs, order, x) \in places
      BY CountsGrow
    <2>2. \A x, y \in refs : CountBefore(refs, order, x) = CountBefore(refs, order, y) => x = y
      BY CountsDiffer
    <2> HIDE DEF places
    <2> QED BY <2>1, <2>2 DEF Injection, IsInjective
  <1> HIDE DEF places, place
  <1>4. place \in Surjection(refs, places)
    BY <1>2, <1>3, FS_Injection
  <1>5. \A n \in places : \E ref \in refs : place[ref] = n
    BY <1>4 DEF Surjection
  <1> QED BY <1>5 DEF places, place

\* As many refs come first as are asked for, or all of them.
LEMMA FirstTakes ==
    ASSUME NEW refs, IsFiniteSet(refs), NEW order, StrictOrder(order, refs), NEW most \in Nat
    PROVE  /\ First(most, refs, order) \subseteq refs
           /\ Cardinality(refs) <= most => First(most, refs, order) = refs
           /\ most <= Cardinality(refs) => Cardinality(First(most, refs, order)) = most
  <1> DEFINE first == First(most, refs, order)
  <1>1. Cardinality(refs) \in Nat
    BY FS_CardinalityType
  <1>2. \A x \in refs : CountBefore(refs, order, x) \in 0 .. (Cardinality(refs) - 1)
    BY CountsGrow
  <1>3. first \subseteq refs
    BY DEF First
  <1>4. Cardinality(refs) <= most => first = refs
    BY <1>1, <1>2 DEF First
  <1>5. ASSUME most <= Cardinality(refs)
        PROVE  Cardinality(first) = most
    <2> DEFINE places == 0 .. (most - 1)
               place == [ref \in first |-> CountBefore(refs, order, ref)]
    <2>1. IsFiniteSet(places) /\ Cardinality(places) = most
      BY FS_Interval
    <2>2. IsFiniteSet(first)
      BY <1>3, FS_Subset
    <2>3. \A x \in first : CountBefore(refs, order, x) \in places
      BY <1>2 DEF First
    <2>4. \A x, y \in first : CountBefore(refs, order, x) = CountBefore(refs, order, y) => x = y
      BY <1>3, CountsDiffer
    <2>5. \A n \in places : \E ref \in first : CountBefore(refs, order, ref) = n
      <3> TAKE n \in places
      <3>1. n \in 0 .. (Cardinality(refs) - 1) /\ n < most
        BY <1>1, <1>5
      <3>2. PICK ref \in refs : CountBefore(refs, order, ref) = n
        BY <3>1, CountsCover
      <3> QED BY <3>1, <3>2 DEF First
    <2> HIDE DEF first, places
    <2>6. place \in Injection(first, places) /\ place \in Surjection(first, places)
      BY <2>3, <2>4, <2>5 DEF Injection, IsInjective, Surjection
    <2> HIDE DEF place
    <2> QED BY <2>1, <2>6, FS_Injection
  <1> QED BY <1>3, <1>4, <1>5

\* A first ref stands before all others.
LEMMA HasFirst ==
    ASSUME NEW refs, IsFiniteSet(refs), refs # {}, NEW order, StrictOrder(order, refs)
    PROVE  \E first \in refs : \A ref \in refs \ {first} : <<first, ref>> \in order
  <1>1. Cardinality(refs) \in Nat /\ Cardinality(refs) # 0
    BY FS_CardinalityType, FS_EmptySet
  <1>2. PICK first \in refs : CountBefore(refs, order, first) = 0
    BY <1>1, CountsCover
  <1>3. \A ref \in refs : <<ref, first>> \notin order
    <2> SUFFICES ASSUME NEW ref \in refs, <<ref, first>> \in order
                 PROVE  FALSE
      OBVIOUS
    <2>1. /\ CountBefore(refs, order, ref) \in 0 .. (Cardinality(refs) - 1)
          /\ CountBefore(refs, order, ref) < 0
      BY <1>2, CountsGrow
    <2> QED BY <1>1, <2>1
  <1> QED BY <1>3 DEF StrictOrder

\* Groups stand in a strict order when their refs do.
LEMMA GroupsInOrder ==
    ASSUME NEW refs, IsFiniteSet(refs), NEW order, StrictOrder(order, refs), NEW groupOf
    PROVE  LET Before(key, other) == GroupBefore(refs, order, groupOf, key, other)
               keys == GroupKeys(refs, groupOf) IN
           /\ \A key \in keys : ~Before(key, key)
           /\ \A key, other, third \in keys :
                 Before(key, other) /\ Before(other, third) => Before(key, third)
           /\ \A key, other \in keys : key = other \/ Before(key, other) \/ Before(other, key)
  <1> DEFINE Before(key, other) == GroupBefore(refs, order, groupOf, key, other)
             keys == GroupKeys(refs, groupOf)
             members(key) == Group(refs, groupOf, key)
             Leads(first, key) == \A ref \in members(key) : <<first, ref>> \in order
  <1>1. \A key \in keys : members(key) \subseteq refs /\ members(key) # {}
    BY DEF GroupKeys, Group
  <1>2. \A key, other \in keys : key # other => members(key) \cap members(other) = {}
    BY DEF Group
  <1>3. \A key, other : Before(key, other) <=>
            key # None /\ (other = None \/ \E first \in members(key) : Leads(first, other))
    BY DEF GroupBefore
  <1>4. \A key \in keys :
           \E first \in members(key) : \A ref \in members(key) \ {first} : <<first, ref>> \in order
    <2> TAKE key \in keys
    <2>1. IsFiniteSet(members(key)) /\ StrictOrder(order, members(key))
      BY <1>1, FS_Subset, StrictOnSome
    <2> HIDE DEF members
    <2> QED BY <1>1, <2>1, HasFirst
  <1> HIDE DEF keys, members, Before
  <1>5. \A key \in keys : ~Before(key, key)
    BY <1>1, <1>3 DEF StrictOrder
  <1>6. ASSUME NEW key \in keys, NEW other \in keys, NEW third \in keys,
               Before(key, other), Before(other, third), third # None
        PROVE  Before(key, third)
    <2>1. PICK first \in members(key) : Leads(first, other)
      BY <1>3, <1>6
    <2>2. PICK next \in members(other) : Leads(next, third)
      BY <1>3, <1>6
    <2>3. Leads(first, third)
      BY <1>1, <2>1, <2>2 DEF StrictOrder
    <2> QED BY <1>3, <1>6, <2>3
  <1>7. ASSUME NEW key \in keys, NEW other \in keys, key # other, key # None, other # None
        PROVE  Before(key, other) \/ Before(other, key)
    <2>1. PICK first \in members(key) : \A ref \in members(key) \ {first} : <<first, ref>> \in order
      BY <1>4
    <2>2. PICK next \in members(other) : \A ref \in members(other) \ {next} : <<next, ref>> \in order
      BY <1>4
    <2>3. first # next /\ first \in refs /\ next \in refs
      BY <1>1, <1>2, <1>7
    <2>4. CASE <<first, next>> \in order
      <3>1. Leads(first, other)
        BY <1>1, <2>2, <2>3, <2>4 DEF StrictOrder
      <3> QED BY <1>3, <1>7, <3>1
    <2>5. CASE <<next, first>> \in order
      <3>1. Leads(next, key)
        BY <1>1, <2>1, <2>3, <2>5 DEF StrictOrder
      <3> QED BY <1>3, <1>7, <3>1
    <2> QED BY <2>3, <2>4, <2>5 DEF StrictOrder
  <1>8. \A key, other \in keys : key = other \/ Before(key, other) \/ Before(other, key)
    BY <1>3, <1>7
  <1>9. \A key, other, third \in keys :
            Before(key, other) /\ Before(other, third) => Before(key, third)
    BY <1>3, <1>6
  <1> QED BY <1>5, <1>8, <1>9 DEF Before, keys

\* Going round the groups is a strict order when each group has one.
LEMMA RoundRobinIsStrict ==
    ASSUME NEW refs, IsFiniteSet(refs), NEW order, StrictOrder(order, refs),
           NEW groupOf, NEW within,
           \A key \in GroupKeys(refs, groupOf) : StrictOrder(within, Group(refs, groupOf, key))
    PROVE  /\ StrictOrder(RoundRobin(refs, order, within, groupOf), refs)
           /\ RoundRobin(refs, order, within, groupOf) \subseteq refs \X refs
  <1> DEFINE Before(key, other) == GroupBefore(refs, order, groupOf, key, other)
             keys == GroupKeys(refs, groupOf)
             Round(ref) == CountBefore(Group(refs, groupOf, groupOf[ref]), within, ref)
             robin == RoundRobin(refs, order, within, groupOf)
  <1>1. robin = {pair \in refs \X refs :
                    \/ Round(pair[1]) < Round(pair[2])
                    \/ /\ Round(pair[1]) = Round(pair[2])
                       /\ Before(groupOf[pair[1]], groupOf[pair[2]])}
    BY DEF RoundRobin
  <1>2. \A x, y \in refs : <<x, y>> \in robin <=>
            \/ Round(x) < Round(y)
            \/ Round(x) = Round(y) /\ Before(groupOf[x], groupOf[y])
    BY <1>1
  <1>3. /\ \A key \in keys : ~Before(key, key)
        /\ \A key, other, third \in keys :
              Before(key, other) /\ Before(other, third) => Before(key, third)
        /\ \A key, other \in keys : key = other \/ Before(key, other) \/ Before(other, key)
    BY GroupsInOrder
  <1>4. \A x \in refs : groupOf[x] \in keys
    BY DEF GroupKeys
  <1>5. \A x \in refs : Round(x) \in Int
    <2> TAKE x \in refs
    <2> DEFINE members == Group(refs, groupOf, groupOf[x])
    <2>1. members \in SUBSET refs /\ x \in members
      BY DEF Group
    <2>2. IsFiniteSet(members) /\ StrictOrder(within, members)
      BY <1>4, <2>1, FS_Subset
    <2> HIDE DEF members
    <2>3. Cardinality(members) \in Nat
      BY <2>2, FS_CardinalityType
    <2>4. CountBefore(members, within, x) \in 0 .. (Cardinality(members) - 1)
      BY <2>1, <2>2, CountsGrow
    <2> QED BY <2>3, <2>4 DEF members
  <1>6. \A x, y \in refs : Round(x) = Round(y) /\ groupOf[x] = groupOf[y] => x = y
    <2> SUFFICES ASSUME NEW x \in refs, NEW y \in refs, Round(x) = Round(y),
                        groupOf[x] = groupOf[y]
                 PROVE  x = y
      OBVIOUS
    <2> DEFINE members == Group(refs, groupOf, groupOf[x])
    <2>1. members \in SUBSET refs /\ x \in members /\ y \in members
      BY DEF Group
    <2>2. IsFiniteSet(members) /\ StrictOrder(within, members)
      BY <1>4, <2>1, FS_Subset
    <2>3. CountBefore(members, within, x) = CountBefore(members, within, y)
      OBVIOUS
    <2> HIDE DEF members, Round
    <2> QED BY <2>1, <2>2, <2>3, CountsDiffer
  <1>7. robin \subseteq refs \X refs
    BY <1>1
  <1> HIDE DEF Round, Before, keys, robin
  <1>8. \A x \in refs : <<x, x>> \notin robin
    BY <1>2, <1>3, <1>4, <1>5
  <1>9. \A x, y, z \in refs : <<x, y>> \in robin /\ <<y, z>> \in robin => <<x, z>> \in robin
    <2> SUFFICES ASSUME NEW x \in refs, NEW y \in refs, NEW z \in refs,
                        <<x, y>> \in robin, <<y, z>> \in robin
                 PROVE  <<x, z>> \in robin
      OBVIOUS
    <2>1. Before(groupOf[x], groupOf[y]) /\ Before(groupOf[y], groupOf[z])
            => Before(groupOf[x], groupOf[z])
      BY <1>3, <1>4
    <2>2. Round(x) \in Int /\ Round(y) \in Int /\ Round(z) \in Int
      BY <1>5
    <2> QED BY <1>2, <2>1, <2>2
  <1>10. \A x, y \in refs : x = y \/ <<x, y>> \in robin \/ <<y, x>> \in robin
    <2> SUFFICES ASSUME NEW x \in refs, NEW y \in refs, x # y
                 PROVE  <<x, y>> \in robin \/ <<y, x>> \in robin
      OBVIOUS
    <2>1. Round(x) = Round(y) =>
             Before(groupOf[x], groupOf[y]) \/ Before(groupOf[y], groupOf[x])
      BY <1>3, <1>4, <1>6
    <2>2. Round(x) \in Int /\ Round(y) \in Int
      BY <1>5
    <2> QED BY <1>2, <2>1, <2>2
  <1> QED BY <1>7, <1>8, <1>9, <1>10 DEF robin, StrictOrder

\* The orders of the groups, taken together, are an order of each.
LEMMA OrdersOfGroups ==
    ASSUME NEW refs, NEW groupOf, NEW spreads,
           \A key \in GroupKeys(refs, groupOf) :
              /\ StrictOrder(spreads[key], Group(refs, groupOf, key))
              /\ spreads[key] \subseteq Group(refs, groupOf, key) \X Group(refs, groupOf, key)
    PROVE  \A key \in GroupKeys(refs, groupOf) :
              StrictOrder(UNION {spreads[k] : k \in GroupKeys(refs, groupOf)},
                          Group(refs, groupOf, key))
  <1> DEFINE keys == GroupKeys(refs, groupOf)
             members(key) == Group(refs, groupOf, key)
             all == UNION {spreads[k] : k \in keys}
  <1>1. \A key, other : key # other => members(key) \cap members(other) = {}
    BY DEF Group
  <1>2. \A key \in keys : StrictOrder(spreads[key], members(key))
    OBVIOUS
  <1>3. \A key \in keys : spreads[key] \subseteq members(key) \X members(key)
    OBVIOUS
  <1> HIDE DEF keys, members
  <1>4. \A key \in keys : \A x, y \in members(key) :
            <<x, y>> \in all <=> <<x, y>> \in spreads[key]
    <2> SUFFICES ASSUME NEW key \in keys, NEW x \in members(key), NEW y \in members(key),
                        <<x, y>> \in all
                 PROVE  <<x, y>> \in spreads[key]
      OBVIOUS
    <2>1. PICK k \in keys : <<x, y>> \in spreads[k]
      OBVIOUS
    <2>2. x \in members(k)
      BY <1>3, <2>1
    <2> QED BY <1>1, <2>1, <2>2
  <1> HIDE DEF all
  <1>5. \A key \in keys : StrictOrder(all, members(key))
    BY <1>2, <1>4 DEF StrictOrder
  <1> QED BY <1>5 DEF all, keys, members

\* An order of some refs, and of no others.
OrderOf(order, refs) == StrictOrder(order, refs) /\ order \subseteq refs \X refs

\* Spreading what is exact over its reasons gives an order.
LEMMA EvidenceRolesAreSpread ==
    ASSUME NEW refs, IsFiniteSet(refs), NEW order, StrictOrder(order, refs), NEW roleOf
    PROVE  OrderOf(SpreadEvidenceRoles(refs, order, roleOf), refs)
  <1>1. CASE ~HasGroups(refs, roleOf)
    BY <1>1 DEF SpreadEvidenceRoles, OrderOf, StrictOrder
  <1>2. CASE HasGroups(refs, roleOf)
    <2>1. \A key \in GroupKeys(refs, roleOf) : StrictOrder(order, Group(refs, roleOf, key))
      BY StrictOnSome DEF Group
    <2> QED BY <1>2, <2>1, RoundRobinIsStrict DEF SpreadEvidenceRoles, OrderOf
  <1> QED BY <1>1, <1>2

\* So does spreading each language, and the languages.
LEMMA LanguagesAreSpread ==
    ASSUME NEW refs, IsFiniteSet(refs), NEW order, StrictOrder(order, refs),
           NEW languageOf, NEW roleOf
    PROVE  OrderOf(SpreadLanguages(refs, order, languageOf, roleOf), refs)
  <1>1. CASE ~HasGroups(refs, languageOf)
    BY <1>1, EvidenceRolesAreSpread DEF SpreadLanguages
  <1>2. CASE HasGroups(refs, languageOf)
    <2> DEFINE keys == GroupKeys(refs, languageOf)
               members(key) == Group(refs, languageOf, key)
               spreads == [key \in keys |-> SpreadEvidenceRoles(members(key), order, roleOf)]
               all == UNION {spreads[key] : key \in keys}
    <2>1. \A key \in keys : OrderOf(spreads[key], members(key))
      <3> TAKE key \in keys
      <3>1. members(key) \in SUBSET refs
        BY DEF Group
      <3>2. IsFiniteSet(members(key)) /\ StrictOrder(order, members(key))
        BY <3>1, FS_Subset, StrictOnSome
      <3> QED BY <3>2, EvidenceRolesAreSpread
    <2>2. all = UNION {SpreadEvidenceRoles(members(key), order, roleOf) : key \in keys}
      OBVIOUS
    <2>3. SpreadLanguages(refs, order, languageOf, roleOf) = RoundRobin(refs, order, all, languageOf)
      BY <1>2, <2>2 DEF SpreadLanguages
    <2> HIDE DEF spreads
    <2>4. \A key \in keys : StrictOrder(all, members(key))
      BY <2>1, OrdersOfGroups DEF OrderOf
    <2> HIDE DEF all
    <2> QED BY <2>3, <2>4, RoundRobinIsStrict DEF OrderOf
  <1> QED BY <1>1, <1>2

\* And spreading each package, and the packages.
LEMMA PackagesAreSpread ==
    ASSUME NEW refs, IsFiniteSet(refs), NEW order, StrictOrder(order, refs),
           NEW languageOf, NEW roleOf
    PROVE  OrderOf(SpreadPackages(refs, order, languageOf, roleOf), refs)
  <1>1. CASE ~HasGroups(refs, PackageRoots)
    BY <1>1, LanguagesAreSpread DEF SpreadPackages
  <1>2. CASE HasGroups(refs, PackageRoots)
    <2> DEFINE keys == GroupKeys(refs, PackageRoots)
               members(key) == Group(refs, PackageRoots, key)
               spreads == [key \in keys |->
                              SpreadLanguages(members(key), order, languageOf, roleOf)]
               all == UNION {spreads[key] : key \in keys}
    <2>1. \A key \in keys : OrderOf(spreads[key], members(key))
      <3> TAKE key \in keys
      <3>1. members(key) \in SUBSET refs
        BY DEF Group
      <3>2. IsFiniteSet(members(key)) /\ StrictOrder(order, members(key))
        BY <3>1, FS_Subset, StrictOnSome
      <3> QED BY <3>2, LanguagesAreSpread
    <2>2. all = UNION {SpreadLanguages(members(key), order, languageOf, roleOf) : key \in keys}
      OBVIOUS
    <2>3. SpreadPackages(refs, order, languageOf, roleOf)
            = RoundRobin(refs, order, all, PackageRoots)
      BY <1>2, <2>2 DEF SpreadPackages
    <2> HIDE DEF spreads
    <2>4. \A key \in keys : StrictOrder(all, members(key))
      BY <2>1, OrdersOfGroups DEF OrderOf
    <2> HIDE DEF all
    <2> QED BY <2>3, <2>4, RoundRobinIsStrict DEF OrderOf
  <1> QED BY <1>1, <1>2

----------------------------------------------------------------------------
(* Looking a task up *)

\* What is read of a snapshot with finitely many files.
FoundSound(found, request) ==
    /\ IsFiniteSet(found.refs) /\ found.refs \subseteq DOMAIN PathOrder
    /\ IsFiniteSet(found.symbols) /\ IsFiniteSet(found.hits) /\ IsFiniteSet(request.terms)

\* A score is a number.
LEMMA ScoreIsNatural ==
    ASSUME NEW found, NEW request, FoundSound(found, request), NEW ref
    PROVE  Score(found, request, ref) \in Nat
  <1> DEFINE symbols == {s \in found.symbols : s.path = ref /\ s # Module(ref)}
             named == {pair \in symbols \X request.terms : pair[2] \in NameTerms[pair[1].name]}
             read == {hit \in found.hits : hit.ref = ref}
             weights == PathWeights[ref]
             segments == {term \in TermsOfPath(ref) \cap request.terms : weights[term] = 2}
             across == {term \in TermsOfPath(ref) \cap request.terms : weights[term] = 1}
  <1>1. IsFiniteSet(symbols) /\ IsFiniteSet(read)
    <2>1. symbols \in SUBSET found.symbols /\ read \in SUBSET found.hits
      OBVIOUS
    <2> HIDE DEF symbols, read
    <2> QED BY <2>1, FS_Subset DEF FoundSound
  <1>2. IsFiniteSet(segments) /\ IsFiniteSet(across)
    <2>1. segments \in SUBSET request.terms /\ across \in SUBSET request.terms
      OBVIOUS
    <2> HIDE DEF segments, across
    <2> QED BY <2>1, FS_Subset DEF FoundSound
  <1>3. IsFiniteSet(named)
    <2>1. named \in SUBSET (symbols \X request.terms)
      OBVIOUS
    <2> HIDE DEF symbols, named
    <2>2. IsFiniteSet(symbols \X request.terms)
      BY <1>1, FS_Product DEF FoundSound
    <2> QED BY <2>1, <2>2, FS_Subset
  <1>4. Score(found, request, ref) = 5 * Cardinality(named) + 3 * Cardinality(read)
            + 2 * Cardinality(segments) + Cardinality(across)
    BY DEF Score
  <1> HIDE DEF named, read, segments, across
  <1>5. /\ Cardinality(named) \in Nat /\ Cardinality(read) \in Nat
        /\ Cardinality(segments) \in Nat /\ Cardinality(across) \in Nat
    BY <1>1, <1>2, <1>3, FS_CardinalityType
  <1> QED BY <1>4, <1>5

\* Two files with the same score have different names.
LEMMA RankIsStrict ==
    ASSUME NEW found, NEW request, FoundSound(found, request), NEW refs \in SUBSET found.refs
    PROVE  StrictOrder(RankOrder(found, request, refs), refs)
  <1> DEFINE score(ref) == Score(found, request, ref)
             rank == RankOrder(found, request, refs)
  <1>1. \A x, y \in refs : <<x, y>> \in rank <=>
            \/ score(x) > score(y)
            \/ score(x) = score(y) /\ PathOrder[x] < PathOrder[y]
    BY DEF RankOrder
  <1>2. \A x \in refs : score(x) \in Int
    BY ScoreIsNatural
  <1>3. /\ \A x \in refs : PathOrder[x] \in Int
        /\ \A x, y \in refs : PathOrder[x] = PathOrder[y] => x = y
    BY PathsAreOrdered DEF FoundSound
  <1> HIDE DEF score, rank
  <1>4. \A x \in refs : <<x, x>> \notin rank
    BY <1>1, <1>2, <1>3
  <1>5. \A x, y, z \in refs : <<x, y>> \in rank /\ <<y, z>> \in rank => <<x, z>> \in rank
    <2> SUFFICES ASSUME NEW x \in refs, NEW y \in refs, NEW z \in refs,
                        <<x, y>> \in rank, <<y, z>> \in rank
                 PROVE  <<x, z>> \in rank
      OBVIOUS
    <2>1. /\ score(x) \in Int /\ score(y) \in Int /\ score(z) \in Int
          /\ PathOrder[x] \in Int /\ PathOrder[y] \in Int /\ PathOrder[z] \in Int
      BY <1>2, <1>3
    <2> QED BY <1>1, <2>1
  <1>6. \A x, y \in refs : x = y \/ <<x, y>> \in rank \/ <<y, x>> \in rank
    <2> SUFFICES ASSUME NEW x \in refs, NEW y \in refs, x # y
                 PROVE  <<x, y>> \in rank \/ <<y, x>> \in rank
      OBVIOUS
    <2>1. /\ score(x) \in Int /\ score(y) \in Int
          /\ PathOrder[x] \in Int /\ PathOrder[y] \in Int /\ PathOrder[x] # PathOrder[y]
      BY <1>2, <1>3
    <2> QED BY <1>1, <2>1
  <1> QED BY <1>4, <1>5, <1>6 DEF rank, StrictOrder

\* What is a candidate is a file of the snapshot.
LEMMA CandidatesAreThere ==
    ASSUME NEW found, NEW request
    PROVE  CandidateRefs(RefsFor(found, request)) \subseteq found.refs
  <1> DEFINE refsFor == RefsFor(found, request)
  <1>1. DOMAIN refsFor = {"explicit_seed", "test_seed", "observed_failure_link", "symbol_match",
                          "graph_related", "related_test", "lexical_match"}
    BY DEF RefsFor
  <1>2. /\ refsFor.explicit_seed = ExplicitSeeds(found, request)
        /\ refsFor.test_seed = TestSeeds(found, request)
        /\ refsFor.observed_failure_link = ObservedFailureRefs(found, request)
        /\ refsFor.symbol_match = SymbolMatches(found, request)
        /\ refsFor.lexical_match = LexicalMatches(found, request)
    BY DEF RefsFor
  <1>3. \E from, others : /\ refsFor.graph_related = GraphRelated(found, request, from)
                                \cup GraphRelated(found, request, others)
    BY DEF RefsFor
  <1>4. \E targets : refsFor.related_test = RelatedTests(found, request, targets)
    BY DEF RefsFor
  <1> HIDE DEF refsFor
  <1>5. /\ refsFor.explicit_seed \subseteq found.refs
        /\ refsFor.test_seed \subseteq found.refs
        /\ refsFor.observed_failure_link \subseteq found.refs
        /\ refsFor.lexical_match \subseteq found.refs
    <2>1. ExplicitSeeds(found, request) \subseteq found.refs
      BY DEF ExplicitSeeds, MentionedRefs, Allowed
    <2>2. TestSeeds(found, request) \subseteq found.refs
      BY DEF TestSeeds, Allowed
    <2>3. ObservedFailureRefs(found, request) \subseteq found.refs
      BY DEF ObservedFailureRefs, Allowed
    <2>4. LexicalMatches(found, request) \subseteq found.refs
      BY DEF LexicalMatches, Allowed
    <2> QED BY <1>2, <2>1, <2>2, <2>3, <2>4
  <1>6. refsFor.symbol_match \subseteq found.refs
    BY <1>2 DEF SymbolMatches, Allowed
  <1>7. refsFor.graph_related \subseteq found.refs
    BY <1>3 DEF GraphRelated, Allowed
  <1>8. refsFor.related_test \subseteq found.refs
    BY <1>4 DEF RelatedTests, Allowed
  <1>9. \A reason \in DOMAIN refsFor : refsFor[reason] \subseteq found.refs
    BY <1>1, <1>5, <1>6, <1>7, <1>8
  <1> QED BY <1>9 DEF CandidateRefs, refsFor

\* The least of a few numbers is one of them, and so is the greatest.
LEMMA LeastOfTwo ==
    ASSUME NEW a \in Int, NEW b \in Int
    PROVE  /\ Min({a, b}) = IF a <= b THEN a ELSE b
           /\ Max({a, b}) = IF a <= b THEN b ELSE a
  BY DEF Min, Max

LEMMA LeastOfFour ==
    ASSUME NEW a \in Int, NEW b \in Int, NEW c \in Int, NEW d \in Int
    PROVE  /\ Min({a, b, c, d}) \in {a, b, c, d}
           /\ Min({a, b, c, d}) <= a /\ Min({a, b, c, d}) <= b
           /\ Min({a, b, c, d}) <= c /\ Min({a, b, c, d}) <= d
  <1> DEFINE numbers == {a, b, c, d}
  <1>1. \E least \in numbers : \A n \in numbers : least <= n
    OBVIOUS
  <1> QED BY <1>1 DEF Min

\* The share of the test seeds is at most what there is of them and at most the cap.
LEMMA TestSlotsFit ==
    ASSUME NEW request, NEW explicitCount \in Nat, NEW testCount \in Nat
    PROVE  /\ TestSlots(request, explicitCount, testCount) \in Nat
           /\ TestSlots(request, explicitCount, testCount) <= testCount
           /\ TestSlots(request, explicitCount, testCount) <= MaxSelected
  <1> DEFINE part == MaxSelected \div (IF TestFocused(request) THEN 2 ELSE 4)
             share == Max({1, part})
             slots == Min({testCount, 4, MaxSelected, share})
  <1>1. MaxSelected \in Nat
    BY MaxSelectedIsNatural
  <1>2. part \in Nat
    <2>1. MaxSelected \div 2 \in Nat /\ MaxSelected \div 4 \in Nat
      BY <1>1
    <2> QED BY <2>1
  <1> HIDE DEF part
  <1>3. share \in Nat
    <2>1. 1 \in Int /\ part \in Int
      BY <1>2
    <2>2. share = IF 1 <= part THEN part ELSE 1
      BY <2>1, LeastOfTwo, Zenon
    <2> HIDE DEF share
    <2> QED BY <1>2, <2>2
  <1> HIDE DEF share
  <1>4. slots \in {testCount, 4, MaxSelected, share} /\ slots <= testCount /\ slots <= MaxSelected
    <2>1. testCount \in Int /\ 4 \in Int /\ MaxSelected \in Int /\ share \in Int
      BY <1>1, <1>3
    <2>2. slots \in {testCount, 4, MaxSelected, share}
      BY <2>1, LeastOfFour, Zenon
    <2>3. slots <= testCount /\ slots <= MaxSelected
      BY <2>1, LeastOfFour, Zenon
    <2> HIDE DEF slots
    <2> QED BY <2>2, <2>3
  <1>5. slots \in Nat
    BY <1>1, <1>3, <1>4
  <1>6. TestSlots(request, explicitCount, testCount) \in {0, slots}
    BY DEF TestSlots, share, part
  <1> HIDE DEF slots
  <1> QED BY <1>1, <1>4, <1>5, <1>6

\* The share that tests always get is a number.
LEMMA TestShareIsNumber == TestShare \in Nat
  <1>1. MaxSelected \div 4 \in Nat
    BY MaxSelectedIsNatural
  <1>2. PICK quarter \in Nat : quarter = MaxSelected \div 4
    BY <1>1
  <1>3. PICK most \in Nat : most = Max({1, quarter})
    BY LeastOfTwo
  <1>4. TestShare = IF 4 <= most THEN 4 ELSE most
    BY <1>2, <1>3, LeastOfTwo DEF TestShare
  <1> QED BY <1>4

\* It is all of them, or enough, or there is no room for both.
LEMMA TestSlotsSuffice ==
    ASSUME NEW request, NEW explicitCount \in Nat, NEW testCount \in Nat
    PROVE  \/ TestSlots(request, explicitCount, testCount) = testCount
           \/ TestShare <= TestSlots(request, explicitCount, testCount)
           \/ /\ TestSlots(request, explicitCount, testCount) = 0
              /\ MaxSelected <= 1 /\ MaxSelected <= explicitCount
  <1> DEFINE slots == TestSlots(request, explicitCount, testCount)
             part == MaxSelected \div (IF TestFocused(request) THEN 2 ELSE 4)
             share == Max({1, part})
  <1>1. MaxSelected \in Nat
    BY MaxSelectedIsNatural
  <1>2. PICK quarter \in Nat : /\ quarter = MaxSelected \div 4 /\ quarter <= MaxSelected
                               /\ quarter <= part /\ part \in Nat
    <2>1. /\ MaxSelected \div 2 \in Nat /\ MaxSelected \div 4 \in Nat
          /\ MaxSelected \div 4 <= MaxSelected /\ MaxSelected \div 4 <= MaxSelected \div 2
      BY <1>1
    <2> QED BY <2>1
  <1> HIDE DEF part
  <1>3. /\ TestShare <= 4 /\ TestShare <= share
        /\ MaxSelected >= 1 => TestShare <= MaxSelected
        /\ TestShare \in Nat /\ share \in Nat
    <2>1. /\ share = IF 1 <= part THEN part ELSE 1
          /\ Max({1, quarter}) = IF 1 <= quarter THEN quarter ELSE 1
      <3>1. 1 \in Int /\ part \in Int /\ quarter \in Int
        BY <1>2
      <3> QED BY <3>1, LeastOfTwo, Zenon
    <2>2. PICK most \in Nat : /\ most = Max({1, quarter}) /\ most <= share
                              /\ MaxSelected >= 1 => most <= MaxSelected
      BY <1>1, <1>2, <2>1
    <2>3. TestShare = IF 4 <= most THEN 4 ELSE most
      BY <1>2, <2>2, LeastOfTwo DEF TestShare
    <2> QED BY <1>1, <1>2, <2>1, <2>2, <2>3
  <1> HIDE DEF share
  <1>4. CASE testCount = 0 \/ MaxSelected = 0 \/ (MaxSelected = 1 /\ explicitCount > 0)
    <2>1. slots = 0
      BY <1>4 DEF TestSlots
    <2> QED BY <1>4, <2>1
  <1>5. CASE ~(testCount = 0 \/ MaxSelected = 0 \/ (MaxSelected = 1 /\ explicitCount > 0))
    <2>1. slots = Min({testCount, 4, MaxSelected, share})
      BY <1>5 DEF TestSlots, share, part
    <2> HIDE DEF slots
    <2>2. slots \in {testCount, 4, MaxSelected, share}
      <3>1. testCount \in Int /\ 4 \in Int /\ MaxSelected \in Int /\ share \in Int
        BY <1>1, <1>3
      <3>2. Min({testCount, 4, MaxSelected, share}) \in {testCount, 4, MaxSelected, share}
        BY <3>1, LeastOfFour, Zenon
      <3> QED BY <2>1, <3>2, Zenon
    <2>3. slots = testCount \/ TestShare <= slots
      BY <1>1, <1>3, <1>5, <2>2
    <2> QED BY <2>3 DEF slots
  <1> QED BY <1>4, <1>5

\* The tiers share nothing, and are the candidates.
LEMMA TiersPartCandidates ==
    ASSUME NEW found, NEW request
    PROVE  LET refsFor == RefsFor(found, request)
               tiers == Tiers(refsFor) IN
           /\ tiers.explicit = refsFor.explicit_seed
           /\ tiers.tests = refsFor.test_seed \ refsFor.explicit_seed
           /\ tiers.explicit \cap tiers.tests = {}
           /\ tiers.explicit \cup tiers.tests \cup tiers.exact \cup tiers.near
                = CandidateRefs(refsFor)
  <1> DEFINE refsFor == RefsFor(found, request)
             tiers == Tiers(refsFor)
  <1>1. DOMAIN refsFor = {"explicit_seed", "test_seed", "observed_failure_link", "symbol_match",
                          "graph_related", "related_test", "lexical_match"}
    BY DEF RefsFor
  <1> HIDE DEF refsFor
  <1>2. /\ refsFor.explicit_seed \subseteq CandidateRefs(refsFor)
        /\ refsFor.test_seed \subseteq CandidateRefs(refsFor)
        /\ refsFor.symbol_match \subseteq CandidateRefs(refsFor)
        /\ refsFor.related_test \subseteq CandidateRefs(refsFor)
        /\ refsFor.observed_failure_link \subseteq CandidateRefs(refsFor)
    BY <1>1 DEF CandidateRefs
  <1>3. /\ tiers.explicit = refsFor.explicit_seed
        /\ tiers.tests = refsFor.test_seed \ refsFor.explicit_seed
        /\ tiers.exact = (refsFor.symbol_match \cup refsFor.related_test
                            \cup refsFor.observed_failure_link)
                            \ (tiers.explicit \cup tiers.tests)
        /\ tiers.near = CandidateRefs(refsFor)
                          \ (tiers.explicit \cup tiers.tests \cup tiers.exact)
    BY DEF Tiers
  <1> HIDE DEF tiers
  <1> QED BY <1>2, <1>3 DEF refsFor, tiers

\* Nothing is taken when nothing may be.
LEMMA NothingFirst ==
    ASSUME NEW refs, IsFiniteSet(refs), NEW order
    PROVE  First(0, refs, order) = {}
  <1> SUFFICES ASSUME NEW ref \in First(0, refs, order)
               PROVE  FALSE
    OBVIOUS
  <1> DEFINE before == {other \in refs : <<other, ref>> \in order}
  <1>1. Cardinality(before) < 0
    BY DEF First, CountBefore
  <1>2. before \in SUBSET refs
    OBVIOUS
  <1> HIDE DEF before
  <1>3. Cardinality(before) \in Nat
    BY <1>2, FS_Subset, FS_CardinalityType
  <1> QED BY <1>1, <1>3

\* Of four tiers with their orders, no more is taken than may be, and the explicit first.
LEMMA TiersInTurn ==
    ASSUME NEW tiers, NEW orders, NEW slots \in Nat, slots <= MaxSelected,
           slots <= Cardinality(tiers.tests),
           tiers.explicit \cap tiers.tests = {},
           IsFiniteSet(tiers.explicit), StrictOrder(orders.explicit, tiers.explicit),
           IsFiniteSet(tiers.tests), StrictOrder(orders.tests, tiers.tests),
           IsFiniteSet(tiers.exact), IsFiniteSet(tiers.near)
    PROVE  LET selected == TakeTiers(tiers, orders, slots) IN
           /\ selected \subseteq tiers.explicit \cup tiers.tests \cup tiers.exact \cup tiers.near
           /\ \/ tiers.explicit \subseteq selected
              \/ /\ Cardinality(selected) = MaxSelected
                 /\ selected \subseteq tiers.explicit \cup tiers.tests
  <1> DEFINE Left(taken) == MaxSelected - Cardinality(taken)
             explicit == First(MaxSelected - slots, tiers.explicit, orders.explicit)
             tests == First(Min({slots, Left(explicit)}), tiers.tests, orders.tests)
             exact == First(Left(explicit \cup tests), tiers.exact, orders.exact)
             near == First(Left(explicit \cup tests \cup exact), tiers.near, orders.near)
             selected == TakeTiers(tiers, orders, slots)
  <1>1. selected = explicit \cup tests \cup exact \cup near
    BY DEF TakeTiers
  <1>2. /\ explicit \subseteq tiers.explicit /\ tests \subseteq tiers.tests
        /\ exact \subseteq tiers.exact /\ near \subseteq tiers.near
    BY DEF First
  <1>3. /\ MaxSelected \in Nat /\ MaxSelected - slots \in Nat
        /\ Cardinality(tiers.explicit) \in Nat /\ Cardinality(tiers.tests) \in Nat
    BY MaxSelectedIsNatural, FS_CardinalityType
  <1>4. CASE Cardinality(tiers.explicit) <= MaxSelected - slots
    <2>1. explicit = tiers.explicit
      BY <1>3, <1>4, FirstTakes
    <2> HIDE DEF explicit, tests, exact, near, selected
    <2> QED BY <1>1, <1>2, <2>1 DEF selected
  <1>5. CASE MaxSelected - slots <= Cardinality(tiers.explicit)
    <2>1. Cardinality(explicit) = MaxSelected - slots
      BY <1>3, <1>5, FirstTakes
    <2>2. IsFiniteSet(explicit) /\ IsFiniteSet(tests)
      BY <1>2, FS_Subset
    <2>3. Cardinality(tests) = slots
      <3>1. Min({slots, Left(explicit)}) = slots
        <4>1. Left(explicit) = slots
          BY <1>3, <2>1
        <4> HIDE DEF explicit
        <4> QED BY <4>1, LeastOfTwo
      <3> QED BY <3>1, FirstTakes
    <2>4. Cardinality(explicit \cup tests) = MaxSelected
      <3>1. explicit \cap tests = {}
        BY <1>2
      <3> HIDE DEF explicit, tests
      <3>2. Cardinality(explicit \cup tests)
              = Cardinality(explicit) + Cardinality(tests) - Cardinality(explicit \cap tests)
        BY <2>2, FS_Union
      <3>3. Cardinality(explicit \cap tests) = 0
        BY <3>1, FS_EmptySet
      <3> QED BY <1>3, <2>1, <2>3, <3>2, <3>3
    <2>6. exact = {}
      <3>1. Left(explicit \cup tests) = 0
        BY <1>3, <2>4
      <3> QED BY <3>1, NothingFirst
    <2>7. near = {}
      <3>1. explicit \cup tests \cup exact = explicit \cup tests
        BY <2>6
      <3>2. Left(explicit \cup tests) = 0
        BY <1>3, <2>4
      <3>3. Left(explicit \cup tests \cup exact) = 0
        <4> HIDE DEF explicit, tests, exact, Left
        <4> QED BY <3>1, <3>2
      <3> QED BY <3>3, NothingFirst
    <2> HIDE DEF explicit, tests, exact, near, selected
    <2> QED BY <1>1, <1>2, <2>4, <2>6, <2>7 DEF selected
  <1> QED BY <1>3, <1>4, <1>5

\* And the tests get their slots.
LEMMA TestsInTurn ==
    ASSUME NEW tiers, NEW orders, NEW slots \in Nat, slots <= MaxSelected,
           slots <= Cardinality(tiers.tests),
           IsFiniteSet(tiers.explicit), StrictOrder(orders.explicit, tiers.explicit),
           IsFiniteSet(tiers.tests), StrictOrder(orders.tests, tiers.tests),
           IsFiniteSet(tiers.exact), IsFiniteSet(tiers.near)
    PROVE  LET selected == TakeTiers(tiers, orders, slots) IN
           /\ slots <= Cardinality(selected \cap tiers.tests)
           /\ slots = Cardinality(tiers.tests) => tiers.tests \subseteq selected
           /\ slots = 0 /\ MaxSelected <= Cardinality(tiers.explicit)
                => selected \subseteq tiers.explicit
  <1> DEFINE Left(taken) == MaxSelected - Cardinality(taken)
             explicit == First(MaxSelected - slots, tiers.explicit, orders.explicit)
             tests == First(Min({slots, Left(explicit)}), tiers.tests, orders.tests)
             exact == First(Left(explicit \cup tests), tiers.exact, orders.exact)
             near == First(Left(explicit \cup tests \cup exact), tiers.near, orders.near)
             selected == TakeTiers(tiers, orders, slots)
  <1>1. selected = explicit \cup tests \cup exact \cup near
    BY DEF TakeTiers
  <1>2. explicit \subseteq tiers.explicit /\ tests \subseteq tiers.tests
    BY DEF First
  <1>3. /\ MaxSelected \in Nat /\ MaxSelected - slots \in Nat
        /\ Cardinality(tiers.explicit) \in Nat /\ Cardinality(tiers.tests) \in Nat
    BY MaxSelectedIsNatural, FS_CardinalityType
  <1>4. /\ Cardinality(explicit) \in Nat /\ Cardinality(explicit) <= MaxSelected - slots
        /\ MaxSelected - slots <= Cardinality(tiers.explicit)
              => Cardinality(explicit) = MaxSelected - slots
    BY <1>3, FirstTakes
  <1>5. Min({slots, Left(explicit)}) = slots
    <2>1. Left(explicit) \in Int /\ slots <= Left(explicit)
      BY <1>3, <1>4
    <2> HIDE DEF explicit, Left
    <2> QED BY <2>1, LeastOfTwo
  <1>6. tests = First(slots, tiers.tests, orders.tests)
    BY <1>5
  <1>7. Cardinality(tests) = slots /\ (slots = Cardinality(tiers.tests) => tests = tiers.tests)
    BY <1>3, <1>6, FirstTakes
  <1>8. slots <= Cardinality(selected \cap tiers.tests)
    <2>1. tests \subseteq selected \cap tiers.tests
      BY <1>1, <1>2
    <2>2. IsFiniteSet(selected \cap tiers.tests)
      BY FS_Subset
    <2> HIDE DEF selected, tests
    <2>3. Cardinality(tests) <= Cardinality(selected \cap tiers.tests)
      BY <2>1, <2>2, FS_Subset
    <2> QED BY <1>7, <2>3
  <1>9. ASSUME slots = 0, MaxSelected <= Cardinality(tiers.explicit)
        PROVE  selected \subseteq tiers.explicit
    <2>1. tests = {}
      BY <1>6, <1>9, NothingFirst
    <2>2. Left(explicit \cup tests) = 0
      <3>1. explicit \cup tests = explicit
        BY <2>1
      <3>2. Left(explicit) = 0
        BY <1>3, <1>4, <1>9
      <3> HIDE DEF explicit, tests, Left
      <3> QED BY <3>1, <3>2
    <2>3. exact = {}
      BY <2>2, NothingFirst
    <2>4. near = {}
      <3>1. explicit \cup tests \cup exact = explicit \cup tests
        BY <2>3
      <3>2. Left(explicit \cup tests \cup exact) = 0
        <4> HIDE DEF explicit, tests, exact, Left
        <4> QED BY <2>2, <3>1
      <3> QED BY <3>2, NothingFirst
    <2> HIDE DEF explicit, tests, exact, near, selected
    <2> QED BY <1>1, <1>2, <2>1, <2>3, <2>4
  <1> HIDE DEF explicit, tests, exact, near, selected
  <1>10. slots = Cardinality(tiers.tests) => tiers.tests \subseteq selected
    BY <1>1, <1>7
  <1> QED BY <1>8, <1>9, <1>10 DEF selected

\* SeedsComeFirst of what is selected.
SeedsKept(refsFor, selected) ==
    LET files == refsFor.explicit_seed
        tests == refsFor.test_seed \ files IN
    /\ \/ files \subseteq selected
       \/ Cardinality(selected) = MaxSelected /\ selected \subseteq files \cup tests
    /\ \/ tests \subseteq selected
       \/ Cardinality(selected \cap tests) >= TestShare
       \/ MaxSelected <= 1 /\ selected \subseteq files

\* A look-up takes candidates only, and what is named comes first.
LEMMA SelectionIsSound ==
    ASSUME NEW found, NEW request, FoundSound(found, request)
    PROVE  LET refsFor == RefsFor(found, request)
               tiers == Tiers(refsFor)
               selected == SelectSourceRefs(found, request, refsFor, tiers) IN
           selected \subseteq CandidateRefs(refsFor) /\ SeedsKept(refsFor, selected)
  <1> DEFINE refsFor == RefsFor(found, request)
             tiers == Tiers(refsFor)
             orders == RankTiers(found, request, refsFor, tiers)
             slots == TestSlots(request, Cardinality(tiers.explicit), Cardinality(tiers.tests))
  <1>1. /\ tiers.explicit = refsFor.explicit_seed
        /\ tiers.tests = refsFor.test_seed \ refsFor.explicit_seed
        /\ tiers.explicit \cap tiers.tests = {}
        /\ tiers.explicit \cup tiers.tests \cup tiers.exact \cup tiers.near
             = CandidateRefs(refsFor)
    BY TiersPartCandidates
  <1>2. CandidateRefs(refsFor) \subseteq found.refs
    BY CandidatesAreThere
  <1>3. DOMAIN tiers = {"explicit", "tests", "exact", "near"}
    BY DEF Tiers
  <1>4. orders = [tier \in DOMAIN tiers |->
                     SpreadPackages(tiers[tier], RankOrder(found, request, tiers[tier]),
                         LanguageOf(found),
                         [ref \in found.refs |-> EvidenceRole(refsFor, tier, ref)])]
    BY DEF RankTiers
  <1> HIDE DEF refsFor, tiers, orders
  <1>5. \A tier \in DOMAIN tiers : tiers[tier] \in SUBSET found.refs
    BY <1>1, <1>2, <1>3
  <1>6. \A tier \in DOMAIN tiers :
            IsFiniteSet(tiers[tier]) /\ StrictOrder(orders[tier], tiers[tier])
    <2> TAKE tier \in DOMAIN tiers
    <2>1. IsFiniteSet(tiers[tier])
      BY <1>5, FS_Subset DEF FoundSound
    <2>2. StrictOrder(RankOrder(found, request, tiers[tier]), tiers[tier])
      BY <1>5, RankIsStrict
    <2> QED BY <1>4, <2>1, <2>2, PackagesAreSpread DEF OrderOf
  <1>7. /\ IsFiniteSet(tiers.explicit) /\ StrictOrder(orders.explicit, tiers.explicit)
        /\ IsFiniteSet(tiers.tests) /\ StrictOrder(orders.tests, tiers.tests)
        /\ IsFiniteSet(tiers.exact) /\ IsFiniteSet(tiers.near)
    BY <1>3, <1>6
  <1>8. slots \in Nat /\ slots <= Cardinality(tiers.tests) /\ slots <= MaxSelected
    BY <1>7, FS_CardinalityType, TestSlotsFit
  <1>9. \/ slots = Cardinality(tiers.tests)
        \/ TestShare <= slots
        \/ slots = 0 /\ MaxSelected <= 1 /\ MaxSelected <= Cardinality(tiers.explicit)
    <2>1. Cardinality(tiers.explicit) \in Nat /\ Cardinality(tiers.tests) \in Nat
      BY <1>7, FS_CardinalityType
    <2> QED BY <2>1, TestSlotsSuffice
  <1> HIDE DEF slots
  <1> DEFINE selected == TakeTiers(tiers, orders, slots)
  <1>10. /\ selected \subseteq tiers.explicit \cup tiers.tests \cup tiers.exact \cup tiers.near
        /\ \/ tiers.explicit \subseteq selected
           \/ /\ Cardinality(selected) = MaxSelected
              /\ selected \subseteq tiers.explicit \cup tiers.tests
    BY <1>1, <1>7, <1>8, TiersInTurn
  <1>11. selected = SelectSourceRefs(found, request, refsFor, tiers)
    BY DEF SelectSourceRefs, orders, slots
  <1>12. /\ slots <= Cardinality(selected \cap tiers.tests)
         /\ slots = Cardinality(tiers.tests) => tiers.tests \subseteq selected
         /\ slots = 0 /\ MaxSelected <= Cardinality(tiers.explicit)
              => selected \subseteq tiers.explicit
    BY <1>7, <1>8, TestsInTurn
  <1> HIDE DEF selected
  <1>13. \/ tiers.tests \subseteq selected
         \/ Cardinality(selected \cap tiers.tests) >= TestShare
         \/ MaxSelected <= 1 /\ selected \subseteq tiers.explicit
    <2>1. CASE TestShare <= slots
      <3>1. TestShare \in Int
        BY TestShareIsNumber
      <3>2. Cardinality(selected \cap tiers.tests) \in Nat
        BY <1>7, FS_Subset, FS_CardinalityType
      <3> QED BY <1>8, <1>12, <2>1, <3>1, <3>2
    <2> QED BY <1>9, <1>12, <2>1
  <1>14. selected \subseteq CandidateRefs(refsFor) /\ SeedsKept(refsFor, selected)
    BY <1>1, <1>10, <1>13 DEF SeedsKept
  <1> QED BY <1>11, <1>14 DEF refsFor, tiers

\* A retrieval without a warning left nothing out, missed no seed and has a test.
LEMMA NoWarningIsComplete ==
    ASSUME NEW found, NEW request, NEW selected,
           selected \subseteq CandidateRefs(RefsFor(found, request)),
           RetrievalWarnings(found, request, RefsFor(found, request), selected) = {},
           NEW files, found.refs \subseteq DOMAIN files
    PROVE  /\ request.files \cup request.tests \subseteq selected \cap DOMAIN files
           /\ CandidateRefs(RefsFor(found, request)) = selected
           /\ (\E ref \in selected : IsImplementation(ref)) =>
                 selected \cap TestsKnownTo(request) # {}
  <1> DEFINE refsFor == RefsFor(found, request)
             tests == refsFor.test_seed \cup refsFor.related_test
                        \cup FailedTests(request, selected)
  <1>1. /\ OmittedWarnings(found, refsFor, selected) = {}
        /\ MissingSeeds(found, request) = {}
        /\ (\E ref \in selected : IsImplementation(ref)) => tests \cap selected # {}
    <2>1. RetrievalWarnings(found, request, refsFor, selected) =
            OmittedWarnings(found, refsFor, selected)
              \cup (IF MissingSeeds(found, request) = {} THEN {} ELSE {"seed_not_found"})
              \cup (IF request.terms # {} /\ selected = {} THEN {"no_source_matches"} ELSE {})
              \cup (IF (\E ref \in selected : IsImplementation(ref)) /\ tests \cap selected = {}
                    THEN {"no_related_tests_found"} ELSE {})
      BY DEF RetrievalWarnings
    <2> HIDE DEF tests, refsFor
    <2>2. RetrievalWarnings(found, request, refsFor, selected) = {}
      BY DEF refsFor
    <2> QED BY <2>1, <2>2
  <1>2. CandidateRefs(refsFor) \ selected = {}
    <2> HIDE DEF refsFor
    <2>1. CandidateRefs(refsFor) \ selected # {} =>
             "omitted_over_cap" \in OmittedWarnings(found, refsFor, selected)
      BY DEF OmittedWarnings
    <2> QED BY <1>1, <2>1
  <1>3. /\ refsFor.explicit_seed = ExplicitSeeds(found, request)
        /\ refsFor.test_seed = TestSeeds(found, request)
        /\ \E targets : refsFor.related_test = RelatedTests(found, request, targets)
        /\ {"explicit_seed", "test_seed"} \subseteq DOMAIN refsFor
    BY DEF RefsFor
  <1> HIDE DEF refsFor
  <1>4. CandidateRefs(refsFor) = selected
    BY <1>2 DEF refsFor
  <1>5. request.files \cup request.tests \subseteq Allowed(found, request)
    BY <1>1 DEF MissingSeeds
  <1>6. refsFor.explicit_seed \cup refsFor.test_seed \subseteq selected
    BY <1>3, <1>4 DEF CandidateRefs
  <1>7. request.files \cup request.tests \subseteq refsFor.explicit_seed \cup refsFor.test_seed
    BY <1>3, <1>5 DEF ExplicitSeeds, TestSeeds
  <1>8. Allowed(found, request) \subseteq DOMAIN files
    BY DEF Allowed
  <1>9. tests \subseteq TestsKnownTo(request)
    <2>1. refsFor.test_seed \subseteq request.tests
      BY <1>3 DEF TestSeeds
    <2>2. refsFor.related_test \subseteq TestPaths
      BY <1>3 DEF RelatedTests
    <2>3. FailedTests(request, selected)
            \subseteq UNION {link.tests : link \in ObservedFailureLinks(request)}
      BY DEF FailedTests
    <2> QED BY <2>1, <2>2, <2>3 DEF TestsKnownTo
  <1> HIDE DEF tests
  <1> QED BY <1>1, <1>4, <1>5, <1>6, <1>7, <1>8, <1>9 DEF refsFor

\* What a look-up answers keeps its seeds, and is complete when it calls itself safe.
LEMMA RetrievalIsSound ==
    ASSUME NEW found, NEW request, FoundSound(found, request),
           NEW files, found.refs \subseteq DOMAIN files
    PROVE  LET retrieval == ResolveTaskRetrieval(found, request) IN
           /\ SeedsComeFirst(retrieval)
           /\ retrieval.confidence = "safe" => FindsAll(retrieval, request, files)
  <1> DEFINE refsFor == RefsFor(found, request)
             selected == SelectSourceRefs(found, request, refsFor, Tiers(refsFor))
             warnings == RetrievalWarnings(found, request, refsFor, selected)
             retrieval == ResolveTaskRetrieval(found, request)
  <1>1. selected \subseteq CandidateRefs(refsFor) /\ SeedsKept(refsFor, selected)
    BY SelectionIsSound
  <1>2. /\ retrieval.refsFor = refsFor /\ retrieval.selected = selected
        /\ retrieval.confidence = ClassifyConfidence(refsFor, selected, warnings)
    BY DEF ResolveTaskRetrieval, RetrievalFor, RetrievalOf, Retrieval
  <1> HIDE DEF selected, retrieval
  <1>3. SeedsComeFirst(retrieval)
    <2> HIDE DEF refsFor
    <2> QED BY <1>1, <1>2 DEF SeedsComeFirst, SeedsKept
  <1>4. ASSUME retrieval.confidence = "safe"
        PROVE  FindsAll(retrieval, request, files)
    <2>1. warnings = {}
      <3> HIDE DEF warnings, refsFor
      <3> QED BY <1>2, <1>4 DEF ClassifyConfidence
    <2>2. /\ request.files \cup request.tests \subseteq selected \cap DOMAIN files
          /\ CandidateRefs(refsFor) = selected
          /\ (\E ref \in selected : IsImplementation(ref)) =>
                selected \cap TestsKnownTo(request) # {}
      BY <1>1, <2>1, NoWarningIsComplete
    <2> HIDE DEF refsFor
    <2> QED BY <1>2, <2>2 DEF FindsAll
  <1> QED BY <1>3, <1>4 DEF retrieval

----------------------------------------------------------------------------
(* What a compile looks up *)

\* Finitely many files, each with a name and a content.
FilesSound(files) ==
    /\ IsFiniteSet(DOMAIN files) /\ DOMAIN files \subseteq DOMAIN PathOrder
    /\ \A path \in DOMAIN files : files[path] \in DOMAIN Contents

\* The symbols there can be in some files.
WordsIn(files) == UNION {Contents[files[path]].declares : path \in DOMAIN files}
SymbolsIn(files) == [path : DOMAIN files, name : DOMAIN files \cup WordsIn(files)]

HasSnapshot(p) == job[p].step \notin {"idle", "failed", "branch", "head", "status"}

\* A compile has a finite snapshot, symbols of its files, and a sound answer.
LookupSound(p) ==
    /\ HasSnapshot(p) => FilesSound(job[p].id.files)
    /\ AtStep(p, "symbols") => job[p].symbols \subseteq SymbolsIn(job[p].id.files)
    /\ AtStep(p, "read") =>
          /\ SeedsComeFirst(job[p].retrieval)
          /\ job[p].retrieval.confidence = "safe" =>
                FindsAll(job[p].retrieval, Requests[job[p].session], job[p].id.files)

LookupInv == \A p \in Processes : LookupSound(p)

\* Records of finitely many fields of finitely many values are finitely many.
LEMMA RecordsAreFinite ==
    ASSUME NEW first, IsFiniteSet(first), NEW second, IsFiniteSet(second)
    PROVE  /\ IsFiniteSet([path : first, name : second])
           /\ IsFiniteSet([ref : first, term : second])
  <1> DEFINE pairs == first \X second
             symbol == [pair \in pairs |-> [path |-> pair[1], name |-> pair[2]]]
             hit == [pair \in pairs |-> [ref |-> pair[1], term |-> pair[2]]]
  <1>1. IsFiniteSet(pairs)
    BY FS_Product
  <1>2. symbol \in Surjection(pairs, [path : first, name : second])
    <2>1. symbol \in [pairs -> [path : first, name : second]]
      OBVIOUS
    <2>2. ASSUME NEW s \in [path : first, name : second]
          PROVE  \E pair \in pairs : symbol[pair] = s
      <3>1. <<s.path, s.name>> \in pairs /\ symbol[<<s.path, s.name>>] = s
        OBVIOUS
      <3> QED BY <3>1
    <2> HIDE DEF symbol, pairs
    <2> QED BY <2>1, <2>2 DEF Surjection
  <1>3. hit \in Surjection(pairs, [ref : first, term : second])
    <2>1. hit \in [pairs -> [ref : first, term : second]]
      OBVIOUS
    <2>2. ASSUME NEW h \in [ref : first, term : second]
          PROVE  \E pair \in pairs : hit[pair] = h
      <3>1. <<h.ref, h.term>> \in pairs /\ hit[<<h.ref, h.term>>] = h
        OBVIOUS
      <3> QED BY <3>1
    <2> HIDE DEF hit, pairs
    <2> QED BY <2>1, <2>2 DEF Surjection
  <1> HIDE DEF pairs, symbol, hit
  <1> QED BY <1>1, <1>2, <1>3, FS_Surjection

\* The files of a snapshot have finitely many symbols.
LEMMA SymbolsAreFinite ==
    ASSUME NEW files, FilesSound(files)
    PROVE  IsFiniteSet(SymbolsIn(files))
  <1> DEFINE declared == {Contents[files[path]].declares : path \in DOMAIN files}
             declares == [path \in DOMAIN files |-> Contents[files[path]].declares]
  <1>1. IsFiniteSet(declared)
    <2>1. declares \in Surjection(DOMAIN files, declared)
      BY DEF Surjection
    <2> HIDE DEF declares, declared
    <2> QED BY <2>1, FS_Surjection DEF FilesSound
  <1>2. \A names \in declared : IsFiniteSet(names)
    BY WordsAreFinite DEF FilesSound
  <1> HIDE DEF declared
  <1>3. IsFiniteSet(WordsIn(files))
    BY <1>1, <1>2, FS_UNION DEF WordsIn, declared
  <1>4. IsFiniteSet(DOMAIN files \cup WordsIn(files))
    BY <1>3, FS_Union DEF FilesSound
  <1> QED BY <1>4, RecordsAreFinite DEF SymbolsIn, FilesSound

\* A manifest has no file that the tree does not have.
LEMMA ManifestIsSound ==
    ASSUME NEW tree \in DOMAIN Trees
    PROVE  FilesSound(FileManifest(Trees[tree].files, Trees[tree].listed).files)
  <1> DEFINE disk == Trees[tree].files
             listed == Trees[tree].listed
             rejected == {path \in listed : RejectionReason(disk, path) # None}
             hashed == {path \in listed \ rejected : Contents[disk[path]].form # "directory"}
             files == FileManifest(disk, listed).files
  <1>1. files = [path \in hashed |-> disk[path]] /\ hashed \subseteq listed \ rejected
    BY DEF FileManifest
  <1>2. \A path \in listed \ rejected : path \in DOMAIN disk
    <2> SUFFICES ASSUME NEW path \in listed \ rejected, path \notin DOMAIN disk
                 PROVE  FALSE
      OBVIOUS
    <2>1. RejectionReason(disk, path) = None
      OBVIOUS
    <2>2. RejectionReason(disk, path)
            \in {"git_ignored", "privacy_ignored", "grape_runtime", "unreadable"}
      BY DEF RejectionReason
    <2> QED BY <2>1, <2>2, NoneIsNoReason
  <1>3. /\ IsFiniteSet(listed) /\ listed \subseteq DOMAIN PathOrder
        /\ \A path \in DOMAIN disk : disk[path] \in DOMAIN Contents
    BY TreesAreFinite
  <1> HIDE DEF files, hashed, rejected, disk, listed
  <1>4. DOMAIN files \in SUBSET listed
    BY <1>1
  <1> QED BY <1>1, <1>2, <1>3, <1>4, FS_Subset DEF FilesSound, files, disk, listed

\* The sources and the index of a snapshot, read one after the other, are finite.
LEMMA ReadIsSound ==
    ASSUME IndexSound, NEW id, FilesSound(id.files), NEW s \in Sessions,
           NEW symbols \in SUBSET SymbolsIn(id.files), NEW relationships
    PROVE  LET found == [refs |-> RowsOf(sources, id), symbols |-> symbols,
                         relationships |-> relationships,
                         hits |-> Hits(id, Requests[s].terms)] IN
           FoundSound(found, Requests[s]) /\ found.refs \subseteq DOMAIN id.files
  <1> DEFINE terms == Requests[s].terms
             found == [refs |-> RowsOf(sources, id), symbols |-> symbols,
                       relationships |-> relationships, hits |-> Hits(id, terms)]
  <1>1. RowsOf(sources, id) \subseteq DOMAIN id.files
    <2>1. CASE id \in SnapshotIds
      BY <2>1 DEF IndexSound, WholeSound, SourceRows
    <2>2. CASE id \notin SnapshotIds
      BY <2>2 DEF IndexSound, EvidenceTyped, RowsOf
    <2> QED BY <2>1, <2>2
  <1>2. IsFiniteSet(RowsOf(sources, id)) /\ RowsOf(sources, id) \subseteq DOMAIN PathOrder
    BY <1>1, FS_Subset DEF FilesSound
  <1>3. IsFiniteSet(symbols)
    BY SymbolsAreFinite, FS_Subset
  <1>4. IsFiniteSet(terms)
    BY WordsAreFinite
  <1>5. IsFiniteSet(Hits(id, terms))
    <2>1. Hits(id, terms) \subseteq [ref : DOMAIN id.files, term : terms]
      <3> SUFFICES ASSUME NEW hit \in Hits(id, terms)
                   PROVE  hit \in [ref : DOMAIN id.files, term : terms]
        OBVIOUS
      <3>1. PICK row \in RowsOf(entries, id) :
                hit \in {[ref |-> row.path, term |-> term] :
                            term \in terms \cap Contents[row.content].terms}
        BY DEF Hits
      <3>2. row.path \in DOMAIN id.files
        BY DEF IndexSound, EntriesMatch, EntryMatches
      <3> QED BY <3>1, <3>2
    <2>2. IsFiniteSet([ref : DOMAIN id.files, term : terms])
      BY <1>4, RecordsAreFinite DEF FilesSound
    <2> QED BY <2>1, <2>2, FS_Subset
  <1>6. /\ found.refs = RowsOf(sources, id) /\ found.symbols = symbols
        /\ found.hits = Hits(id, terms)
    OBVIOUS
  <1> HIDE DEF found
  <1>7. FoundSound(found, Requests[s]) /\ found.refs \subseteq DOMAIN id.files
    BY <1>1, <1>2, <1>3, <1>4, <1>5, <1>6 DEF FoundSound
  <1> QED BY <1>7 DEF found

\* The symbols that are read are of files of the snapshot.
LEMMA SymbolsReadAreSound ==
    ASSUME IndexSound, NEW id
    PROVE  {row.symbol : row \in RowsOf(nodes, id)} \subseteq SymbolsIn(id.files)
  <1> SUFFICES ASSUME NEW row \in RowsOf(nodes, id)
               PROVE  row.symbol \in SymbolsIn(id.files)
    OBVIOUS
  <1>1. NodeMatches(id, row)
    BY DEF IndexSound, NodesMatch
  <1>2. PICK path \in DOMAIN id.files :
          row.symbol \in {Module(path)} \cup
              {Symbol(path, name) : name \in Contents[id.files[path]].declares}
    BY <1>1 DEF NodeMatches
  <1>3. \A name \in Contents[id.files[path]].declares : name \in WordsIn(id.files)
    BY DEF WordsIn
  <1> QED BY <1>2, <1>3 DEF SymbolsIn, Module, Symbol

\* No step changes the snapshot of a compile, and what a step reads of it is sound.
LEMMA LookupStaysSound ==
    ASSUME StoreInv, NEW p \in Processes, LookupSound(p), Moves(p)
    PROVE  LookupSound(p)'
  <1>1. /\ DOMAIN job = Processes /\ IndexSound /\ work \in DOMAIN Trees
        /\ HasSnapshot(p) => job[p].session \in Sessions
    BY InvByParts DEF JobsSound, JobSound, HasSnapshot
  <1>2. ASSUME NEW next, Goto(p, next)
        PROVE  job'[p] = next
    BY <1>1, <1>2 DEF Goto
  <1>3. CASE (\E s \in Sessions : ReadBranch(p, s)) \/ ReadHead(p)
    <2>1. CASE \E s \in Sessions : ReadBranch(p, s)
      <3>1. PICK s \in Sessions : ReadBranch(p, s)
        BY <2>1
      <3>2. job'[p].step = "branch"
        BY <1>2, <3>1 DEF ReadBranch
      <3> QED BY <3>2 DEF LookupSound, HasSnapshot, AtStep
    <2>2. CASE ReadHead(p)
      <3>1. job'[p].step = "head"
        BY <1>2, <2>2 DEF ReadHead
      <3> QED BY <3>1 DEF LookupSound, HasSnapshot, AtStep
    <2> QED BY <1>3, <2>1, <2>2
  <1>4. CASE ReadStatus(p)
    <2>1. job'[p].step = "status"
      BY <1>2, <1>4 DEF ReadStatus
    <2> QED BY <2>1 DEF LookupSound, HasSnapshot, AtStep
  <1>5. CASE ReadFiles(p)
    <2> DEFINE manifest == FileManifest(Disk, Trees[work].listed)
               id == RepoSnapshot(job[p], job[p].dirty, manifest)
    <2>1. job'[p].step = "taken" /\ job'[p].id = id
      BY <1>2, <1>5 DEF ReadFiles
    <2>2. id.files = manifest.files
      BY DEF RepoSnapshot
    <2>3. FilesSound(manifest.files)
      BY <1>1, ManifestIsSound DEF Disk
    <2> HIDE DEF manifest, id
    <2> QED BY <2>1, <2>2, <2>3 DEF LookupSound, AtStep
  <1>6. ASSUME HasSnapshot(p),
               \/ job'[p].step \in {"idle", "failed"}
               \/ /\ job'[p].step \notin {"symbols", "read"}
                  /\ job'[p].id = job[p].id
        PROVE  LookupSound(p)'
    BY <1>6 DEF LookupSound, HasSnapshot, AtStep
  <1>7. CASE PersistSnapshot(p)
    <2>1. HasSnapshot(p)
      BY <1>7 DEF PersistSnapshot, ReuseSnapshot, IndexSymbols, IndexText, AbandonIndex,
                  HasSnapshot, AtStep
    <2>2. CASE ReuseSnapshot(p)
      BY <1>2, <1>6, <2>1, <2>2 DEF ReuseSnapshot, OnlySnapshot
    <2>3. CASE IndexSymbols(p)
      BY <1>2, <1>6, <2>1, <2>3 DEF IndexSymbols
    <2>4. CASE IndexText(p) \/ AbandonIndex(p)
      BY <1>2, <1>6, <2>1, <2>4 DEF IndexText, AbandonIndex, OnlySnapshot, Failed
    <2> QED BY <1>7, <2>2, <2>3, <2>4 DEF PersistSnapshot
  <1>8. CASE OpenSession(p)
    <2>1. HasSnapshot(p)
      BY <1>8 DEF OpenSession, HasSnapshot, AtStep
    <2> QED BY <1>2, <1>6, <1>8, <2>1 DEF OpenSession, OnSnapshot, Failed
  <1>9. CASE ReadSymbols(p)
    <2> DEFINE symbols == {row.symbol : row \in RowsOf(nodes, job[p].id)}
    <2>1. job'[p].step = "symbols" /\ job'[p].id = job[p].id /\ job'[p].symbols = symbols
      BY <1>2, <1>9 DEF ReadSymbols
    <2>2. symbols \subseteq SymbolsIn(job[p].id.files)
      BY <1>1, SymbolsReadAreSound
    <2>3. FilesSound(job[p].id.files)
      BY <1>9 DEF ReadSymbols, LookupSound, HasSnapshot, AtStep
    <2> HIDE DEF symbols
    <2> QED BY <2>1, <2>2, <2>3 DEF LookupSound, HasSnapshot, AtStep, SymbolsIn, WordsIn
  <1>10. CASE RetrieveSources(p)
    <2> DEFINE id == job[p].id
               request == Requests[job[p].session]
               found == [refs |-> RowsOf(sources, id), symbols |-> job[p].symbols,
                         relationships |-> Relationships(job[p].symbols,
                                               {row.edge : row \in RowsOf(edges, id)}),
                         hits |-> Hits(id, request.terms)]
    <2>1. /\ AtStep(p, "symbols") /\ HasSnapshot(p)
          /\ job[p].symbols \in SUBSET SymbolsIn(id.files) /\ FilesSound(id.files)
          /\ job[p].session \in Sessions
      BY <1>1, <1>10 DEF RetrieveSources, LookupSound, HasSnapshot, AtStep
    <2>2. /\ job'[p].step = "read" /\ job'[p].id = id
          /\ job'[p].session = job[p].session
          /\ job'[p].retrieval = ResolveTaskRetrieval(found, request)
      BY <1>2, <1>10 DEF RetrieveSources
    <2>3. FoundSound(found, request) /\ found.refs \subseteq DOMAIN id.files
      BY <1>1, <2>1, ReadIsSound
    <2> HIDE DEF found
    <2>4. LET retrieval == ResolveTaskRetrieval(found, request) IN
          /\ SeedsComeFirst(retrieval)
          /\ retrieval.confidence = "safe" => FindsAll(retrieval, request, id.files)
      BY <2>3, RetrievalIsSound
    <2> QED BY <2>1, <2>2, <2>4 DEF LookupSound, HasSnapshot, AtStep
  <1>11. CASE Compress(p)
    <2>1. HasSnapshot(p)
      BY <1>11 DEF Compress, HasSnapshot, AtStep
    <2>2. \/ job'[p].step = "failed"
          \/ job'[p].step = "compressed" /\ job'[p].id = job[p].id
      BY <1>2, <1>11 DEF Compress, OnSnapshot, Failed
    <2> QED BY <1>6, <2>1, <2>2
  <1>12. CASE BuildArtifact(p) \/ SummarizeSent(p)
    <2>1. HasSnapshot(p)
      BY <1>12 DEF BuildArtifact, SummarizeSent, HasSnapshot, AtStep
    <2>2. \/ job'[p].step \in {"idle", "failed"}
          \/ job'[p].step = "built" /\ job'[p].id = job[p].id
      BY <1>2, <1>12 DEF BuildArtifact, SummarizeSent, OnSnapshot, OnlySnapshot, Failed, Idle
    <2> QED BY <1>6, <2>1, <2>2
  <1> QED BY <1>3, <1>4, <1>5, <1>7, <1>8, <1>9, <1>10, <1>11, <1>12
          DEF Moves, TakeSnapshot, BuildContext

\* Whatever is in the index when it is read, what is looked up in it is sound.
THEOREM LookupInvariance == StoreSpec => []LookupInv
  <1>1. StoreInit => LookupInv
    BY DEF StoreInit, LookupInv, LookupSound, HasSnapshot, AtStep, Idle
  <1>2. StoreInv /\ LookupInv /\ [StoreNext]_storeVars => LookupInv'
    <2> SUFFICES ASSUME StoreInv, LookupInv, [StoreNext]_storeVars
                 PROVE  LookupInv'
      OBVIOUS
    <2>1. CASE \E p \in Processes : TakeSnapshot(p) \/ PersistSnapshot(p) \/ BuildContext(p)
      <3>1. PICK p \in Processes : Moves(p)
        BY <2>1 DEF Moves
      <3>2. LookupSound(p)'
        BY <3>1, LookupStaysSound DEF LookupInv
      <3>3. DOMAIN job = Processes /\ JobsSound /\ clock \in Nat
        BY InvByParts, MaxCompilesIsNatural DEF JobsSound
      <3>4. \A q \in Processes \ {p} : job'[q] = job[q]
        BY <3>1, <3>3, OwnJobOnly
      <3>5. \A q \in Processes \ {p} : LookupSound(q)'
        BY <3>4 DEF LookupInv, LookupSound, HasSnapshot, AtStep
      <3> QED BY <3>2, <3>5 DEF LookupInv
    <2>2. CASE PlanCompaction \/ DeletePlanned \/ Move \/ UNCHANGED storeVars
      <3>1. job' = job
        BY <2>2 DEF PlanCompaction, DeletePlanned, Move, storeVars
      <3> QED BY <3>1 DEF LookupInv, LookupSound, HasSnapshot, AtStep
    <2> QED BY <2>1, <2>2 DEF StoreNext
  <1> QED BY <1>1, <1>2, StoreInvariance, PTL DEF StoreSpec

\* No file is selected for a weaker reason while a file that the caller named is left out,
\* and named tests get their share, however many files are named and whatever compaction
\* took from the index.
THEOREM SeedsStayFirst == StoreSpec => []SeedsFirst
  <1>1. LookupInv => SeedsFirst
    BY DEF LookupInv, LookupSound, SeedsFirst, Retrieved, AtStep
  <1> QED BY <1>1, LookupInvariance, PTL

\* A retrieval that calls itself safe found all that was named, left out nothing, and has a
\* test for the code it selected.
THEOREM SafeStaysComplete == StoreSpec => []SafeIsComplete
  <1>1. LookupInv => SafeIsComplete
    BY DEF LookupInv, LookupSound, SafeIsComplete, Retrieved, AtStep
  <1> QED BY <1>1, LookupInvariance, PTL
=============================================================================
