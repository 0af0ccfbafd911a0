------------------------------ MODULE Retention ------------------------------
(***************************************************************************)
(* `grape compact --confirm` while sessions go on compiling.  A compaction *)
(* plans what to delete, outside any transaction; deletes the planned rows *)
(* in one transaction; then deletes the output files of the artifacts.     *)
(* Builds, and other compactions, may come between these steps.            *)
(*                                                                         *)
(* The tables of ContextLedger lose rows here.  `artifacts` does not: it   *)
(* numbers the artifacts, and `stored` says which rows are left.  What the *)
(* tables would hold had nothing been deleted is kept in the Ever tables.  *)
(***************************************************************************)
EXTENDS ContextLedger

CONSTANT Compactors

VARIABLES
    stored,         \* artifacts whose context_artifacts row exists
    files,          \* artifacts whose output files exist
    locked,         \* sessions whose row is locked
    task,           \* task[c]: what compaction c has planned, and how far it is
    packedEver,     \* history of packItems
    sentEver,       \* history of sent
    omittedEver     \* history of omitted

historyVars == <<packedEver, sentEver, omittedEver>>
rowVars == <<packItems, sent, omitted, stored>>
retentionVars == <<artifacts, packItems, sent, omitted,
                   stored, files, locked, task, packedEver, sentEver, omittedEver>>

IdleTask == [step |-> "idle"]
Goto(c, t) == task' = [task EXCEPT ![c] = t]

RetentionInit ==
    /\ LedgerInit
    /\ stored = {}
    /\ files = {}
    /\ locked = {}
    /\ task = [c \in Compactors |-> IdleTask]
    /\ packedEver = {}
    /\ sentEver = {}
    /\ omittedEver = {}

----------------------------------------------------------------------------
(* The compiles: a build is made, and leaves its session locked, see
   CompileProcess.  The lock of a compile that died is never released. *)

BuildUnderLock(s, shape, at, reset) ==
    /\ s \notin locked
    /\ Build(s, shape, at, reset)
    /\ locked' = locked \cup {s}
    /\ stored' = stored \cup {Len(artifacts')}
    /\ files' = files \cup {Len(artifacts')}
    /\ packedEver' = packedEver \cup (packItems' \ packItems)
    /\ sentEver' = sentEver \cup (sent' \ sent)
    /\ omittedEver' = omittedEver \cup (omitted' \ omitted)
    /\ UNCHANGED task

Unlock(s) ==
    /\ s \in locked
    /\ locked' = locked \ {s}
    /\ UNCHANGED <<ledgerVars, stored, files, task, historyVars>>

----------------------------------------------------------------------------
(* Planning *)

Markers == {p \in packItems : p.state = "INVALIDATE_PREVIOUS"}

\* Older than the cutoff or beyond the row limit: either way the oldest ones, up to
\* some last one.
Expired(n, last) == artifacts[n].at \leq last

LatestOfSession(n) ==
    ~\E m \in stored : /\ artifacts[m].session = artifacts[n].session
                       /\ artifacts[m].at > artifacts[n].at

HasActiveSent(n) == \E row \in sent : row.artifact = n /\ ~Invalidated(row)
HasOmitted(n) == \E o \in omitted : o.artifact = n
OwnsNeededMarker(n) == \E p \in Markers : p.artifact = n /\ p.previous \in sent

\* Mutant: an artifact goes when what it sent is invalid, markers or not.
ArtifactCandidatesWithMarkers(last) ==
    {n \in stored :
        /\ Expired(n, last)
        /\ ~LatestOfSession(n)
        /\ ~HasActiveSent(n)
        /\ ~HasOmitted(n)
        /\ artifacts[n].session \notin locked}

\* Mutant: what the agent still holds does not protect its artifact.
ArtifactCandidatesWithActive(last) ==
    {n \in stored :
        /\ Expired(n, last)
        /\ ~LatestOfSession(n)
        /\ ~HasOmitted(n)
        /\ artifacts[n].session \notin locked
        /\ ~OwnsNeededMarker(n)}

\* Mutant: tokens of sections left out do not protect their artifact.
ArtifactCandidatesWithOmitted(last) ==
    {n \in stored :
        /\ Expired(n, last)
        /\ ~LatestOfSession(n)
        /\ ~HasActiveSent(n)
        /\ artifacts[n].session \notin locked
        /\ ~OwnsNeededMarker(n)}

\* Mutant: nothing protects the newest artifact of a session as such.
ArtifactCandidatesWithLatest(last) ==
    {n \in stored :
        /\ Expired(n, last)
        /\ ~HasActiveSent(n)
        /\ ~HasOmitted(n)
        /\ artifacts[n].session \notin locked
        /\ ~OwnsNeededMarker(n)}

ArtifactCandidates(last) ==
    {n \in stored :
        /\ Expired(n, last)
        /\ ~LatestOfSession(n)
        /\ ~HasActiveSent(n)
        /\ ~HasOmitted(n)
        /\ artifacts[n].session \notin locked
        /\ ~OwnsNeededMarker(n)}

\* Sent rows that go with these markers: no other marker names them.
DeletableSent(markers) ==
    {row \in sent :
        /\ \E p \in markers : p.previous = row
        /\ \A p \in Markers : p.previous = row => p \in markers}

RecordCandidates(expired) ==
    LET unlocked == {p \in expired : SessionOf(p) \notin locked}
    IN  {p \in unlocked : p.previous \in DeletableSent(unlocked)}

\* Files of the candidates that are there when the plan is made; a candidate without
\* one is planned as missing.
PlannedFiles(candidates) == candidates \cap files

PlanArtifacts(c) ==
    /\ task[c].step = "idle"
    /\ \E last \in Clocks :
          Goto(c, [step |-> "artifacts", artifacts |-> ArtifactCandidates(last),
                   files |-> PlannedFiles(ArtifactCandidates(last))])
    /\ UNCHANGED <<ledgerVars, stored, files, locked, historyVars>>

\* Markers of one build have one timestamp: the row limit may part them.
PlanRecords(c) ==
    /\ task[c].step = "artifacts"
    /\ \E last \in Clocks :
       \E tied \in SUBSET {p \in Markers : artifacts[p.artifact].at = last} :
          Goto(c, [step |-> "planned", artifacts |-> task[c].artifacts,
                   files |-> task[c].files,
                   markers |-> RecordCandidates(
                       {p \in Markers : Expired(p.artifact, last - 1)} \cup tied)])
    /\ UNCHANGED <<ledgerVars, stored, files, locked, historyVars>>

----------------------------------------------------------------------------
(* Deleting *)

PackRowOf(p, row) ==
    p.artifact = row.artifact /\ p.section = row.section /\ p.state = row.state

\* invalidates_sent_item_id ... ON DELETE SET NULL
Unmarked(items, deleted) ==
    {IF p.state = "INVALIDATE_PREVIOUS" /\ p.previous \in deleted
     THEN [p EXCEPT !.previous = NoItem] ELSE p : p \in items}

\* Mutant: foreign keys are not enforced, SQLite's default: nothing cascades.
DeleteRowsWithoutCascade(c) ==
    /\ task[c].step = "planned"
    /\ stored' = stored \ task[c].artifacts
    /\ Goto(c, [step |-> "deleted", files |-> task[c].files])
    /\ UNCHANGED <<ledgerVars, files, locked, historyVars>>

\* The transaction: the planned markers that are still there, with the rows they
\* close and those rows' pack items; then the planned artifacts, with all they own.
DeleteRows(c) ==
    LET planned == task[c].markers \cap packItems
        closed  == DeletableSent(planned)
        gone    == task[c].artifacts
        lost    == closed \cup {row \in sent : row.artifact \in gone}
        kept    == {p \in packItems :
                      /\ p.artifact \notin gone
                      /\ ~(p \in planned /\ p.previous \in closed)
                      /\ ~\E row \in closed : PackRowOf(p, row)}
    IN  /\ task[c].step = "planned"
        /\ packItems' = Unmarked(kept, lost)
        /\ sent' = sent \ lost
        /\ omitted' = {o \in omitted : o.artifact \notin gone}
        /\ stored' = stored \ gone
        /\ Goto(c, [step |-> "deleted", files |-> task[c].files])
        /\ UNCHANGED <<artifacts, files, locked, historyVars>>

DeleteFiles(c) ==
    /\ task[c].step = "deleted"
    /\ files' = files \ task[c].files
    /\ Goto(c, IdleTask)
    /\ UNCHANGED <<ledgerVars, stored, locked, historyVars>>

\* A preview ends after planning, a busy database ends the command, a dead process
\* leaves what it has not deleted.
Stop(c) ==
    /\ task[c].step # "idle"
    /\ Goto(c, IdleTask)
    /\ UNCHANGED <<ledgerVars, stored, files, locked, historyVars>>

RetentionNext ==
    \/ \E s \in Sessions, shape \in Shapes, at \in Clocks, reset \in BOOLEAN :
          BuildUnderLock(s, shape, at, reset)
    \/ \E s \in Sessions : Unlock(s)
    \/ \E c \in Compactors : \/ PlanArtifacts(c)
                             \/ PlanRecords(c)
                             \/ DeleteRows(c)
                             \/ DeleteFiles(c)
                             \/ Stop(c)

RetentionSpec == RetentionInit /\ [][RetentionNext]_retentionVars

----------------------------------------------------------------------------
(* Properties *)

\* Every row belongs to an artifact that is stored, as the foreign keys ask; plans
\* are about artifacts and rows that were.
RetentionTypeOK ==
    /\ stored \subseteq ArtifactIds
    /\ files \subseteq ArtifactIds
    /\ locked \subseteq Sessions
    /\ \A row \in packItems \cup sent \cup omitted : row.artifact \in stored
    /\ sent \subseteq sentEver
    /\ omitted \subseteq omittedEver
    /\ \A p \in Markers : p.previous \in sent \cup {NoItem}

Unpruned == INSTANCE ContextLedger WITH
    packItems <- packedEver, sent <- sentEver, omitted <- omittedEver

\* Stale context does not become active again through cleanup, and active context
\* does not disappear: the rows that count as held by the agent are those that would
\* count if nothing had been deleted.
ActiveKept == \A s \in Sessions : ActiveSent(s) = Unpruned!ActiveSent(s)

\* Retention leaves no trace in what agents receive: every build that is made from
\* the pruned tables is the build that would be made from all rows ever written,
\* whatever was deleted before, and between planning and deleting.
LeavesNoTrace == Unpruned!LedgerSpec

\* A restore token that was handed out stays good: the omission, the artifact it
\* belongs to and the artifact's files outlive every compaction.
RestorableKept ==
    \A o \in omittedEver : /\ o \in omitted
                           /\ o.artifact \in stored \cap files

\* The newest artifact of a session, which inspection commands fall back to, is
\* kept, also when it was not the newest yet when a compaction was planned.
NewestKept ==
    \A n \in ArtifactIds :
        (\A m \in ArtifactIds : artifacts[m].session = artifacts[n].session
                                   => artifacts[m].at \leq artifacts[n].at)
        => n \in stored

\* A compaction does not delete artifacts of a session that is locked.
LockedArtifactsKept ==
    [][\A n \in stored \ stored' : artifacts[n].session \notin locked]_retentionVars
=============================================================================
