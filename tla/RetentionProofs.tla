--------------------------- MODULE RetentionProofs ---------------------------
(***************************************************************************)
(* Proofs about Retention, for every number of sessions, compiles and      *)
(* compactions, in whatever order their steps interleave: cleanup neither  *)
(* revives stale context nor loses active context, and no build can tell   *)
(* the pruned tables from the full ones.                                   *)
(***************************************************************************)
EXTENDS Retention, ContextLedgerProofs

IsMarker(p) == p.state = "INVALIDATE_PREVIOUS"

\* Some marker was ever written that names the row.
EverInvalidated(row) == \E p \in packedEver : IsMarker(p) /\ p.previous = row

\* The history refers to artifacts, and its markers to rows of their own session.
HistoryTyped ==
    /\ stored \subseteq ArtifactIds
    /\ sentEver \subseteq SentRow
    /\ \A p \in packedEver : p.artifact \in ArtifactIds
    /\ \A p \in packedEver : IsMarker(p) =>
          p.previous \in sentEver /\ SessionOf(p.previous) = SessionOf(p)

\* The tables hold nothing that was not written, but markers of deleted rows.
RowsFromHistory ==
    /\ sent \subseteq sentEver
    /\ \A p \in packItems : p \in packedEver \/ (IsMarker(p) /\ p.previous = NoItem)

\* A row that is left has all the markers that ever named it.
MarkersKept == \A p \in packedEver : IsMarker(p) /\ p.previous \in sent => p \in packItems

\* A row that is gone had been invalidated.
OnlyClosedRowsGo == \A row \in sentEver : row \in sent \/ EverInvalidated(row)

\* A row that is left has its pack item.
PackRowsKept == \A row \in sent : \A p \in packedEver : PackRowOf(p, row) => p \in packItems

\* What is planned stays safe to delete: the rows of a planned artifact are all
\* invalid, and the markers it owns name no row that is left.
Deletable(n) ==
    /\ \A row \in sent : row.artifact = n => EverInvalidated(row)
    /\ \A p \in packedEver : IsMarker(p) /\ p.artifact = n => p.previous \notin sent

PlansSound ==
    /\ DOMAIN task = Compactors
    /\ \A c \in Compactors : task[c].step \in {"artifacts", "planned"} =>
          \A n \in task[c].artifacts : n \in ArtifactIds /\ Deletable(n)
    /\ \A c \in Compactors : task[c].step = "planned" =>
          \A p \in task[c].markers : IsMarker(p)

\* The inductive invariant.
PruneInv ==
    /\ TypeOK
    /\ HistoryTyped
    /\ RowsFromHistory
    /\ MarkersKept
    /\ OnlyClosedRowsGo
    /\ PackRowsKept
    /\ PlansSound

----------------------------------------------------------------------------
(* Lemmas about a state *)

\* A sent row is not the absent row, and its state is not a marker's.
LEMMA SentRowShape ==
    ASSUME TypeOK, NEW row \in SentRow
    PROVE  /\ row # NoItem
           /\ row = [artifact |-> row.artifact, section |-> row.section,
                     state |-> row.state]
           /\ row.artifact \in ArtifactIds
           /\ row.state # "INVALIDATE_PREVIOUS"
  <1>1. row # NoItem
    BY DEF SentRow, NoItem
  <1> QED BY <1>1 DEF SentRow, SentStates

\* For a row that is left, the markers that are left tell whether it is invalid.
LEMMA SameInvalidated ==
    ASSUME PruneInv, NEW row \in sent
    PROVE  /\ Invalidated(row) <=> EverInvalidated(row)
           /\ Unpruned!Invalidated(row) <=> EverInvalidated(row)
  <1>1. row \in SentRow /\ row # NoItem
    BY SentRowShape DEF PruneInv, TypeOK, PackItem, OmittedItem
  <1>2. ASSUME NEW p \in packedEver, IsMarker(p), p.previous = row
        PROVE  p \in packItems /\ SessionOf(p) = SessionOf(row)
    BY <1>2 DEF PruneInv, MarkersKept, HistoryTyped
  <1>3. ASSUME NEW p \in packItems, IsMarker(p), p.previous = row
        PROVE  p \in packedEver
    BY <1>1, <1>3 DEF PruneInv, RowsFromHistory
  <1>4. Invalidated(row) <=> EverInvalidated(row)
    BY <1>2, <1>3 DEF Invalidated, EverInvalidated, IsMarker
  <1>5. Unpruned!Invalidated(row) <=> EverInvalidated(row)
    BY <1>2 DEF Unpruned!Invalidated, Unpruned!SessionOf, Unpruned!ArtifactOf,
                SessionOf, ArtifactOf, EverInvalidated, IsMarker
  <1> QED BY <1>4, <1>5

\* The rows that count as held by the agent are those of the full tables.
LEMMA SameActive ==
    ASSUME PruneInv, NEW s
    PROVE  ActiveSent(s) = Unpruned!ActiveSent(s)
  <1>1. ASSUME NEW row \in ActiveSent(s)
        PROVE  row \in Unpruned!ActiveSent(s)
    BY <1>1, SameInvalidated
       DEF ActiveSent, Unpruned!ActiveSent, Unpruned!SessionOf, Unpruned!ArtifactOf,
           SessionOf, ArtifactOf, PruneInv, RowsFromHistory
  <1>2. ASSUME NEW row \in Unpruned!ActiveSent(s)
        PROVE  row \in ActiveSent(s)
    <2>1. row \in sentEver /\ SessionOf(row) = s /\ ~Unpruned!Invalidated(row)
      BY DEF Unpruned!ActiveSent, Unpruned!SessionOf, Unpruned!ArtifactOf,
             SessionOf, ArtifactOf
    <2>2. ~EverInvalidated(row)
      BY <2>1 DEF EverInvalidated, IsMarker, PruneInv, HistoryTyped,
                  Unpruned!Invalidated, Unpruned!SessionOf, Unpruned!ArtifactOf,
                  SessionOf, ArtifactOf
    <2>3. row \in sent
      BY <2>1, <2>2 DEF PruneInv, OnlyClosedRowsGo
    <2> QED BY <2>1, <2>2, <2>3, SameInvalidated DEF ActiveSent
  <1> QED BY <1>1, <1>2

\* The latest active rows are those of the full tables.
LEMMA SameLatest ==
    ASSUME PruneInv, NEW s
    PROVE  Unpruned!LatestActive(s) = LatestActive(s)
  BY SameActive DEF LatestActive, Unpruned!LatestActive, Unpruned!ArtifactOf, ArtifactOf

\* A row that is left has its pack item in the pruned tables if in the full ones.
LEMMA SamePackRow ==
    ASSUME PruneInv, NEW row \in sent
    PROVE  Unpruned!HasPackRow(row) <=> HasPackRow(row)
  <1>1. row.state # "INVALIDATE_PREVIOUS"
    BY SentRowShape DEF PruneInv, TypeOK, PackItem, OmittedItem
  <1>2. ASSUME NEW p \in packItems, PackRowOf(p, row)
        PROVE  p \in packedEver
    BY <1>1, <1>2 DEF PruneInv, RowsFromHistory, PackRowOf, IsMarker
  <1>3. ASSUME NEW p \in packedEver, PackRowOf(p, row)
        PROVE  p \in packItems
    BY <1>3 DEF PruneInv, PackRowsKept
  <1> QED BY <1>2, <1>3 DEF HasPackRow, Unpruned!HasPackRow, PackRowOf

\* A row that is left is stale for an artifact exactly when it is by the full tables.
LEMMA SameStale ==
    ASSUME PruneInv, NEW row \in sent, NEW shape
    PROVE  Unpruned!Stale(row, shape) <=> Stale(row, shape)
  BY SamePackRow
     DEF Stale, Unpruned!Stale, DependencyDrift, Unpruned!DependencyDrift,
         SectionOf, Unpruned!SectionOf, ArtifactOf, Unpruned!ArtifactOf

\* The partition of the prior context is the one the full tables give.
LEMMA SamePrior ==
    ASSUME PruneInv, NEW s, NEW shape, NEW reset
    PROVE  /\ Unpruned!StalePrior(s, shape, reset) = StalePrior(s, shape, reset)
           /\ Unpruned!CurrentPrior(s, shape, reset) = CurrentPrior(s, shape, reset)
  <1>1. LatestActive(s) \subseteq sent
    BY DEF LatestActive, ActiveSent
  <1>2. Unpruned!LatestActive(s) = LatestActive(s)
    BY SameLatest
  <1>3. Unpruned!StalePrior(s, shape, reset) = StalePrior(s, shape, reset)
    BY <1>1, <1>2, SameStale DEF StalePrior, Unpruned!StalePrior
  <1> QED BY <1>2, <1>3 DEF CurrentPrior, Unpruned!CurrentPrior

\* The diff does not depend on the tables but through the prior context.
LEMMA SameDiff ==
    ASSUME NEW n, NEW shape, NEW current
    PROVE  Unpruned!DiffItems(n, shape, current) = DiffItems(n, shape, current)
  BY DEF DiffItems, Unpruned!DiffItems, DiffState, Unpruned!DiffState,
         Previous, Unpruned!Previous, SectionOf, Unpruned!SectionOf,
         ArtifactOf, Unpruned!ArtifactOf, NoItem, Unpruned!NoItem
----------------------------------------------------------------------------
(* One build *)

\* A build from the pruned tables is the build from the full ones: the same items
\* for the same artifact.
LEMMA BuildLeavesNoTrace ==
    ASSUME PruneInv,
           NEW s \in Sessions, NEW shape \in Shapes, NEW at \in Clocks,
           NEW reset \in BOOLEAN,
           BuildUnderLock(s, shape, at, reset)
    PROVE  Unpruned!Build(s, shape, at, reset)
  <1> DEFINE n     == Len(artifacts) + 1
             stale == StalePrior(s, shape, reset)
             diff  == DiffItems(n, shape, CurrentPrior(s, shape, reset))
  <1>1. TypeOK /\ Build(s, shape, at, reset)
    BY DEF BuildUnderLock, PruneInv
  <1>2. PICK dropped \in SUBSET Droppable(diff, shape) :
            /\ artifacts' = Append(artifacts,
                  [session |-> s, at |-> at, shape |-> shape, reset |-> reset,
                   dropped |-> {i.section : i \in dropped}])
            /\ packItems' = packItems \cup InvalidationItems(n, stale)
                                      \cup (diff \ dropped)
            /\ sent' = sent \cup SentRows(diff \ dropped)
            /\ omitted' = omitted \cup OmittedRows(diff)
    BY <1>1 DEF Build, InsertArtifact, InsertPackItems, InsertSentItems, InsertOmittedItems
  <1>3. n \notin ArtifactIds
    BY <1>1, BuildEffect
  <1>4. packedEver' = packedEver \cup InvalidationItems(n, stale) \cup (diff \ dropped)
    <2>1. \A p \in packItems : p.artifact # n
      BY <1>1, <1>3 DEF TypeOK, PackItem, OmittedItem
    <2>2. \A p \in InvalidationItems(n, stale) : p.artifact = n
      BY DEF InvalidationItems
    <2>3. \A p \in diff : p.artifact = n
      BY DEF DiffItems
    <2> QED BY <1>2, <2>1, <2>2, <2>3 DEF BuildUnderLock
  <1>5. sentEver' = sentEver \cup SentRows(diff \ dropped)
    <2>1. \A row \in sent : row.artifact # n
      BY <1>1, <1>3 DEF TypeOK, PackItem, OmittedItem, SentRow
    <2>2. \A row \in SentRows(diff \ dropped) : row.artifact = n
      BY DEF SentRows, DiffItems
    <2> QED BY <1>2, <2>1, <2>2 DEF BuildUnderLock
  <1>6. omittedEver' = omittedEver \cup OmittedRows(diff)
    <2>1. \A o \in omitted : o.artifact # n
      BY <1>1, <1>3 DEF TypeOK, PackItem, OmittedItem
    <2>2. \A o \in OmittedRows(diff) : o.artifact = n
      BY DEF OmittedRows, DiffItems
    <2> QED BY <1>2, <2>1, <2>2 DEF BuildUnderLock
  <1>7. /\ Unpruned!StalePrior(s, shape, reset) = stale
        /\ Unpruned!DiffItems(n, shape, Unpruned!CurrentPrior(s, shape, reset)) = diff
    BY SamePrior, SameDiff
  <1>8. Unpruned!Unused(at)
    BY <1>1 DEF Build, Unused, Unpruned!Unused, ArtifactIds, Unpruned!ArtifactIds
  <1>9. /\ Unpruned!Droppable(diff, shape) = Droppable(diff, shape)
        /\ Unpruned!InvalidationItems(n, stale) = InvalidationItems(n, stale)
        /\ Unpruned!SentRows(diff \ dropped) = SentRows(diff \ dropped)
        /\ Unpruned!OmittedRows(diff) = OmittedRows(diff)
    BY DEF Droppable, Unpruned!Droppable, InvalidationItems,
           Unpruned!InvalidationItems, SentRows, Unpruned!SentRows,
           OmittedRows, Unpruned!OmittedRows, SentStates, Unpruned!SentStates
  <1> QED
    BY <1>2, <1>4, <1>5, <1>6, <1>7, <1>8, <1>9 
       DEF Unpruned!Build, Unpruned!InsertArtifact, Unpruned!InsertPackItems,
           Unpruned!InsertSentItems, Unpruned!InsertOmittedItems

\* A build keeps the invariant: what it writes goes to both sides.
LEMMA BuildStep ==
    ASSUME PruneInv,
           NEW s \in Sessions, NEW shape \in Shapes, NEW at \in Clocks,
           NEW reset \in BOOLEAN,
           BuildUnderLock(s, shape, at, reset)
    PROVE  PruneInv'
  <1> DEFINE n == Len(artifacts) + 1
  <1>1. TypeOK /\ Build(s, shape, at, reset)
    BY DEF BuildUnderLock, PruneInv
  <1>2. TypeOK'
    BY <1>1, TypeStep
  <1>3. /\ \A k \in ArtifactIds : artifacts'[k] = artifacts[k]
        /\ n \notin ArtifactIds
        /\ ArtifactIds' = ArtifactIds \cup {n}
        /\ artifacts'[n].session = s
    BY <1>1, BuildEffect
  <1>4. /\ packItems \subseteq packItems'
        /\ sent \subseteq sent'
    BY <1>1, BuildRows
  <1>5. \A p \in packItems' \ packItems : p.artifact = n
    <2>1. PICK kept \in SUBSET DiffItems(n, shape, CurrentPrior(s, shape, reset)) :
              packItems' = packItems
                 \cup InvalidationItems(n, StalePrior(s, shape, reset)) \cup kept
      BY <1>1, BuildRows
    <2> QED BY <2>1 DEF InvalidationItems, DiffItems
  <1>6. \A row \in sent' \ sent : row.artifact = n
    <2>1. PICK kept \in SUBSET DiffItems(n, shape, CurrentPrior(s, shape, reset)) :
              sent' = sent \cup SentRows(kept)
      BY <1>1, BuildRows
    <2> QED BY <2>1 DEF SentRows, DiffItems
  <1>7. /\ packedEver' = packedEver \cup (packItems' \ packItems)
        /\ sentEver' = sentEver \cup (sent' \ sent)
        /\ UNCHANGED task
    BY DEF BuildUnderLock
  <1>8. \A p \in packItems' \ packItems : IsMarker(p) =>
            p.previous \in sent /\ SessionOf(p.previous) = s
    <2>1. TAKE p \in packItems' \ packItems
    <2>2. HAVE IsMarker(p)
    <2>3. p.previous \in StalePrior(s, shape, reset)
      BY <1>1, <2>2, NewInvalidations DEF IsMarker
    <2> QED BY <2>3, PriorRows DEF StalePrior
  <1>9. /\ \A p \in packedEver : p.artifact \in ArtifactIds
        /\ \A row \in sentEver : row.artifact \in ArtifactIds
        /\ sentEver \subseteq SentRow
    BY DEF PruneInv, HistoryTyped, SentRow
  <1>10. HistoryTyped'
    <2>1. sentEver' \subseteq SentRow'
      BY <1>2, <1>3, <1>7, <1>9 DEF TypeOK, PackItem, OmittedItem, SentRow
    <2>2. \A p \in packedEver' : p.artifact \in ArtifactIds'
      BY <1>3, <1>5, <1>7, <1>9
    <2>3. ASSUME NEW p \in packedEver, IsMarker(p)
          PROVE  p.previous \in sentEver' /\ SessionOf(p.previous)' = SessionOf(p)'
      <3>1. p.previous \in sentEver /\ SessionOf(p.previous) = SessionOf(p)
        BY <2>3 DEF PruneInv, HistoryTyped
      <3>2. SessionOf(p.previous)' = SessionOf(p.previous) /\ SessionOf(p)' = SessionOf(p)
        BY <1>3, <1>9, <3>1, RowsKeepArtifacts
      <3> QED BY <1>7, <3>1, <3>2
    <2>4. ASSUME NEW p \in packItems' \ packItems, IsMarker(p)
          PROVE  p.previous \in sentEver' /\ SessionOf(p.previous)' = SessionOf(p)'
      <3>1. p.previous \in sentEver /\ SessionOf(p.previous) = s
        BY <1>8, <2>4 DEF PruneInv, RowsFromHistory
      <3>2. SessionOf(p.previous)' = s
        BY <1>3, <1>9, <3>1, RowsKeepArtifacts
      <3>3. SessionOf(p)' = s
        BY <1>3, <1>5, <2>4 DEF SessionOf, ArtifactOf
      <3> QED BY <1>7, <3>1, <3>2, <3>3
    <2>5. stored' \subseteq ArtifactIds'
      <3>1. stored' = stored \cup {Len(artifacts')} /\ stored \subseteq ArtifactIds
        BY DEF BuildUnderLock, PruneInv, HistoryTyped
      <3>2. Len(artifacts') \in Nat
        BY <1>2 DEF TypeOK, PackItem, OmittedItem
      <3>3. n \in 1 .. Len(artifacts')
        BY <1>3 DEF ArtifactIds
      <3>4. Len(artifacts') \in 1 .. Len(artifacts')
        BY <3>2, <3>3
      <3> QED BY <1>3, <3>1, <3>4 DEF ArtifactIds
    <2> QED BY <1>7, <2>1, <2>2, <2>3, <2>4, <2>5 DEF HistoryTyped, IsMarker
  <1>11. RowsFromHistory'
    BY <1>7 DEF PruneInv, RowsFromHistory, IsMarker
  <1>12. MarkersKept'
    <2> SUFFICES ASSUME NEW p \in packedEver', IsMarker(p), p.previous \in sent'
                 PROVE  p \in packItems'
      BY DEF MarkersKept, IsMarker
    <2>1. CASE p \in packedEver
      <3>1. p.previous \in sentEver
        BY <2>1 DEF PruneInv, HistoryTyped
      <3>2. p.previous \in sent
        BY <1>3, <1>6, <1>9, <3>1
      <3> QED BY <1>4, <2>1, <3>2 DEF PruneInv, MarkersKept
    <2> QED BY <1>7, <2>1
  <1>13. OnlyClosedRowsGo'
    <2> SUFFICES ASSUME NEW row \in sentEver'
                 PROVE  row \in sent' \/ EverInvalidated(row)'
      BY DEF OnlyClosedRowsGo
    <2>1. CASE row \in sentEver
      BY <1>4, <1>7, <2>1 DEF PruneInv, OnlyClosedRowsGo, EverInvalidated
    <2> QED BY <1>7, <2>1
  <1>14. PackRowsKept'
    <2> SUFFICES ASSUME NEW row \in sent', NEW p \in packedEver', PackRowOf(p, row)
                 PROVE  p \in packItems'
      BY DEF PackRowsKept, PackRowOf
    <2>1. CASE p \in packedEver
      <3>1. row \in sent
        BY <1>3, <1>6, <1>9, <2>1 DEF PackRowOf
      <3> QED BY <1>4, <2>1, <3>1 DEF PruneInv, PackRowsKept
    <2> QED BY <1>7, <2>1
  <1>15. ASSUME NEW k \in ArtifactIds, Deletable(k)
         PROVE  k \in ArtifactIds' /\ Deletable(k)'
    <2>1. ASSUME NEW row \in sent', row.artifact = k
          PROVE  EverInvalidated(row)'
      BY <1>3, <1>6, <1>7, <1>15, <2>1 DEF Deletable, EverInvalidated
    <2>2. ASSUME NEW p \in packedEver', IsMarker(p), p.artifact = k
          PROVE  p.previous \notin sent'
      <3>1. p \in packedEver
        BY <1>3, <1>5, <1>7, <2>2
      <3>2. p.previous \in sentEver /\ p.previous \notin sent
        BY <1>15, <2>2, <3>1 DEF Deletable, PruneInv, HistoryTyped
      <3> QED BY <1>3, <1>6, <1>9, <3>2
    <2> QED BY <1>3, <2>1, <2>2 DEF Deletable, IsMarker
  <1>16. PlansSound'
    BY <1>7, <1>15 DEF PruneInv, PlansSound, IsMarker
  <1> QED BY <1>2, <1>10, <1>11, <1>12, <1>13, <1>14, <1>16 DEF PruneInv

----------------------------------------------------------------------------
(* One step of a compaction *)

\* A step that leaves the tables alone has only the plans to answer for.
LEMMA TablesUnchanged ==
    ASSUME PruneInv, PlansSound',
           UNCHANGED <<artifacts, packItems, sent, omitted, stored, packedEver, sentEver>>
    PROVE  PruneInv'
  <1>1. TypeOK' /\ HistoryTyped'
    BY DEF PruneInv, TypeOK, PackItem, OmittedItem, HistoryTyped, ArtifactIds, SentRow, SessionOf,
           ArtifactOf, IsMarker
  <1>2. RowsFromHistory' /\ MarkersKept' /\ OnlyClosedRowsGo' /\ PackRowsKept'
    BY DEF PruneInv, RowsFromHistory, MarkersKept, OnlyClosedRowsGo,
           EverInvalidated, PackRowsKept, PackRowOf, IsMarker
  <1> QED BY <1>1, <1>2 DEF PruneInv

\* Planning artifacts: what is a candidate is safe to delete.
LEMMA PlanArtifactsStep ==
    ASSUME PruneInv, NEW c \in Compactors, PlanArtifacts(c)
    PROVE  PruneInv'
  <1>1. PICK last \in Clocks :
            task' = [task EXCEPT ![c] =
                [step |-> "artifacts", artifacts |-> ArtifactCandidates(last),
                 files |-> PlannedFiles(ArtifactCandidates(last))]]
    BY DEF PlanArtifacts, Goto
  <1>2. UNCHANGED <<artifacts, packItems, sent, omitted, stored, packedEver, sentEver>>
    BY DEF PlanArtifacts, ledgerVars, historyVars
  <1>3. ASSUME NEW n \in ArtifactCandidates(last)
        PROVE  n \in ArtifactIds /\ Deletable(n)
    <2>1. n \in stored /\ ~HasActiveSent(n) /\ ~OwnsNeededMarker(n)
      BY <1>3 DEF ArtifactCandidates
    <2>2. \A row \in sent : row.artifact = n => EverInvalidated(row)
      BY <2>1, SameInvalidated DEF HasActiveSent
    <2>3. \A p \in packedEver : IsMarker(p) /\ p.artifact = n => p.previous \notin sent
      BY <2>1 DEF OwnsNeededMarker, Markers, PruneInv, MarkersKept, IsMarker
    <2> QED BY <2>1, <2>2, <2>3 DEF Deletable, PruneInv, HistoryTyped
  <1>4. PlansSound'
    BY <1>1, <1>2, <1>3
       DEF PruneInv, PlansSound, Deletable, EverInvalidated, IsMarker, ArtifactIds
  <1> QED BY <1>2, <1>4, TablesUnchanged

\* Planning records: what is planned are markers.
LEMMA PlanRecordsStep ==
    ASSUME PruneInv, NEW c \in Compactors, PlanRecords(c)
    PROVE  PruneInv'
  <1>1. PICK expired \in SUBSET Markers :
            /\ task[c].step = "artifacts"
            /\ task' = [task EXCEPT ![c] =
                 [step |-> "planned", artifacts |-> task[c].artifacts,
                  files |-> task[c].files, markers |-> RecordCandidates(expired)]]
    BY DEF PlanRecords, Goto
  <1>2. UNCHANGED <<artifacts, packItems, sent, omitted, stored, packedEver, sentEver>>
    BY DEF PlanRecords, ledgerVars, historyVars
  <1>3. \A p \in RecordCandidates(expired) : IsMarker(p)
    BY DEF RecordCandidates, Markers, IsMarker
  <1>4. PlansSound'
    BY <1>1, <1>2, <1>3
       DEF PruneInv, PlansSound, Deletable, EverInvalidated, IsMarker, ArtifactIds
  <1> QED BY <1>2, <1>4, TablesUnchanged

\* The other steps only forget a plan, or do not touch one.
LEMMA QuietStep ==
    ASSUME PruneInv,
           \/ \E s \in Sessions : Unlock(s)
           \/ \E c \in Compactors : DeleteFiles(c) \/ Stop(c)
    PROVE  PruneInv'
  <1>1. UNCHANGED <<artifacts, packItems, sent, omitted, stored, packedEver, sentEver>>
    BY DEF Unlock, DeleteFiles, Stop, ledgerVars, historyVars
  <1>2. \/ UNCHANGED task
        \/ \E c \in Compactors : task' = [task EXCEPT ![c] = IdleTask]
    BY DEF Unlock, DeleteFiles, Stop, Goto
  <1>3. PlansSound'
    BY <1>1, <1>2 DEF PruneInv, PlansSound, Deletable, EverInvalidated, IsMarker,
                      ArtifactIds, IdleTask
  <1> QED BY <1>1, <1>3, TablesUnchanged

\* The transaction takes closed rows and rows of artifacts that may go, and with
\* them no marker and no pack item of a row that is left.
LEMMA DeleteRowsStep ==
    ASSUME PruneInv, NEW c \in Compactors, DeleteRows(c)
    PROVE  PruneInv'
  <1> DEFINE planned == task[c].markers \cap packItems
             closed  == DeletableSent(planned)
             gone    == task[c].artifacts
             lost    == closed \cup {row \in sent : row.artifact \in gone}
             kept    == {p \in packItems :
                           /\ p.artifact \notin gone
                           /\ ~(p \in planned /\ p.previous \in closed)
                           /\ ~\E row \in closed : PackRowOf(p, row)}
  <1>1. /\ task[c].step = "planned"
        /\ packItems' = Unmarked(kept, lost)
        /\ sent' = sent \ lost
        /\ omitted' \subseteq omitted
        /\ stored' \subseteq stored
        /\ task' = [task EXCEPT ![c] = [step |-> "deleted", files |-> task[c].files]]
    BY DEF DeleteRows, Goto
  <1>2. UNCHANGED <<artifacts, packedEver, sentEver>>
    BY DEF DeleteRows, historyVars
  <1>3. /\ \A n \in gone : Deletable(n)
        /\ \A p \in planned : IsMarker(p)
    BY <1>1 DEF PruneInv, PlansSound
  <1>4. sent \subseteq SentRow
    BY DEF PruneInv, TypeOK, PackItem, OmittedItem
  <1>5. closed \subseteq sent /\ \A row \in closed : EverInvalidated(row)
    <2>1. ASSUME NEW row \in closed
          PROVE  row \in sent /\ EverInvalidated(row)
      <3>1. row \in sent /\ \E p \in planned : p.previous = row
        BY DEF DeletableSent
      <3>2. PICK p \in planned : p.previous = row
        BY <3>1
      <3>3. row # NoItem
        BY <1>4, <3>1, SentRowShape DEF PruneInv
      <3>4. p \in packedEver /\ IsMarker(p)
        BY <1>3, <3>2, <3>3 DEF PruneInv, RowsFromHistory
      <3> QED BY <3>1, <3>2, <3>4 DEF EverInvalidated
    <2> QED BY <2>1
  <1>6. \A row \in lost : EverInvalidated(row)
    BY <1>3, <1>5 DEF Deletable
  <1>7. ASSUME NEW p \in packItems'
        PROVE  \E q \in packItems : \/ p = q
                                    \/ IsMarker(q) /\ p = [q EXCEPT !.previous = NoItem]
    BY <1>1 DEF Unmarked, IsMarker
  <1>8. ASSUME NEW p \in kept, ~IsMarker(p) \/ p.previous \notin lost
        PROVE  p \in packItems'
    BY <1>1, <1>8 DEF Unmarked, IsMarker
  <1>9. TypeOK'
    <2>1. /\ artifacts' \in Seq(Artifact)
          /\ sent' \subseteq SentRow'
          /\ omitted' \subseteq [artifact : ArtifactIds', section : Sections]
      BY <1>1, <1>2 DEF PruneInv, TypeOK, PackItem, OmittedItem, SentRow, ArtifactIds
    <2>2. packItems' \subseteq
            [artifact : ArtifactIds, section : Sections, previous : SentRow \cup {NoItem},
             state : SentStates \cup {"OMIT_UNCHANGED", "INVALIDATE_PREVIOUS"}]
      BY <1>7 DEF PruneInv, TypeOK, PackItem, OmittedItem
    <2>3. ArtifactIds' = ArtifactIds /\ SentRow' = SentRow
      BY <1>2 DEF ArtifactIds, SentRow
    <2> QED BY <2>1, <2>2, <2>3 DEF TypeOK, PackItem, OmittedItem
  <1>10. HistoryTyped'
    BY <1>1, <1>2 DEF PruneInv, HistoryTyped, ArtifactIds, SentRow, SessionOf,
                      ArtifactOf, IsMarker
  <1>11. RowsFromHistory'
    <2>1. \A p \in packItems' : p \in packedEver \/ (IsMarker(p) /\ p.previous = NoItem)
      <3>1. TAKE p \in packItems'
      <3>2. PICK q \in packItems : \/ p = q
                                   \/ IsMarker(q) /\ p = [q EXCEPT !.previous = NoItem]
        BY <1>7
      <3>3. DOMAIN q = {"artifact", "section", "previous", "state"}
        BY DEF PruneInv, TypeOK, PackItem, OmittedItem
      <3> QED BY <3>2, <3>3 DEF PruneInv, RowsFromHistory, IsMarker
    <2> QED BY <1>1, <1>2, <2>1 DEF PruneInv, RowsFromHistory, IsMarker
  <1>12. MarkersKept'
    <2> SUFFICES ASSUME NEW p \in packedEver, IsMarker(p), p.previous \in sent'
                 PROVE  p \in packItems'
      BY <1>2 DEF MarkersKept, IsMarker
    <2>1. p.previous \in sent /\ p.previous \notin lost
      BY <1>1
    <2>2. p \in packItems
      BY <2>1 DEF PruneInv, MarkersKept
    <2>3. p.artifact \notin gone
      BY <1>3, <2>1 DEF Deletable
    <2>4. ~\E row \in closed : PackRowOf(p, row)
      BY <1>4, <1>5, SentRowShape DEF PackRowOf, IsMarker, PruneInv
    <2> QED BY <1>8, <2>1, <2>2, <2>3, <2>4
  <1>13. OnlyClosedRowsGo'
    BY <1>1, <1>2, <1>6 DEF PruneInv, OnlyClosedRowsGo, EverInvalidated, IsMarker
  <1>14. PackRowsKept'
    <2> SUFFICES ASSUME NEW row \in sent', NEW p \in packedEver, PackRowOf(p, row)
                 PROVE  p \in packItems'
      BY <1>2 DEF PackRowsKept, PackRowOf
    <2>1. row \in sent /\ row \notin lost
      BY <1>1
    <2>2. p \in packItems
      BY <2>1 DEF PruneInv, PackRowsKept
    <2>3. p.artifact \notin gone
      BY <2>1 DEF PackRowOf
    <2>4. ~IsMarker(p)
      BY <1>4, <2>1, SentRowShape DEF PackRowOf, IsMarker, PruneInv
    <2>5. ASSUME NEW other \in closed, PackRowOf(p, other)
          PROVE  FALSE
      <3>1. other \in SentRow /\ row \in SentRow
        BY <1>4, <1>5, <2>1
      <3>2. other = row
        BY <2>5, <3>1, SentRowShape DEF PackRowOf, PruneInv
      <3> QED BY <2>1, <3>2
    <2> QED BY <1>3, <1>8, <2>2, <2>3, <2>4, <2>5
  <1>15. PlansSound'
    <2>1. \A n : Deletable(n) => Deletable(n)'
      BY <1>1, <1>2 DEF Deletable, EverInvalidated, IsMarker
    <2> QED BY <1>1, <1>2, <2>1 DEF PruneInv, PlansSound, ArtifactIds, IsMarker
  <1> QED BY <1>9, <1>10, <1>11, <1>12, <1>13, <1>14, <1>15 DEF PruneInv

----------------------------------------------------------------------------
(* Theorems *)

\* The invariant holds before the first build, and every step keeps it.
THEOREM CleanupInvariance == RetentionSpec => []PruneInv
  <1>1. RetentionInit => PruneInv
    BY DEF RetentionInit, LedgerInit, PruneInv, TypeOK, PackItem, OmittedItem,
           HistoryTyped, RowsFromHistory,
           MarkersKept, OnlyClosedRowsGo, PackRowsKept, PlansSound, IdleTask
  <1>2. PruneInv /\ [RetentionNext]_retentionVars => PruneInv'
    <2> SUFFICES ASSUME PruneInv, [RetentionNext]_retentionVars
                 PROVE  PruneInv'
      OBVIOUS
    <2>1. CASE \E s \in Sessions, shape \in Shapes, at \in Clocks, reset \in BOOLEAN :
                  BuildUnderLock(s, shape, at, reset)
      BY <2>1, BuildStep
    <2>2. CASE \E c \in Compactors : PlanArtifacts(c)
      BY <2>2, PlanArtifactsStep
    <2>3. CASE \E c \in Compactors : PlanRecords(c)
      BY <2>3, PlanRecordsStep
    <2>4. CASE \E c \in Compactors : DeleteRows(c)
      BY <2>4, DeleteRowsStep
    <2>5. CASE \/ \E s \in Sessions : Unlock(s)
               \/ \E c \in Compactors : DeleteFiles(c) \/ Stop(c)
      BY <2>5, QuietStep
    <2>6. CASE UNCHANGED retentionVars
      <3>1. /\ UNCHANGED <<artifacts, packItems, sent, omitted, stored, packedEver,
                           sentEver>>
            /\ UNCHANGED task
        BY <2>6 DEF retentionVars
      <3>2. PlansSound'
        BY <3>1 DEF PruneInv, PlansSound, Deletable, EverInvalidated, IsMarker,
                    ArtifactIds
      <3> QED BY <3>1, <3>2, TablesUnchanged
    <2> QED BY <2>1, <2>2, <2>3, <2>4, <2>5, <2>6 DEF RetentionNext
  <1> QED BY <1>1, <1>2, PTL DEF RetentionSpec

\* Cleanup never changes what counts as held by the agent: no deletion of markers
\* revives a stale row, and no deletion of rows or artifacts loses an active one.
THEOREM ActiveContextKept == RetentionSpec => []ActiveKept
  <1>1. PruneInv => ActiveKept
    BY SameActive DEF ActiveKept
  <1> QED BY <1>1, CleanupInvariance, PTL

\* Any number of compactions, stopped anywhere and interleaved with the builds of
\* any number of sessions, leave every build what it would be without them.
THEOREM RetentionLeavesNoTrace == RetentionSpec => LeavesNoTrace
  <1>1. RetentionInit => Unpruned!LedgerInit
    BY DEF RetentionInit, LedgerInit, Unpruned!LedgerInit
  <1>2. PruneInv /\ [RetentionNext]_retentionVars
          => [Unpruned!LedgerNext]_(Unpruned!ledgerVars)
    <2> SUFFICES ASSUME PruneInv, [RetentionNext]_retentionVars
                 PROVE  [Unpruned!LedgerNext]_(Unpruned!ledgerVars)
      OBVIOUS
    <2>1. CASE \E s \in Sessions, shape \in Shapes, at \in Clocks, reset \in BOOLEAN :
                  BuildUnderLock(s, shape, at, reset)
      BY <2>1, BuildLeavesNoTrace DEF Unpruned!LedgerNext
    <2>2. CASE \/ \E s \in Sessions : Unlock(s)
               \/ \E c \in Compactors : \/ PlanArtifacts(c)
                                        \/ PlanRecords(c)
                                        \/ DeleteRows(c)
                                        \/ DeleteFiles(c)
                                        \/ Stop(c)
      <3>1. UNCHANGED <<artifacts, packedEver, sentEver, omittedEver>>
        BY <2>2 DEF Unlock, PlanArtifacts, PlanRecords, DeleteRows, DeleteFiles, Stop,
                    ledgerVars, historyVars
      <3> QED BY <3>1 DEF Unpruned!ledgerVars
    <2>3. CASE UNCHANGED retentionVars
      BY <2>3 DEF retentionVars, Unpruned!ledgerVars
    <2> QED BY <2>1, <2>2, <2>3 DEF RetentionNext
  <1> QED
    BY <1>1, <1>2, CleanupInvariance, PTL
       DEF RetentionSpec, LeavesNoTrace, Unpruned!LedgerSpec

----------------------------------------------------------------------------
(* What compactions leave: restore tokens, newest artifacts, whole rows *)

\* A newer artifact of the session exists, or has existed.
Overtaken(n) ==
    \E m \in ArtifactIds : /\ artifacts[m].session = artifacts[n].session
                          /\ artifacts[m].at > artifacts[n].at

\* No restore token was ever handed out for the artifact.
NoToken(n) == \A o \in omittedEver : o.artifact # n

\* What was planned stays true of the planned artifacts and files, because artifacts
\* are numbered anew: no later build writes under a number that is planned.
PlansKeep ==
    \A c \in Compactors :
        /\ task[c].step \in {"artifacts", "planned"} =>
              \A n \in task[c].artifacts :
                  n \in ArtifactIds /\ Overtaken(n) /\ NoToken(n)
        /\ task[c].step \in {"artifacts", "planned", "deleted"} =>
              \A n \in task[c].files : n \in ArtifactIds /\ NoToken(n)

KeepInv == RetentionTypeOK /\ RestorableKept /\ NewestKept /\ PlansKeep

\* An artifact that is gone had been overtaken.
LEMMA GoneIsOvertaken ==
    ASSUME TypeOK
    PROVE  NewestKept <=> \A n \in ArtifactIds : n \in stored \/ Overtaken(n)
  <1>1. \A n \in ArtifactIds : artifacts[n].at \in Nat
    BY StoredArtifacts, ClocksAreNaturals DEF Artifact
  <1> QED BY <1>1 DEF NewestKept, Overtaken

\* A build adds one artifact, stored and with files, and all its rows are of it; its
\* markers name rows that are left.
LEMMA BuildUnderLockEffect ==
    ASSUME PruneInv, KeepInv,
           NEW s \in Sessions, NEW shape \in Shapes, NEW at \in Clocks,
           NEW reset \in BOOLEAN,
           BuildUnderLock(s, shape, at, reset)
    PROVE  \E n \in Nat :
              /\ n \notin ArtifactIds
              /\ ArtifactIds' = ArtifactIds \cup {n}
              /\ \A k \in ArtifactIds : artifacts'[k] = artifacts[k]
              /\ stored' = stored \cup {n}
              /\ files' = files \cup {n}
              /\ \A row \in packItems' : row \in packItems \/ row.artifact = n
              /\ \A row \in sent' : row \in sent \/ row.artifact = n
              /\ \A o \in omitted' : o \in omitted \/ o.artifact = n
              /\ sent \subseteq sent'
              /\ omitted \subseteq omitted'
              /\ sentEver' = sentEver \cup (sent' \ sent)
              /\ omittedEver' = omittedEver \cup (omitted' \ omitted)
              /\ \A p \in packItems' : IsMarker(p) =>
                    p \in packItems \/ p.previous \in sent
              /\ UNCHANGED task
  <1> DEFINE n    == Len(artifacts) + 1
             diff == DiffItems(n, shape, CurrentPrior(s, shape, reset))
  <1>1. TypeOK /\ Build(s, shape, at, reset)
    BY DEF BuildUnderLock, PruneInv
  <1>2. /\ n \in Nat /\ n \notin ArtifactIds
        /\ ArtifactIds' = ArtifactIds \cup {n}
        /\ \A k \in ArtifactIds : artifacts'[k] = artifacts[k]
    BY <1>1, BuildEffect
  <1>3. PICK dropped \in SUBSET Droppable(diff, shape) :
            /\ artifacts' = Append(artifacts,
                  [session |-> s, at |-> at, shape |-> shape, reset |-> reset,
                   dropped |-> {i.section : i \in dropped}])
            /\ packItems' = packItems
                  \cup (InvalidationItems(n, StalePrior(s, shape, reset))
                           \cup (diff \ dropped))
            /\ sent' = sent \cup SentRows(diff \ dropped)
            /\ omitted' = omitted \cup OmittedRows(diff)
    BY <1>1 DEF Build, InsertArtifact, InsertPackItems, InsertSentItems,
                InsertOmittedItems
  <1>4. Len(artifacts') = n
    BY <1>1, <1>3 DEF TypeOK
  <1>5. /\ stored' = stored \cup {n} /\ files' = files \cup {n}
        /\ sentEver' = sentEver \cup (sent' \ sent)
        /\ omittedEver' = omittedEver \cup (omitted' \ omitted)
        /\ UNCHANGED task
    BY <1>4 DEF BuildUnderLock
  <1>6. /\ \A row \in packItems' : row \in packItems \/ row.artifact = n
        /\ \A row \in sent' : row \in sent \/ row.artifact = n
        /\ \A o \in omitted' : o \in omitted \/ o.artifact = n
    BY <1>3 DEF InvalidationItems, DiffItems, SentRows, OmittedRows
  <1>7. ASSUME NEW p \in packItems', IsMarker(p)
        PROVE  p \in packItems \/ p.previous \in sent
    <2>1. p \notin packItems => p.previous \in StalePrior(s, shape, reset)
      BY <1>1, <1>7, NewInvalidations DEF IsMarker
    <2> QED BY <2>1, PriorRows DEF StalePrior
  <1> QED BY <1>2, <1>3, <1>5, <1>6, <1>7

\* A build leaves what was kept, and hands out tokens only for its own artifact.
LEMMA BuildKeeps ==
    ASSUME PruneInv, KeepInv,
           NEW s \in Sessions, NEW shape \in Shapes, NEW at \in Clocks,
           NEW reset \in BOOLEAN,
           BuildUnderLock(s, shape, at, reset)
    PROVE  KeepInv'
  <1>1. PICK n \in Nat :
              /\ n \notin ArtifactIds
              /\ ArtifactIds' = ArtifactIds \cup {n}
              /\ \A k \in ArtifactIds : artifacts'[k] = artifacts[k]
              /\ stored' = stored \cup {n}
              /\ files' = files \cup {n}
              /\ \A row \in packItems' : row \in packItems \/ row.artifact = n
              /\ \A row \in sent' : row \in sent \/ row.artifact = n
              /\ \A o \in omitted' : o \in omitted \/ o.artifact = n
              /\ sent \subseteq sent'
              /\ omitted \subseteq omitted'
              /\ sentEver' = sentEver \cup (sent' \ sent)
              /\ omittedEver' = omittedEver \cup (omitted' \ omitted)
              /\ \A p \in packItems' : IsMarker(p) =>
                    p \in packItems \/ p.previous \in sent
              /\ UNCHANGED task
    BY BuildUnderLockEffect
  <1>2. /\ \A k \in ArtifactIds : Overtaken(k) => Overtaken(k)'
        /\ \A k \in ArtifactIds : NoToken(k) => NoToken(k)'
    BY <1>1 DEF Overtaken, NoToken
  <1>3. RetentionTypeOK'
    <2>1. locked' \subseteq Sessions
      BY DEF BuildUnderLock, KeepInv, RetentionTypeOK
    <2>2. \A p \in Markers' : p.previous \in sent' \cup {NoItem}
      BY <1>1 DEF KeepInv, RetentionTypeOK, Markers, IsMarker
    <2> QED BY <1>1, <2>1, <2>2 DEF KeepInv, RetentionTypeOK
  <1>4. RestorableKept'
    BY <1>1 DEF KeepInv, RestorableKept
  <1>5. NewestKept'
    <2>1. TypeOK /\ TypeOK'
      BY TypeStep DEF BuildUnderLock, PruneInv
    <2>2. \A k \in ArtifactIds : k \in stored \/ Overtaken(k)
      BY <2>1, GoneIsOvertaken DEF KeepInv
    <2>3. \A k \in ArtifactIds' : k \in stored' \/ Overtaken(k)'
      BY <1>1, <1>2, <2>2
    <2>4. \A k \in ArtifactIds' : artifacts'[k].at \in Nat
      <3>1. artifacts' \in Seq(Artifact)
        BY <2>1 DEF TypeOK
      <3>2. \A k \in ArtifactIds' : artifacts'[k] \in Artifact
        BY <3>1 DEF ArtifactIds
      <3> QED BY <3>2, ClocksAreNaturals DEF Artifact
    <2> QED BY <2>3, <2>4 DEF NewestKept, Overtaken
  <1>6. PlansKeep'
    BY <1>1, <1>2 DEF KeepInv, PlansKeep
  <1> QED BY <1>3, <1>4, <1>5, <1>6 DEF KeepInv

\* What a plan takes is overtaken and has handed out no token.
LEMMA PlanKeeps ==
    ASSUME PruneInv, KeepInv, NEW c \in Compactors,
           PlanArtifacts(c) \/ PlanRecords(c)
    PROVE  KeepInv'
  <1>1. UNCHANGED <<artifacts, packItems, sent, omitted, stored, files, locked,
                    packedEver, sentEver, omittedEver>>
    BY DEF PlanArtifacts, PlanRecords, ledgerVars, historyVars
  <1>2. RetentionTypeOK' /\ RestorableKept' /\ NewestKept'
    BY <1>1 DEF KeepInv, RetentionTypeOK, RestorableKept, NewestKept, Markers,
                ArtifactIds
  <1>3. \A n : (Overtaken(n) => Overtaken(n)') /\ (NoToken(n) => NoToken(n)')
    BY <1>1 DEF Overtaken, NoToken, ArtifactIds
  <1>4. PlansKeep'
    <2>1. CASE PlanArtifacts(c)
      <3>1. PICK last \in Clocks :
                task' = [task EXCEPT ![c] =
                    [step |-> "artifacts", artifacts |-> ArtifactCandidates(last),
                     files |-> PlannedFiles(ArtifactCandidates(last))]]
        BY <2>1 DEF PlanArtifacts, Goto
      <3>2. ASSUME NEW n \in ArtifactCandidates(last)
            PROVE  n \in ArtifactIds /\ Overtaken(n) /\ NoToken(n)
        <4>1. n \in stored /\ ~LatestOfSession(n) /\ ~HasOmitted(n)
          BY <3>2 DEF ArtifactCandidates
        <4>2. stored \subseteq ArtifactIds
          BY DEF KeepInv, RetentionTypeOK
        <4>3. Overtaken(n)
          BY <4>1, <4>2 DEF LatestOfSession, Overtaken
        <4>4. NoToken(n)
          BY <4>1 DEF HasOmitted, NoToken, KeepInv, RestorableKept
        <4> QED BY <4>1, <4>2, <4>3, <4>4
      <3>3. \A n \in PlannedFiles(ArtifactCandidates(last)) : n \in ArtifactCandidates(last)
        BY DEF PlannedFiles
      <3>4. DOMAIN task = Compactors
        BY DEF PruneInv, PlansSound
      <3> QED BY <1>1, <1>3, <3>1, <3>2, <3>3, <3>4 DEF KeepInv, PlansKeep, ArtifactIds
    <2>2. CASE PlanRecords(c)
      <3>1. PICK markers :
                /\ task[c].step = "artifacts"
                /\ task' = [task EXCEPT ![c] =
                     [step |-> "planned", artifacts |-> task[c].artifacts,
                      files |-> task[c].files, markers |-> markers]]
        BY <2>2 DEF PlanRecords, Goto
      <3>2. DOMAIN task = Compactors
        BY DEF PruneInv, PlansSound
      <3> QED BY <1>1, <1>3, <3>1, <3>2 DEF KeepInv, PlansKeep, ArtifactIds
    <2> QED BY <2>1, <2>2
  <1> QED BY <1>2, <1>4 DEF KeepInv

\* The transaction takes whole rows: of the markers that are left, each names a row
\* that is left or none, and what belonged to a deleted artifact is gone with it.
LEMMA DeleteRowsKeeps ==
    ASSUME PruneInv, KeepInv, NEW c \in Compactors, DeleteRows(c)
    PROVE  KeepInv'
  <1> DEFINE planned == task[c].markers \cap packItems
             closed  == DeletableSent(planned)
             gone    == task[c].artifacts
             lost    == closed \cup {row \in sent : row.artifact \in gone}
             kept    == {p \in packItems :
                           /\ p.artifact \notin gone
                           /\ ~(p \in planned /\ p.previous \in closed)
                           /\ ~\E row \in closed : PackRowOf(p, row)}
  <1>1. /\ task[c].step = "planned"
        /\ packItems' = Unmarked(kept, lost)
        /\ sent' = sent \ lost
        /\ omitted' = {o \in omitted : o.artifact \notin gone}
        /\ stored' = stored \ gone
        /\ task' = [task EXCEPT ![c] = [step |-> "deleted", files |-> task[c].files]]
        /\ UNCHANGED <<artifacts, files, locked, packedEver, sentEver, omittedEver>>
    BY DEF DeleteRows, Goto, historyVars
  <1>2. \A n \in gone : n \in ArtifactIds /\ Overtaken(n) /\ NoToken(n)
    BY <1>1 DEF KeepInv, PlansKeep
  <1>3. \A n : (Overtaken(n) => Overtaken(n)') /\ (NoToken(n) => NoToken(n)')
    BY <1>1 DEF Overtaken, NoToken, ArtifactIds
  <1>4. ASSUME NEW p \in packItems'
        PROVE  /\ p.artifact \in stored'
               /\ IsMarker(p) => p.previous \in sent' \cup {NoItem}
    <2>1. PICK q \in kept :
              p = IF q.state = "INVALIDATE_PREVIOUS" /\ q.previous \in lost
                  THEN [q EXCEPT !.previous = NoItem] ELSE q
      BY <1>1 DEF Unmarked
    <2>2. /\ DOMAIN q = {"artifact", "section", "previous", "state"}
          /\ q.artifact \in stored \ gone
          /\ IsMarker(q) => q.previous \in sent \cup {NoItem}
      BY DEF PruneInv, TypeOK, PackItem, KeepInv, RetentionTypeOK, Markers, IsMarker
    <2>3. CASE q.state = "INVALIDATE_PREVIOUS" /\ q.previous \in lost
      BY <1>1, <2>1, <2>2, <2>3 DEF IsMarker
    <2>4. CASE ~(q.state = "INVALIDATE_PREVIOUS" /\ q.previous \in lost)
      BY <1>1, <2>1, <2>2, <2>4 DEF IsMarker
    <2> QED BY <2>3, <2>4
  <1>5. RetentionTypeOK'
    <2>1. \A row \in sent' \cup omitted' : row.artifact \in stored'
      BY <1>1 DEF KeepInv, RetentionTypeOK
    <2>2. \A p \in Markers' : p.previous \in sent' \cup {NoItem}
      BY <1>4 DEF Markers, IsMarker
    <2> QED BY <1>1, <1>4, <2>1, <2>2 DEF KeepInv, RetentionTypeOK, ArtifactIds
  <1>6. RestorableKept'
    <2>1. \A o \in omittedEver : o.artifact \notin gone
      BY <1>2 DEF NoToken
    <2> QED BY <1>1, <2>1 DEF KeepInv, RestorableKept
  <1>7. NewestKept'
    <2>1. \A k \in ArtifactIds : artifacts[k].at \in Nat
      BY StoredArtifacts, ClocksAreNaturals DEF Artifact, PruneInv
    <2>2. \A k \in ArtifactIds : k \in stored' \/ Overtaken(k)
      BY <1>1, <1>2, GoneIsOvertaken DEF PruneInv, KeepInv
    <2> QED BY <1>1, <2>1, <2>2 DEF NewestKept, Overtaken, ArtifactIds
  <1>8. PlansKeep'
    <2>1. DOMAIN task = Compactors
      BY DEF PruneInv, PlansSound
    <2> QED BY <1>1, <1>3, <2>1 DEF KeepInv, PlansKeep, ArtifactIds
  <1> QED BY <1>5, <1>6, <1>7, <1>8 DEF KeepInv

\* Deleting the planned files takes none that a token needs.
LEMMA QuietKeeps ==
    ASSUME PruneInv, KeepInv,
           \/ \E s \in Sessions : Unlock(s)
           \/ \E c \in Compactors : DeleteFiles(c) \/ Stop(c)
    PROVE  KeepInv'
  <1>1. UNCHANGED <<artifacts, packItems, sent, omitted, stored,
                    packedEver, sentEver, omittedEver>>
    BY DEF Unlock, DeleteFiles, Stop, ledgerVars, historyVars
  <1>2. /\ locked' \subseteq Sessions
        /\ files' \subseteq files
        /\ \A n \in files \ files' : NoToken(n)
    <2>1. CASE \E s \in Sessions : Unlock(s)
      BY <2>1 DEF Unlock, KeepInv, RetentionTypeOK
    <2>2. CASE \E c \in Compactors : DeleteFiles(c)
      BY <2>2 DEF DeleteFiles, KeepInv, RetentionTypeOK, PlansKeep
    <2>3. CASE \E c \in Compactors : Stop(c)
      BY <2>3 DEF Stop, KeepInv, RetentionTypeOK
    <2> QED BY <2>1, <2>2, <2>3
  <1>3. \/ UNCHANGED task
        \/ \E c \in Compactors : task' = [task EXCEPT ![c] = IdleTask]
    BY DEF Unlock, DeleteFiles, Stop, Goto
  <1>4. \A n : (Overtaken(n) => Overtaken(n)') /\ (NoToken(n) => NoToken(n)')
    BY <1>1 DEF Overtaken, NoToken, ArtifactIds
  <1>5. PlansKeep'
    BY <1>1, <1>3, <1>4 DEF KeepInv, PlansKeep, PruneInv, PlansSound, IdleTask,
                            ArtifactIds
  <1>6. RetentionTypeOK' /\ NewestKept'
    BY <1>1, <1>2 DEF KeepInv, RetentionTypeOK, NewestKept, Markers, ArtifactIds
  <1>7. RestorableKept'
    BY <1>1, <1>2 DEF KeepInv, RestorableKept, NoToken
  <1> QED BY <1>5, <1>6, <1>7 DEF KeepInv

\* No step of a build or a compaction breaks what is kept.
LEMMA KeepInvariance == RetentionSpec => []KeepInv
  <1>1. RetentionInit => KeepInv
    BY DEF RetentionInit, LedgerInit, KeepInv, RetentionTypeOK, RestorableKept,
           NewestKept, PlansKeep, Markers, ArtifactIds, IdleTask
  <1>2. PruneInv /\ KeepInv /\ [RetentionNext]_retentionVars => KeepInv'
    <2> SUFFICES ASSUME PruneInv, KeepInv, [RetentionNext]_retentionVars
                 PROVE  KeepInv'
      OBVIOUS
    <2>1. CASE \E s \in Sessions, shape \in Shapes, at \in Clocks, reset \in BOOLEAN :
                  BuildUnderLock(s, shape, at, reset)
      BY <2>1, BuildKeeps
    <2>2. CASE \E c \in Compactors : PlanArtifacts(c) \/ PlanRecords(c)
      BY <2>2, PlanKeeps
    <2>3. CASE \E c \in Compactors : DeleteRows(c)
      BY <2>3, DeleteRowsKeeps
    <2>4. CASE \/ \E s \in Sessions : Unlock(s)
               \/ \E c \in Compactors : DeleteFiles(c) \/ Stop(c)
      BY <2>4, QuietKeeps
    <2>5. CASE UNCHANGED retentionVars
      BY <2>5 DEF retentionVars, KeepInv, RetentionTypeOK, RestorableKept,
                  NewestKept, PlansKeep, Markers, ArtifactIds, Overtaken, NoToken
    <2> QED BY <2>1, <2>2, <2>3, <2>4, <2>5 DEF RetentionNext
  <1> QED BY <1>1, <1>2, CleanupInvariance, PTL DEF RetentionSpec

\* Every row that is left belongs to an artifact that is left, as the foreign keys
\* ask, and a marker names a row that is left or none.
THEOREM RetentionTypeCorrect == RetentionSpec => []RetentionTypeOK
  <1>1. KeepInv => RetentionTypeOK
    BY DEF KeepInv
  <1> QED BY <1>1, KeepInvariance, PTL

\* A restore token stays good: no compaction, stopped anywhere, interleaved with
\* builds and with other compactions, takes its omission, artifact or files.
THEOREM TokensStayGood == RetentionSpec => []RestorableKept
  <1>1. KeepInv => RestorableKept
    BY DEF KeepInv
  <1> QED BY <1>1, KeepInvariance, PTL

\* No compaction takes the newest artifact of a session, not even by a plan that was
\* made before the artifact was.
THEOREM NewestStays == RetentionSpec => []NewestKept
  <1>1. KeepInv => NewestKept
    BY DEF KeepInv
  <1> QED BY <1>1, KeepInvariance, PTL
=============================================================================
