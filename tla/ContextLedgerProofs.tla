------------------------- MODULE ContextLedgerProofs -------------------------
(***************************************************************************)
(* Proofs about ContextLedger, for every set of sessions, sections, shapes *)
(* and clock values, and for every number and order of builds; that it     *)
(* implements AgentContext, each build being an honest turn of the         *)
(* promise; and that while builds commit in the order of their clocks, the *)
(* ledger knows what the agent was last told.                              *)
(***************************************************************************)
EXTENDS LedgerAgent, TLAPS

\* A row was sent for a section of its artifact.
SentSectionsExist ==
    \A row \in sent : row.section \in DOMAIN ArtifactOf(row).shape.sections

\* An invalidation names a row that an earlier build of the same session sent.
\* Without it the filter of the active rows, which looks for invalidations of the
\* row's own session, could miss one.
InvalidationsStayInSession ==
    \A p \in packItems : p.state = "INVALIDATE_PREVIOUS" =>
        /\ p.previous \in sent
        /\ SessionOf(p.previous) = SessionOf(p)

\* The inductive invariant.
LedgerInv ==
    /\ TypeOK
    /\ SentSectionsExist
    /\ InvalidationsStayInSession
    /\ OmitBacked
    /\ InvalidateOnce

----------------------------------------------------------------------------
(* Lemmas *)

\* The artifact table only grows: a build leaves the stored artifacts alone.
LEMMA ArtifactsGrow ==
    ASSUME artifacts \in Seq(Artifact), NEW a \in Artifact,
           artifacts' = Append(artifacts, a)
    PROVE  /\ artifacts' \in Seq(Artifact)
           /\ Len(artifacts') = Len(artifacts) + 1
           /\ Len(artifacts) \in Nat
           /\ \A k \in ArtifactIds : artifacts'[k] = artifacts[k]
           /\ artifacts'[Len(artifacts) + 1] = a
           /\ ArtifactIds' = ArtifactIds \cup {Len(artifacts) + 1}
  BY DEF ArtifactIds

\* A stored artifact has the type of its row.
LEMMA StoredArtifacts ==
    ASSUME TypeOK, NEW k \in ArtifactIds
    PROVE  artifacts[k] \in Artifact
  BY DEF TypeOK, PackItem, OmittedItem, ArtifactIds

\* The rows of the prior context are rows of the session that are not invalidated.
LEMMA PriorRows ==
    ASSUME NEW s, NEW shape, NEW reset,
           NEW row \in LatestActive(s)
    PROVE  /\ row \in sent
           /\ SessionOf(row) = s
           /\ ~Invalidated(row)
  BY DEF LatestActive, ActiveSent

\* What the diff says of one section.  An omission names the row of the current
\* prior context that has the section's content.
LEMMA DiffItem ==
    ASSUME NEW n, NEW shape, NEW current,
           NEW i \in DiffItems(n, shape, current)
    PROVE  /\ i = [artifact |-> n, section |-> i.section,
                   previous |-> i.previous, state |-> i.state]
           /\ i.artifact = n
           /\ i.section \in DOMAIN shape.sections
           /\ i.previous \in current \cup {NoItem}
           /\ i.state \in SentStates \cup {"OMIT_UNCHANGED"}
           /\ i.state = "OMIT_UNCHANGED" =>
                 /\ i.previous \in current
                 /\ i.previous.section = i.section
                 /\ SectionOf(i.previous).content = shape.sections[i.section].content
  <1>1. PICK x \in DOMAIN shape.sections :
            i = [artifact |-> n, section |-> x, previous |-> Previous(current, x),
                 state |-> DiffState(shape.sections[x], Previous(current, x))]
    BY DEF DiffItems
  <1>2. \/ Previous(current, x) = NoItem
        \/ Previous(current, x) \in current /\ Previous(current, x).section = x
    BY DEF Previous
  <1>3. DiffState(shape.sections[x], Previous(current, x))
            \in SentStates \cup {"OMIT_UNCHANGED"}
    BY DEF DiffState, SentStates
  <1>4. DiffState(shape.sections[x], Previous(current, x)) = "OMIT_UNCHANGED" =>
            /\ Previous(current, x) # NoItem
            /\ SectionOf(Previous(current, x)).content = shape.sections[x].content
    BY DEF DiffState
  <1> QED BY <1>1, <1>2, <1>3, <1>4

\* A row that a build does not find stale rests on the same evidence as the section
\* of the new artifact: either the manifests agree as a whole, or the references of
\* the section and the hashes behind them do.
LEMMA FreshRow ==
    ASSUME TypeOK, SentSectionsExist,
           NEW shape \in Shapes, NEW row \in sent,
           ~Stale(row, shape)
    PROVE  LET old == ArtifactOf(row).shape IN
           /\ old.branch = shape.branch
           /\ old.commit = shape.commit
           /\ \A ref \in SectionOf(row).refs :
                 /\ ref \in DOMAIN shape.deps
                 /\ old.deps[ref] = shape.deps[ref]
  <1> DEFINE old == ArtifactOf(row).shape
  <1>1. old \in Shapes
    <2>1. row.artifact \in ArtifactIds
      BY DEF TypeOK, PackItem, OmittedItem, SentRow
    <2>2. artifacts[row.artifact] \in Artifact
      BY <2>1, StoredArtifacts
    <2> QED BY <2>2 DEF ArtifactOf, Artifact
  <1>2. old.branch = shape.branch /\ old.commit = shape.commit
    BY DEF Stale
  <1>3. CASE old.manifest = shape.manifest
    <2>1. old.deps = shape.deps
      BY <1>1, <1>3, ManifestCoversDeps
    <2>2. row.section \in DOMAIN old.sections
      BY DEF SentSectionsExist
    <2>3. IsShape(old)
      BY <1>1, ShapesAreShapes
    <2>4. SectionOf(row).refs \subseteq DOMAIN old.deps
      BY <2>2, <2>3 DEF IsShape, SectionOf
    <2> QED BY <1>2, <2>1, <2>4
  <1>4. CASE old.manifest # shape.manifest
    <2>1. ~DependencyDrift(row, shape)
      BY <1>4 DEF Stale
    <2> QED BY <1>2, <2>1 DEF DependencyDrift
  <1> QED BY <1>3, <1>4

----------------------------------------------------------------------------
(* One build *)

\* The rows a build inserts, with what the budget keeps of the diff named.
LEMMA BuildRows ==
    ASSUME NEW s, NEW shape, NEW at, NEW reset,
           Build(s, shape, at, reset)
    PROVE  LET n    == Len(artifacts) + 1
               diff == DiffItems(n, shape, CurrentPrior(s, shape, reset))
           IN  \E kept \in SUBSET diff :
                  /\ packItems' = packItems
                        \cup InvalidationItems(n, StalePrior(s, shape, reset))
                        \cup kept
                  /\ sent' = sent \cup SentRows(kept)
  <1> DEFINE n    == Len(artifacts) + 1
             diff == DiffItems(n, shape, CurrentPrior(s, shape, reset))
  <1>1. PICK dropped \in SUBSET Droppable(diff, shape) :
            /\ packItems' = packItems
                  \cup InvalidationItems(n, StalePrior(s, shape, reset))
                  \cup (diff \ dropped)
            /\ sent' = sent \cup SentRows(diff \ dropped)
    BY DEF Build, InsertArtifact, InsertPackItems, InsertSentItems, InsertOmittedItems
  <1>2. diff \ dropped \in SUBSET diff
    OBVIOUS
  <1> QED BY <1>1, <1>2

\* The artifact a build appends, and the omissions it records.
LEMMA BuildEffect ==
    ASSUME TypeOK,
           NEW s \in Sessions, NEW shape \in Shapes, NEW at \in Clocks,
           NEW reset \in BOOLEAN,
           Build(s, shape, at, reset)
    PROVE  LET n    == Len(artifacts) + 1
               diff == DiffItems(n, shape, CurrentPrior(s, shape, reset))
           IN  /\ \A k \in ArtifactIds : artifacts'[k] = artifacts[k]
               /\ artifacts' \in Seq(Artifact)
               /\ n \in Nat
               /\ n \notin ArtifactIds
               /\ \A k \in ArtifactIds : k < n
               /\ ArtifactIds' = ArtifactIds \cup {n}
               /\ artifacts'[n].session = s
               /\ artifacts'[n].shape = shape
               /\ artifacts'[n].at = at
               /\ omitted' = omitted \cup OmittedRows(diff)
  <1> DEFINE n    == Len(artifacts) + 1
             diff == DiffItems(n, shape, CurrentPrior(s, shape, reset))
  <1>1. PICK dropped \in SUBSET Droppable(diff, shape) :
            /\ artifacts' = Append(artifacts,
                  [session |-> s, at |-> at, shape |-> shape, reset |-> reset,
                   dropped |-> {i.section : i \in dropped}])
            /\ packItems' = packItems
                  \cup InvalidationItems(n, StalePrior(s, shape, reset))
                  \cup (diff \ dropped)
            /\ sent' = sent \cup SentRows(diff \ dropped)
            /\ omitted' = omitted \cup OmittedRows(diff)
    BY DEF Build, InsertArtifact, InsertPackItems, InsertSentItems, InsertOmittedItems
  <1> DEFINE a == [session |-> s, at |-> at, shape |-> shape, reset |-> reset,
                   dropped |-> {i.section : i \in dropped}]
  <1>2. \A i \in dropped : i.section \in Sections
    <2>1. TAKE i \in dropped
    <2>2. i \in diff
      BY <1>1 DEF Droppable
    <2>3. i.section \in DOMAIN shape.sections
      BY <2>2, DiffItem
    <2> QED BY <2>3, ShapesAreShapes DEF IsShape
  <1>3. a \in Artifact
    BY <1>2 DEF Artifact
  <1>4. artifacts \in Seq(Artifact)
    BY DEF TypeOK, PackItem, OmittedItem
  <1>5. /\ artifacts' \in Seq(Artifact)
        /\ Len(artifacts) \in Nat
        /\ \A k \in ArtifactIds : artifacts'[k] = artifacts[k]
        /\ artifacts'[n] = a
        /\ ArtifactIds' = ArtifactIds \cup {n}
    <2>1. artifacts' = Append(artifacts, a)
      BY <1>1
    <2> QED BY <1>3, <1>4, <2>1, ArtifactsGrow
  <1>6. n \in Nat /\ n \notin ArtifactIds /\ \A k \in ArtifactIds : k < n
    BY <1>5 DEF ArtifactIds
  <1>7. /\ artifacts'[n].session = s /\ artifacts'[n].shape = shape
        /\ artifacts'[n].at = at
    BY <1>5
  <1> QED BY <1>1, <1>5, <1>6, <1>7

\* Every row of the ledger keeps the artifact it refers to.
LEMMA RowsKeepArtifacts ==
    ASSUME \A k \in ArtifactIds : artifacts'[k] = artifacts[k],
           NEW row, row.artifact \in ArtifactIds
    PROVE  /\ ArtifactOf(row)' = ArtifactOf(row)
           /\ SessionOf(row)' = SessionOf(row)
           /\ SectionOf(row)' = SectionOf(row)
  BY DEF ArtifactOf, SessionOf, SectionOf

\* A build inserts typed rows, and they refer to artifacts that are stored by then.
LEMMA TypeStep ==
    ASSUME TypeOK,
           NEW s \in Sessions, NEW shape \in Shapes, NEW at \in Clocks,
           NEW reset \in BOOLEAN,
           Build(s, shape, at, reset)
    PROVE  TypeOK'
  <1> DEFINE n    == Len(artifacts) + 1
             current == CurrentPrior(s, shape, reset)
             diff == DiffItems(n, shape, current)
  <1>1. PICK kept \in SUBSET diff :
            /\ packItems' = packItems
                  \cup InvalidationItems(n, StalePrior(s, shape, reset)) \cup kept
            /\ sent' = sent \cup SentRows(kept)
    BY BuildRows
  <1>2. /\ artifacts' \in Seq(Artifact)
        /\ omitted' = omitted \cup OmittedRows(diff)
        /\ ArtifactIds' = ArtifactIds \cup {n}
    BY BuildEffect
  <1>3. DOMAIN shape.sections \subseteq Sections
    BY ShapesAreShapes DEF IsShape
  <1>4. \A i \in diff : /\ i.artifact = n
                        /\ i.section \in Sections
                        /\ i.previous \in current \cup {NoItem}
                        /\ i.state \in SentStates \cup {"OMIT_UNCHANGED"}
                        /\ i = [artifact |-> i.artifact, section |-> i.section,
                                previous |-> i.previous, state |-> i.state]
    BY <1>3, DiffItem
  <1>5. SentRow \subseteq SentRow'
    BY <1>2 DEF SentRow
  <1>6. current \subseteq sent /\ StalePrior(s, shape, reset) \subseteq sent
    BY PriorRows DEF CurrentPrior, StalePrior
  <1>7. sent' \subseteq SentRow'
    <2>1. SentRows(kept) \subseteq SentRow'
      BY <1>2, <1>4 DEF SentRows, SentRow
    <2> QED BY <1>1, <1>5, <2>1 DEF TypeOK, PackItem, OmittedItem
  <1>8. omitted' \subseteq [artifact : ArtifactIds', section : Sections]
    <2>1. OmittedRows(diff) \subseteq [artifact : ArtifactIds', section : Sections]
      BY <1>2, <1>4 DEF OmittedRows
    <2> QED BY <1>2, <2>1 DEF TypeOK, PackItem, OmittedItem
  <1>9. packItems' \subseteq
            [artifact : ArtifactIds', section : Sections,
             previous : SentRow' \cup {NoItem},
             state : SentStates \cup {"OMIT_UNCHANGED", "INVALIDATE_PREVIOUS"}]
    <2> DEFINE Items == [artifact : ArtifactIds', section : Sections,
             previous : SentRow' \cup {NoItem},
             state : SentStates \cup {"OMIT_UNCHANGED", "INVALIDATE_PREVIOUS"}]
    <2>1. packItems \subseteq Items
      BY <1>2, <1>5 DEF TypeOK, PackItem, OmittedItem
    <2>2. InvalidationItems(n, StalePrior(s, shape, reset)) \subseteq Items
      <3>1. \A row \in StalePrior(s, shape, reset) :
               row \in SentRow' /\ row.section \in Sections
        BY <1>5, <1>6 DEF TypeOK, PackItem, OmittedItem, SentRow
      <3> QED BY <1>2, <3>1 DEF InvalidationItems
    <2>3. kept \subseteq Items
      <3>1. \A i \in kept : i.previous \in SentRow' \cup {NoItem}
        BY <1>4, <1>5, <1>6 DEF TypeOK, PackItem, OmittedItem
      <3> QED BY <1>2, <1>4, <3>1
    <2> QED BY <1>1, <2>1, <2>2, <2>3
  <1> QED BY <1>2, <1>7, <1>8, <1>9 DEF TypeOK, PackItem, OmittedItem

\* The rows a build sends are of sections of its own artifact.
LEMMA SentSectionsStep ==
    ASSUME TypeOK, SentSectionsExist,
           NEW s \in Sessions, NEW shape \in Shapes, NEW at \in Clocks,
           NEW reset \in BOOLEAN,
           Build(s, shape, at, reset)
    PROVE  SentSectionsExist'
  <1> DEFINE n    == Len(artifacts) + 1
             diff == DiffItems(n, shape, CurrentPrior(s, shape, reset))
  <1>1. PICK kept \in SUBSET diff : sent' = sent \cup SentRows(kept)
    BY BuildRows
  <1>2. /\ \A k \in ArtifactIds : artifacts'[k] = artifacts[k]
        /\ artifacts'[n].shape = shape
    BY BuildEffect
  <1> SUFFICES ASSUME NEW row \in sent'
               PROVE  row.section \in DOMAIN ArtifactOf(row)'.shape.sections
    BY DEF SentSectionsExist
  <1>3. CASE row \in sent
    <2>1. row.artifact \in ArtifactIds
      BY <1>3 DEF TypeOK, PackItem, OmittedItem, SentRow
    <2>2. ArtifactOf(row)' = ArtifactOf(row)
      BY <1>2, <2>1, RowsKeepArtifacts
    <2> QED BY <1>3, <2>2 DEF SentSectionsExist
  <1>4. CASE row \in SentRows(kept)
    <2>1. PICK i \in diff : row.artifact = i.artifact /\ row.section = i.section
      BY <1>4 DEF SentRows
    <2>2. i.artifact = n /\ i.section \in DOMAIN shape.sections
      BY DiffItem
    <2> QED BY <1>2, <2>1, <2>2 DEF ArtifactOf
  <1> QED BY <1>1, <1>3, <1>4

\* What a build does to the invalidations: the old ones stay, the new ones name
\* rows of its session that were active, and nothing else looks like one.
LEMMA NewInvalidations ==
    ASSUME TypeOK,
           NEW s \in Sessions, NEW shape \in Shapes, NEW at \in Clocks,
           NEW reset \in BOOLEAN,
           Build(s, shape, at, reset),
           NEW p \in packItems', p.state = "INVALIDATE_PREVIOUS",
           p \notin packItems
    PROVE  /\ p.artifact = Len(artifacts) + 1
           /\ p.previous \in StalePrior(s, shape, reset)
           /\ p = [artifact |-> Len(artifacts) + 1, section |-> p.previous.section,
                   previous |-> p.previous, state |-> "INVALIDATE_PREVIOUS"]
  <1> DEFINE n    == Len(artifacts) + 1
             diff == DiffItems(n, shape, CurrentPrior(s, shape, reset))
  <1>1. PICK kept \in SUBSET diff :
            packItems' = packItems
                \cup InvalidationItems(n, StalePrior(s, shape, reset)) \cup kept
    BY BuildRows
  <1>2. p \notin kept
    BY DiffItem DEF SentStates
  <1>3. p \in InvalidationItems(n, StalePrior(s, shape, reset))
    BY <1>1, <1>2
  <1> QED BY <1>3 DEF InvalidationItems

\* After a build it is still true that an invalidation names a row that was sent
\* before it, in its own session.
LEMMA InvalidationsStep ==
    ASSUME TypeOK, InvalidationsStayInSession,
           NEW s \in Sessions, NEW shape \in Shapes, NEW at \in Clocks,
           NEW reset \in BOOLEAN,
           Build(s, shape, at, reset)
    PROVE  InvalidationsStayInSession'
  <1>1. /\ \A k \in ArtifactIds : artifacts'[k] = artifacts[k]
        /\ artifacts'[Len(artifacts) + 1].session = s
        /\ sent \subseteq sent'
    BY BuildEffect, BuildRows
  <1> SUFFICES ASSUME NEW p \in packItems', p.state = "INVALIDATE_PREVIOUS"
               PROVE  /\ p.previous \in sent'
                      /\ SessionOf(p.previous)' = SessionOf(p)'
    BY DEF InvalidationsStayInSession
  <1>2. CASE p \in packItems
    <2>1. /\ p.previous \in sent
          /\ SessionOf(p.previous) = SessionOf(p)
      BY <1>2 DEF InvalidationsStayInSession
    <2>2. p.artifact \in ArtifactIds /\ p.previous.artifact \in ArtifactIds
      BY <1>2, <2>1 DEF TypeOK, PackItem, OmittedItem, SentRow
    <2>3. /\ SessionOf(p)' = SessionOf(p)
          /\ SessionOf(p.previous)' = SessionOf(p.previous)
      BY <1>1, <2>2, RowsKeepArtifacts
    <2> QED BY <1>1, <2>1, <2>3
  <1>3. CASE p \notin packItems
    <2>1. /\ p.artifact = Len(artifacts) + 1
          /\ p.previous \in LatestActive(s)
      BY <1>3, NewInvalidations DEF StalePrior
    <2>2. p.previous \in sent /\ SessionOf(p.previous) = s
      BY <2>1, PriorRows
    <2>3. p.previous.artifact \in ArtifactIds
      BY <2>2 DEF TypeOK, PackItem, OmittedItem, SentRow
    <2>4. SessionOf(p.previous)' = s
      BY <1>1, <2>2, <2>3, RowsKeepArtifacts
    <2>5. SessionOf(p)' = s
      BY <1>1, <2>1 DEF SessionOf, ArtifactOf
    <2> QED BY <1>1, <2>2, <2>4, <2>5
  <1> QED BY <1>2, <1>3

\* A row that is invalidated already is not active, so it is not invalidated again.
LEMMA InvalidateOnceStep ==
    ASSUME TypeOK, InvalidationsStayInSession, InvalidateOnce,
           NEW s \in Sessions, NEW shape \in Shapes, NEW at \in Clocks,
           NEW reset \in BOOLEAN,
           Build(s, shape, at, reset)
    PROVE  InvalidateOnce'
  <1> SUFFICES ASSUME NEW p \in packItems', NEW q \in packItems',
                      p.state = "INVALIDATE_PREVIOUS",
                      q.state = "INVALIDATE_PREVIOUS",
                      p.previous = q.previous
               PROVE  p = q
    BY DEF InvalidateOnce
  <1>1. ASSUME NEW old \in packItems, old.state = "INVALIDATE_PREVIOUS",
               NEW new \in packItems', new.state = "INVALIDATE_PREVIOUS",
               new \notin packItems, new.previous = old.previous
        PROVE  FALSE
    <2>1. new.previous \in LatestActive(s)
      BY <1>1, NewInvalidations DEF StalePrior
    <2>2. ~Invalidated(new.previous)
      BY <2>1, PriorRows
    <2>3. SessionOf(old.previous) = SessionOf(old)
      BY <1>1 DEF InvalidationsStayInSession
    <2> QED BY <1>1, <2>2, <2>3 DEF Invalidated
  <1>2. CASE p \in packItems /\ q \in packItems
    BY <1>2 DEF InvalidateOnce
  <1>3. CASE p \notin packItems /\ q \notin packItems
    BY <1>3, NewInvalidations
  <1>4. CASE p \in packItems /\ q \notin packItems
    BY <1>1, <1>4
  <1>5. CASE p \notin packItems /\ q \in packItems
    BY <1>1, <1>5
  <1> QED BY <1>2, <1>3, <1>4, <1>5

\* An omission that was backed stays backed: rows keep their artifacts, and later
\* invalidations belong to later packs.
LEMMA BackingLasts ==
    ASSUME TypeOK,
           NEW s \in Sessions, NEW shape \in Shapes, NEW at \in Clocks,
           NEW reset \in BOOLEAN,
           Build(s, shape, at, reset),
           NEW o \in omitted, NEW row \in sent, Backs(row, o)
    PROVE  Backs(row, o)'
  <1>1. /\ \A k \in ArtifactIds : artifacts'[k] = artifacts[k]
        /\ Len(artifacts) + 1 \in Nat
        /\ \A k \in ArtifactIds : k < Len(artifacts) + 1
    BY BuildEffect
  <1>2. o.artifact \in ArtifactIds /\ row.artifact \in ArtifactIds
    BY DEF TypeOK, PackItem, OmittedItem, SentRow
  <1>3. /\ ArtifactOf(o)' = ArtifactOf(o) /\ ArtifactOf(row)' = ArtifactOf(row)
        /\ SessionOf(o)' = SessionOf(o) /\ SessionOf(row)' = SessionOf(row)
        /\ SectionOf(o)' = SectionOf(o) /\ SectionOf(row)' = SectionOf(row)
    BY <1>1, <1>2, RowsKeepArtifacts
  <1>4. SameEvidence(row, o)'
    BY <1>3 DEF Backs, SameEvidence
  <1>5. ~InvalidatedBy(row, o.artifact)'
    <2> SUFFICES ASSUME NEW p \in packItems', p.state = "INVALIDATE_PREVIOUS",
                        p.previous = row, p.artifact \leq o.artifact
                 PROVE  FALSE
      BY DEF InvalidatedBy
    <2>1. CASE p \in packItems
      BY <2>1 DEF Backs, InvalidatedBy
    <2>2. CASE p \notin packItems
      <3>1. p.artifact = Len(artifacts) + 1
        BY <2>2, NewInvalidations
      <3>2. o.artifact < Len(artifacts) + 1 /\ o.artifact \in Nat
        BY <1>1, <1>2 DEF ArtifactIds
      <3> QED BY <1>1, <3>1, <3>2
    <2> QED BY <2>1, <2>2
  <1> QED BY <1>3, <1>4, <1>5 DEF Backs

\* A build omits a section only on the strength of a row it has just read as active
\* and found fresh, and does not invalidate in the same pack.
LEMMA NewOmissionBacked ==
    ASSUME TypeOK, SentSectionsExist, InvalidationsStayInSession,
           NEW s \in Sessions, NEW shape \in Shapes, NEW at \in Clocks,
           NEW reset \in BOOLEAN,
           Build(s, shape, at, reset),
           NEW o \in OmittedRows(DiffItems(Len(artifacts) + 1, shape,
                                           CurrentPrior(s, shape, reset)))
    PROVE  \E row \in sent : Backs(row, o)'
  <1> DEFINE n    == Len(artifacts) + 1
             current == CurrentPrior(s, shape, reset)
             diff == DiffItems(n, shape, current)
  <1>1. PICK i \in diff : /\ i.state = "OMIT_UNCHANGED"
                          /\ o = [artifact |-> i.artifact, section |-> i.section]
    BY DEF OmittedRows
  <1> DEFINE row == i.previous
  <1>2. /\ o.artifact = n
        /\ o.section \in DOMAIN shape.sections
        /\ row \in current
        /\ row.section = o.section
        /\ SectionOf(row).content = shape.sections[o.section].content
    BY <1>1, DiffItem
  <1>3. row \in LatestActive(s) /\ ~reset /\ ~Stale(row, shape)
    BY <1>2 DEF CurrentPrior, StalePrior
  <1>4. row \in sent /\ SessionOf(row) = s /\ ~Invalidated(row)
    BY <1>3, PriorRows
  <1>5. /\ \A k \in ArtifactIds : artifacts'[k] = artifacts[k]
        /\ artifacts'[n].session = s /\ artifacts'[n].shape = shape
        /\ \A k \in ArtifactIds : k < n
    BY BuildEffect
  <1>6. row.artifact \in ArtifactIds
    BY <1>4 DEF TypeOK, PackItem, OmittedItem, SentRow
  <1>7. /\ ArtifactOf(row)' = ArtifactOf(row)
        /\ SessionOf(row)' = s
        /\ SectionOf(row)' = SectionOf(row)
    BY <1>4, <1>5, <1>6, RowsKeepArtifacts
  <1>8. /\ ArtifactOf(o)'.shape = shape
        /\ SessionOf(o)' = s
        /\ SectionOf(o)' = shape.sections[o.section]
    BY <1>2, <1>5 DEF ArtifactOf, SessionOf, SectionOf
  <1>9. SameEvidence(row, o)'
    <2>1. /\ ArtifactOf(row).shape.branch = shape.branch
          /\ ArtifactOf(row).shape.commit = shape.commit
          /\ \A ref \in SectionOf(row).refs :
                /\ ref \in DOMAIN shape.deps
                /\ ArtifactOf(row).shape.deps[ref] = shape.deps[ref]
      BY <1>3, <1>4, FreshRow
    <2> QED BY <1>7, <1>8, <2>1 DEF SameEvidence
  <1>10. ~InvalidatedBy(row, o.artifact)'
    <2> SUFFICES ASSUME NEW p \in packItems', p.state = "INVALIDATE_PREVIOUS",
                        p.previous = row
                 PROVE  FALSE
      BY DEF InvalidatedBy
    <2>1. CASE p \in packItems
      BY <1>4, <2>1 DEF InvalidationsStayInSession, Invalidated
    <2>2. CASE p \notin packItems
      BY <1>2, <2>2, NewInvalidations DEF CurrentPrior
    <2> QED BY <2>1, <2>2
  <1>11. Backs(row, o)'
    BY <1>2, <1>5, <1>6, <1>7, <1>8, <1>9, <1>10 DEF Backs
  <1> QED BY <1>4, <1>11

\* After a build every omission, old or new, is backed by a sent row.
LEMMA OmitBackedStep ==
    ASSUME TypeOK, SentSectionsExist, InvalidationsStayInSession, OmitBacked,
           NEW s \in Sessions, NEW shape \in Shapes, NEW at \in Clocks,
           NEW reset \in BOOLEAN,
           Build(s, shape, at, reset)
    PROVE  OmitBacked'
  <1> DEFINE diff == DiffItems(Len(artifacts) + 1, shape,
                               CurrentPrior(s, shape, reset))
  <1>1. omitted' = omitted \cup OmittedRows(diff) /\ sent \subseteq sent'
    BY BuildEffect, BuildRows
  <1>2. \A o \in omitted : \E row \in sent : Backs(row, o)'
    <2>1. TAKE o \in omitted
    <2>2. PICK row \in sent : Backs(row, o)
      BY DEF OmitBacked
    <2> QED BY <2>2, BackingLasts
  <1>3. \A o \in OmittedRows(diff) : \E row \in sent : Backs(row, o)'
    BY NewOmissionBacked
  <1> QED BY <1>1, <1>2, <1>3 DEF OmitBacked

----------------------------------------------------------------------------
(* The theorems *)

\* Every build keeps the inductive invariant.
LEMMA LedgerInvStep == LedgerInv /\ [LedgerNext]_ledgerVars => LedgerInv'
  <1> SUFFICES ASSUME LedgerInv, [LedgerNext]_ledgerVars
               PROVE  LedgerInv'
    OBVIOUS
  <1>1. ASSUME NEW s \in Sessions, NEW shape \in Shapes, NEW at \in Clocks,
               NEW reset \in BOOLEAN, Build(s, shape, at, reset)
        PROVE  LedgerInv'
    BY <1>1, TypeStep, SentSectionsStep, InvalidationsStep, OmitBackedStep,
       InvalidateOnceStep DEF LedgerInv
  <1>2. CASE UNCHANGED ledgerVars
    BY <1>2 DEF ledgerVars, LedgerInv, TypeOK, PackItem, OmittedItem, SentSectionsExist,
       InvalidationsStayInSession, OmitBacked, InvalidateOnce, ArtifactIds,
       ArtifactOf, SessionOf, SectionOf, SentRow, Backs, SameEvidence,
       InvalidatedBy
  <1> QED BY <1>1, <1>2 DEF LedgerNext

\* The ledger starts empty, and every build keeps the inductive invariant.
THEOREM LedgerInvariance == LedgerSpec => []LedgerInv
  <1>1. LedgerInit => LedgerInv
    BY DEF LedgerInit, LedgerInv, TypeOK, PackItem, OmittedItem, SentSectionsExist,
           InvalidationsStayInSession, OmitBacked, InvalidateOnce, ArtifactIds
  <1> QED BY <1>1, LedgerInvStep, PTL DEF LedgerSpec

\* Every ledger row has its type and belongs to a stored artifact.
THEOREM TypeCorrect == LedgerSpec => []TypeOK
  <1>1. LedgerInv => TypeOK
    BY DEF LedgerInv
  <1> QED BY <1>1, LedgerInvariance, PTL

\* No pack leaves out a section unless the session's agent was sent that content,
\* on the same evidence, and was not told since that it is invalid.
THEOREM OmissionsAreBacked == LedgerSpec => []OmitBacked
  <1>1. LedgerInv => OmitBacked
    BY DEF LedgerInv
  <1> QED BY <1>1, LedgerInvariance, PTL

\* No sent row is announced as invalid twice.
THEOREM InvalidatedAtMostOnce == LedgerSpec => []InvalidateOnce
  <1>1. LedgerInv => InvalidateOnce
    BY DEF LedgerInv
  <1> QED BY <1>1, LedgerInvariance, PTL

----------------------------------------------------------------------------
(* Packs and deliveries *)

\* A pack sends a section once.  Without it two rows of a pack would be one
\* delivery, and revoking one of them would leave the agent both or neither.
SentOnce ==
    \A a, b \in sent : a.artifact = b.artifact /\ a.section = b.section => a = b

AgentInv == LedgerInv /\ SentOnce

\* The pack of a build in the words of the promise: what is told of the diff, what is
\* called unchanged, what is revoked, and what the turn delivers.
Told(items) == {i.section : i \in {j \in items : j.state \in SentStates}}
Unchanged(items) == {i.section : i \in {j \in items : j.state = "OMIT_UNCHANGED"}}
Revoked(rows) == {Delivery(row) : row \in rows}
SectionsOf(rows) == {row.section : row \in rows}
Delivered(n, shape, told) ==
    {[turn |-> n, section |-> x, content |-> WantOf(shape)[x].content] : x \in told}

Pack(s, shape, diff, dropped, stale) ==
    [session   |-> s,
     want      |-> WantOf(shape),
     delivered |-> Told(diff \ dropped),
     unchanged |-> Unchanged(diff),
     revoked   |-> Revoked(stale)]

----------------------------------------------------------------------------
(* A build as a turn *)

\* What a build inserts, with what the budget drops named.
LEMMA BuildInserts ==
    ASSUME NEW s, NEW shape, NEW at, NEW reset,
           Build(s, shape, at, reset)
    PROVE  LET n    == Len(artifacts) + 1
               diff == DiffItems(n, shape, CurrentPrior(s, shape, reset))
           IN  \E dropped \in SUBSET Droppable(diff, shape) :
                  /\ packItems' = packItems
                        \cup InvalidationItems(n, StalePrior(s, shape, reset))
                        \cup (diff \ dropped)
                  /\ sent' = sent \cup SentRows(diff \ dropped)
  BY DEF Build, InsertArtifact, InsertPackItems, InsertSentItems, InsertOmittedItems

\* The diff says one thing of each section of the new artifact.
LEMMA DiffCovers ==
    ASSUME NEW n, NEW shape, NEW current
    PROVE  /\ \A x \in DOMAIN shape.sections :
                 \E i \in DiffItems(n, shape, current) :
                    i.section = x /\ i.state = DiffState(shape.sections[x], i.previous)
           /\ \A i, j \in DiffItems(n, shape, current) : i.section = j.section => i = j
           /\ \A i \in DiffItems(n, shape, current) :
                 i.state = DiffState(shape.sections[i.section], i.previous)
  <1> DEFINE item(x) == [artifact |-> n, section |-> x, previous |-> Previous(current, x),
                         state |-> DiffState(shape.sections[x], Previous(current, x))]
  <1>1. \A x \in DOMAIN shape.sections : item(x) \in DiffItems(n, shape, current)
    BY DEF DiffItems
  <1>2. \A i \in DiffItems(n, shape, current) : \E x \in DOMAIN shape.sections : i = item(x)
    BY DEF DiffItems
  <1>3. \A x : /\ item(x).section = x
               /\ item(x).state = DiffState(shape.sections[x], item(x).previous)
    OBVIOUS
  <1> HIDE DEF item
  <1> QED BY <1>1, <1>2, <1>3

\* The rows that were there keep their artifact, and none of them is of the new one.
LEMMA OldRows ==
    ASSUME TypeOK,
           NEW s \in Sessions, NEW shape \in Shapes, NEW at \in Clocks,
           NEW reset \in BOOLEAN,
           Build(s, shape, at, reset),
           NEW row \in sent
    PROVE  /\ row.artifact \in ArtifactIds
           /\ row.artifact # Len(artifacts) + 1
           /\ SessionOf(row)' = SessionOf(row)
           /\ SectionOf(row)' = SectionOf(row)
           /\ Delivery(row)' = Delivery(row)
  <1>1. row.artifact \in ArtifactIds
    BY DEF TypeOK, SentRow
  <1>2. /\ \A k \in ArtifactIds : artifacts'[k] = artifacts[k]
        /\ Len(artifacts) + 1 \notin ArtifactIds
    BY BuildEffect
  <1>3. SessionOf(row)' = SessionOf(row) /\ SectionOf(row)' = SectionOf(row)
    BY <1>1, <1>2, RowsKeepArtifacts
  <1> QED BY <1>1, <1>2, <1>3 DEF Delivery

\* Two rows that are one delivery are one row.
LEMMA DeliveriesDiffer ==
    ASSUME SentOnce, NEW a \in sent, NEW b \in sent, Delivery(a) = Delivery(b)
    PROVE  a = b
  <1>1. a.artifact = b.artifact /\ a.section = b.section
    BY DEF Delivery
  <1> QED BY <1>1 DEF SentOnce

\* A build sends each section at most once, of an artifact nothing was sent of.
LEMMA SentOnceStep ==
    ASSUME TypeOK, SentOnce,
           NEW s \in Sessions, NEW shape \in Shapes, NEW at \in Clocks,
           NEW reset \in BOOLEAN,
           Build(s, shape, at, reset)
    PROVE  SentOnce'
  <1> DEFINE n    == Len(artifacts) + 1
             diff == DiffItems(n, shape, CurrentPrior(s, shape, reset))
  <1>1. PICK kept \in SUBSET diff : sent' = sent \cup SentRows(kept)
    BY BuildRows
  <1>2. \A row \in sent : row.artifact # n
    BY OldRows
  <1>3. \A row \in SentRows(kept) : row.artifact = n
    BY DiffItem DEF SentRows
  <1>4. \A a, b \in SentRows(kept) : a.section = b.section => a = b
    BY DiffCovers, DiffItem DEF SentRows
  <1> QED BY <1>1, <1>2, <1>3, <1>4 DEF SentOnce

\* The rows made of items are of the items' sections.
LEMMA RowSections ==
    ASSUME NEW items
    PROVE  /\ {row.section : row \in SentRows(items)} = Told(items)
           /\ {o.section : o \in OmittedRows(items)} = Unchanged(items)
  <1> DEFINE sentOf(i) == [artifact |-> i.artifact, section |-> i.section, state |-> i.state]
             omittedOf(i) == [artifact |-> i.artifact, section |-> i.section]
             told == {j \in items : j.state \in SentStates}
             left == {j \in items : j.state = "OMIT_UNCHANGED"}
  <1>1. SentRows(items) = {sentOf(i) : i \in told}
    BY DEF SentRows
  <1>2. OmittedRows(items) = {omittedOf(i) : i \in left}
    BY DEF OmittedRows
  <1>3. \A i : sentOf(i).section = i.section /\ omittedOf(i).section = i.section
    OBVIOUS
  <1> HIDE DEF sentOf, omittedOf, told, left
  <1>4. {row.section : row \in {sentOf(i) : i \in told}} = {i.section : i \in told}
    BY <1>3
  <1>5. {o.section : o \in {omittedOf(i) : i \in left}} = {i.section : i \in left}
    BY <1>3
  <1> QED BY <1>1, <1>2, <1>4, <1>5 DEF told, left, Told, Unchanged

\* The pack of a build, read as the agent does: it delivers what the budget keeps of
\* the new and changed sections, calls the omitted ones unchanged, and revokes the
\* deliveries that are stale.
LEMMA NewPack ==
    ASSUME TypeOK,
           NEW s \in Sessions, NEW shape \in Shapes, NEW at \in Clocks,
           NEW reset \in BOOLEAN,
           Build(s, shape, at, reset),
           NEW n, n = Len(artifacts) + 1,
           NEW diff, diff = DiffItems(n, shape, CurrentPrior(s, shape, reset)),
           NEW stale, stale = StalePrior(s, shape, reset),
           NEW dropped \in SUBSET diff,
           packItems' = packItems \cup InvalidationItems(n, stale) \cup (diff \ dropped),
           sent' = sent \cup SentRows(diff \ dropped)
    PROVE  PackOf(n)' = Pack(s, shape, diff, dropped, stale)
  <1>1. /\ n \notin ArtifactIds
        /\ artifacts'[n].session = s
        /\ artifacts'[n].shape = shape
        /\ omitted' = omitted \cup OmittedRows(diff)
    BY BuildEffect
  <1>2. {r \in sent' : r.artifact = n} = SentRows(diff \ dropped)
    <2>1. \A row \in sent : row.artifact # n
      BY OldRows
    <2>2. \A row \in SentRows(diff \ dropped) : row.artifact = n
      BY DiffItem DEF SentRows
    <2> QED BY <2>1, <2>2
  <1>3. {row.section : row \in SentRows(diff \ dropped)} = Told(diff \ dropped)
    BY RowSections
  <1>4. {o \in omitted' : o.artifact = n} = OmittedRows(diff)
    <2>1. \A o \in omitted : o.artifact # n
      BY <1>1 DEF TypeOK, OmittedItem
    <2>2. \A o \in OmittedRows(diff) : o.artifact = n
      BY DiffItem DEF OmittedRows
    <2> QED BY <1>1, <2>1, <2>2
  <1>5. {o.section : o \in OmittedRows(diff)} = Unchanged(diff)
    BY RowSections
  <1>6. {q \in packItems' : q.artifact = n /\ q.state = "INVALIDATE_PREVIOUS"}
            = InvalidationItems(n, stale)
    <2>1. \A q \in packItems : q.artifact # n
      BY <1>1 DEF TypeOK, PackItem
    <2>2. \A q \in diff : q.state # "INVALIDATE_PREVIOUS"
      BY DiffItem DEF SentStates
    <2>3. \A q \in InvalidationItems(n, stale) :
             q.artifact = n /\ q.state = "INVALIDATE_PREVIOUS"
      BY DEF InvalidationItems
    <2> QED BY <2>1, <2>2, <2>3
  <1>7. \A row \in stale : Delivery(row)' = Delivery(row)
    BY OldRows, PriorRows DEF StalePrior
  <1>8. {Delivery(p.previous)' : p \in InvalidationItems(n, stale)} = Revoked(stale)
    <2>1. \A p \in InvalidationItems(n, stale) : p.previous \in stale
      BY DEF InvalidationItems
    <2>2. ASSUME NEW row \in stale
          PROVE  \E p \in InvalidationItems(n, stale) : p.previous = row
      <3> DEFINE p == [artifact |-> n, section |-> row.section, previous |-> row,
                       state |-> "INVALIDATE_PREVIOUS"]
      <3>1. p \in InvalidationItems(n, stale)
        BY DEF InvalidationItems
      <3>2. p.previous = row
        OBVIOUS
      <3> QED BY <3>1, <3>2
    <2> QED BY <1>7, <2>1, <2>2 DEF Revoked
  <1>9. /\ artifacts'[n].session = s
        /\ WantOf(artifacts'[n].shape) = WantOf(shape)
        /\ {row.section : row \in {r \in sent' : r.artifact = n}} = Told(diff \ dropped)
        /\ {o.section : o \in {r \in omitted' : r.artifact = n}} = Unchanged(diff)
        /\ {Delivery(p.previous)' :
               p \in {q \in packItems' : q.artifact = n /\ q.state = "INVALIDATE_PREVIOUS"}}
              = Revoked(stale)
    BY <1>1, <1>2, <1>3, <1>4, <1>5, <1>6, <1>8
  <1> QED BY <1>9 DEF PackOf, Pack, WantOf

\* The pack of a build is honest: it revokes what its session held, what it calls
\* unchanged rests on a delivery that it does not revoke, and what is missing from
\* it was dropped by the budget, which drops optional sections only.
LEMMA HonestPack ==
    ASSUME SentOnce,
           NEW s \in Sessions, NEW shape \in Shapes, NEW n, NEW reset \in BOOLEAN,
           NEW diff, diff = DiffItems(n, shape, CurrentPrior(s, shape, reset)),
           NEW stale, stale = StalePrior(s, shape, reset),
           NEW dropped \in SUBSET Droppable(diff, shape)
    PROVE  Agent!Honest(Pack(s, shape, diff, dropped, stale))
  <1> DEFINE current == CurrentPrior(s, shape, reset)
             pack == Pack(s, shape, diff, dropped, stale)
  <1>0. /\ pack.session = s /\ pack.want = WantOf(shape)
        /\ pack.delivered = Told(diff \ dropped) /\ pack.unchanged = Unchanged(diff)
        /\ pack.revoked = Revoked(stale)
    BY DEF Pack
  <1> HIDE DEF pack
  <1>1. stale \subseteq ActiveSent(s) /\ current \subseteq ActiveSent(s)
    BY DEF StalePrior, CurrentPrior, LatestActive
  <1>2. pack.revoked \subseteq HeldBy(s)
    BY <1>0, <1>1 DEF HeldBy, Revoked
  <1>3. pack.delivered \cup pack.unchanged \subseteq DOMAIN WantOf(shape)
    BY <1>0, DiffItem DEF WantOf, Told, Unchanged
  <1>4. pack.delivered \cap pack.unchanged = {}
    BY <1>0, DiffCovers DEF SentStates, Told, Unchanged
  <1>5. ASSUME NEW x \in pack.unchanged
        PROVE  /\ WantOf(shape)[x].kind # "pinned"
               /\ \E d \in HeldBy(s) \ pack.revoked :
                     d.section = x /\ d.content = WantOf(shape)[x].content
    <2>1. PICK i \in diff : i.state = "OMIT_UNCHANGED" /\ i.section = x
      BY <1>0 DEF Unchanged
    <2>2. /\ x \in DOMAIN shape.sections
          /\ i.previous \in current
          /\ i.previous.section = x
          /\ SectionOf(i.previous).content = shape.sections[x].content
      BY <2>1, DiffItem
    <2>3. shape.sections[x].kind # "pinned"
      BY <2>1, DiffCovers DEF DiffState
    <2>4. Delivery(i.previous) \in HeldBy(s)
      BY <1>1, <2>2 DEF HeldBy
    <2>5. Delivery(i.previous) \notin pack.revoked
      <3>1. i.previous \notin stale
        BY <2>2 DEF CurrentPrior
      <3>2. i.previous \in sent /\ stale \subseteq sent
        BY <1>1, <2>2 DEF ActiveSent
      <3> QED BY <1>0, <3>1, <3>2, DeliveriesDiffer DEF Revoked
    <2>6. /\ Delivery(i.previous).section = x
          /\ Delivery(i.previous).content = shape.sections[x].content
      BY <2>2 DEF Delivery
    <2> QED BY <2>2, <2>3, <2>4, <2>5, <2>6 DEF WantOf
  <1>6. ASSUME NEW x \in (DOMAIN WantOf(shape)) \ (pack.delivered \cup pack.unchanged)
        PROVE  WantOf(shape)[x].kind = "optional"
    <2>1. x \in DOMAIN shape.sections
      BY DEF WantOf
    <2>2. PICK i \in diff : i.section = x
      BY <2>1, DiffCovers
    <2>3. i.state \in SentStates \cup {"OMIT_UNCHANGED"}
      BY DiffItem
    <2>4. i \in dropped
      BY <1>0, <2>2, <2>3 DEF Told, Unchanged
    <2> QED BY <2>1, <2>2, <2>4 DEF Droppable, WantOf
  <1>7. [q \in Sessions |-> HeldBy(q)][pack.session] = HeldBy(s)
    BY <1>0
  <1>8. Agent!Honest(pack)
    <2>1. Agent!Pruned(pack)
             = (DOMAIN WantOf(shape)) \ (pack.delivered \cup pack.unchanged)
      BY <1>0 DEF Agent!Pruned
    <2>2. \A x \in Agent!Pruned(pack) : pack.want[x].kind = "optional"
      BY <1>0, <1>6, <2>1
    <2>3. pack.revoked \subseteq [q \in Sessions |-> HeldBy(q)][pack.session]
      BY <1>2, <1>7
    <2>4. \A x \in pack.unchanged :
             /\ pack.want[x].kind # "pinned"
             /\ \E d \in [q \in Sessions |-> HeldBy(q)][pack.session] \ pack.revoked :
                   d.section = x /\ d.content = pack.want[x].content
      BY <1>0, <1>5, <1>7
    <2>5. pack.delivered \cup pack.unchanged \subseteq DOMAIN pack.want
      BY <1>0, <1>3
    <2> QED BY <1>4, <2>2, <2>3, <2>4, <2>5 DEF Agent!Honest
  <1> QED BY <1>8 DEF pack

\* A build revokes what it found stale and nothing else.
LEMMA RevokedRows ==
    ASSUME TypeOK,
           NEW s \in Sessions, NEW shape \in Shapes, NEW at \in Clocks,
           NEW reset \in BOOLEAN,
           Build(s, shape, at, reset),
           NEW row \in sent
    PROVE  Invalidated(row)' <=> Invalidated(row) \/ row \in StalePrior(s, shape, reset)
  <1> DEFINE n == Len(artifacts) + 1
  <1>1. /\ \A k \in ArtifactIds : artifacts'[k] = artifacts[k]
        /\ artifacts'[n].session = s
    BY BuildEffect
  <1>2. SessionOf(row)' = SessionOf(row)
    BY OldRows
  <1>3. \A p \in packItems : SessionOf(p)' = SessionOf(p)
    <2>1. \A p \in packItems : p.artifact \in ArtifactIds
      BY DEF TypeOK, PackItem
    <2> QED BY <1>1, <2>1, RowsKeepArtifacts
  <1>4. ASSUME Invalidated(row) PROVE Invalidated(row)'
    <2>1. packItems \subseteq packItems'
      BY BuildRows
    <2> QED BY <1>2, <1>3, <1>4, <2>1 DEF Invalidated
  <1>5. ASSUME row \in StalePrior(s, shape, reset) PROVE Invalidated(row)'
    <2>1. PICK p \in packItems' : /\ p.artifact = n
                                  /\ p.previous = row
                                  /\ p.state = "INVALIDATE_PREVIOUS"
      <3> DEFINE item == [artifact |-> n, section |-> row.section, previous |-> row,
                          state |-> "INVALIDATE_PREVIOUS"]
      <3>1. item \in InvalidationItems(n, StalePrior(s, shape, reset))
        BY <1>5 DEF InvalidationItems
      <3>2. item \in packItems'
        BY <3>1, BuildRows
      <3> QED BY <3>2
    <2>2. SessionOf(row) = s
      BY <1>5, PriorRows DEF StalePrior
    <2>3. SessionOf(p)' = s
      BY <1>1, <2>1 DEF SessionOf, ArtifactOf
    <2> QED BY <1>2, <2>1, <2>2, <2>3 DEF Invalidated
  <1>6. ASSUME Invalidated(row)'
        PROVE  Invalidated(row) \/ row \in StalePrior(s, shape, reset)
    <2>1. PICK p \in packItems' : /\ p.state = "INVALIDATE_PREVIOUS"
                                  /\ p.previous = row
                                  /\ SessionOf(p)' = SessionOf(row)'
      BY <1>6 DEF Invalidated
    <2>2. CASE p \in packItems
      BY <1>2, <1>3, <2>1, <2>2 DEF Invalidated
    <2>3. CASE p \notin packItems
      BY <2>1, <2>3, NewInvalidations
    <2> QED BY <2>2, <2>3
  <1> QED BY <1>4, <1>5, <1>6

\* What the agents hold after a build: the one of the session loses what is stale and
\* gets what is sent, the others are left alone.
LEMMA ActiveAfter ==
    ASSUME TypeOK, InvalidationsStayInSession,
           NEW s \in Sessions, NEW shape \in Shapes, NEW at \in Clocks,
           NEW reset \in BOOLEAN,
           Build(s, shape, at, reset),
           NEW rows, sent' = sent \cup rows,
           \A row \in rows : row.artifact = Len(artifacts) + 1
    PROVE  /\ \A q \in Sessions \ {s} : ActiveSent(q)' = ActiveSent(q)
           /\ ActiveSent(s)' = (ActiveSent(s) \ StalePrior(s, shape, reset)) \cup rows
  <1> DEFINE n     == Len(artifacts) + 1
             stale == StalePrior(s, shape, reset)
  <1>1. \A row \in sent : /\ SessionOf(row)' = SessionOf(row)
                          /\ row.artifact # n
                          /\ Invalidated(row)' <=> Invalidated(row) \/ row \in stale
    BY OldRows, RevokedRows
  <1>2. \A row \in stale : row \in sent /\ SessionOf(row) = s
    BY PriorRows DEF StalePrior
  <1>3. ASSUME NEW row \in rows
        PROVE  SessionOf(row)' = s /\ ~Invalidated(row)'
    <2>1. row.artifact = n
      OBVIOUS
    <2>2. artifacts'[n].session = s
      BY BuildEffect
    <2>3. \A p \in packItems' : p.state = "INVALIDATE_PREVIOUS" => p.previous \in sent
      <3>1. \A p \in packItems : p.state = "INVALIDATE_PREVIOUS" => p.previous \in sent
        BY DEF InvalidationsStayInSession
      <3>2. \A p \in packItems' : p.state = "INVALIDATE_PREVIOUS" /\ p \notin packItems
                                     => p.previous \in stale
        BY NewInvalidations
      <3> QED BY <1>2, <3>1, <3>2
    <2> QED BY <1>1, <2>1, <2>2, <2>3 DEF Invalidated, SessionOf, ArtifactOf
  <1> QED BY <1>1, <1>2, <1>3 DEF ActiveSent

\* So the agent holds what the pack says: what it held without what is revoked, and
\* the deliveries of this turn.
LEMMA HeldAfter ==
    ASSUME TypeOK, InvalidationsStayInSession, SentOnce,
           NEW s \in Sessions, NEW shape \in Shapes, NEW at \in Clocks,
           NEW reset \in BOOLEAN,
           Build(s, shape, at, reset),
           NEW n, n = Len(artifacts) + 1,
           NEW stale, stale = StalePrior(s, shape, reset),
           NEW rows, sent' = sent \cup rows,
           \A row \in rows : row.artifact = n /\ row.section \in DOMAIN shape.sections
    PROVE  \A q \in Sessions : HeldBy(q)' =
              IF q = s THEN (HeldBy(s) \ Revoked(stale))
                               \cup Delivered(n, shape, SectionsOf(rows))
                       ELSE HeldBy(q)
  <1>1. \A row \in sent : Delivery(row)' = Delivery(row)
    BY OldRows
  <1>2. \A q : ActiveSent(q) \subseteq sent
    BY DEF ActiveSent
  <1>a. /\ \A q \in Sessions \ {s} : ActiveSent(q)' = ActiveSent(q)
        /\ ActiveSent(s)' = (ActiveSent(s) \ stale) \cup rows
    BY ActiveAfter
  <1>3. ASSUME NEW q \in Sessions \ {s}
        PROVE  HeldBy(q)' = HeldBy(q)
    <2>1. ActiveSent(q)' = ActiveSent(q)
      BY <1>a
    <2>2. HeldBy(q)' = {Delivery(row)' : row \in ActiveSent(q)}
      BY <2>1 DEF HeldBy
    <2> QED BY <1>1, <1>2, <2>2 DEF HeldBy
  <1>4. {Delivery(row)' : row \in ActiveSent(s) \ stale}
            = HeldBy(s) \ Revoked(stale)
    <2>1. stale \subseteq ActiveSent(s)
      BY DEF StalePrior, LatestActive
    <2> QED BY <1>1, <1>2, <2>1, DeliveriesDiffer DEF HeldBy, Revoked
  <1>5. {Delivery(row)' : row \in rows} = Delivered(n, shape, SectionsOf(rows))
    <2>1. ASSUME NEW row \in rows
          PROVE  Delivery(row)' = [turn |-> n, section |-> row.section,
                                   content |-> WantOf(shape)[row.section].content]
      <3>1. row.artifact = n /\ row.section \in DOMAIN shape.sections
        OBVIOUS
      <3>2. artifacts'[n].shape = shape
        BY BuildEffect
      <3>3. SectionOf(row)' = shape.sections[row.section]
        BY <3>1, <3>2 DEF SectionOf, ArtifactOf
      <3>4. WantOf(shape)[row.section].content = shape.sections[row.section].content
        BY <3>1 DEF WantOf
      <3> QED BY <3>1, <3>3, <3>4 DEF Delivery
    <2> QED BY <2>1 DEF Delivered, SectionsOf
  <1>7. HeldBy(s)' = {Delivery(row)' : row \in ActiveSent(s) \ stale}
                        \cup {Delivery(row)' : row \in rows}
    <2>2. HeldBy(s)' = {Delivery(row)' : row \in (ActiveSent(s) \ stale)
                                                     \cup rows}
      BY <1>a DEF HeldBy
    <2> QED BY <2>2
  <1> QED BY <1>3, <1>4, <1>5, <1>7

----------------------------------------------------------------------------
(* The promise *)

\* The mapped variables, as Agent sees them before and after a build.
LEMMA BuildIsTurn ==
    ASSUME TypeOK, InvalidationsStayInSession, SentOnce,
           NEW s \in Sessions, NEW shape \in Shapes, NEW at \in Clocks,
           NEW reset \in BOOLEAN,
           Build(s, shape, at, reset)
    PROVE  Agent!Turn
  <1>1. PICK n \in Nat : n = Len(artifacts) + 1
    BY BuildEffect
  <1>2. PICK diff : diff = DiffItems(n, shape, CurrentPrior(s, shape, reset))
    OBVIOUS
  <1>3. PICK stale : stale = StalePrior(s, shape, reset)
    OBVIOUS
  <1>4. PICK dropped \in SUBSET Droppable(diff, shape) :
            /\ packItems' = packItems \cup InvalidationItems(n, stale) \cup (diff \ dropped)
            /\ sent' = sent \cup SentRows(diff \ dropped)
    BY <1>1, <1>2, <1>3, BuildInserts, ZenonT(30)
  <1>5. dropped \in SUBSET diff
    BY DEF Droppable
  <1>6. PICK pack : pack = Pack(s, shape, diff, dropped, stale)
    OBVIOUS
  <1>7. PackOf(n)' = pack
    BY <1>1, <1>2, <1>3, <1>4, <1>5, <1>6, NewPack, SMTT(20)
  <1>8. Agent!Honest(pack)
    BY <1>2, <1>3, <1>6, HonestPack
  <1>9. \A q \in Sessions : HeldBy(q)' =
            IF q = s THEN (HeldBy(s) \ Revoked(stale))
                             \cup Delivered(n, shape, Told(diff \ dropped))
                     ELSE HeldBy(q)
    <2>1. PICK rows : rows = SentRows(diff \ dropped)
      OBVIOUS
    <2>2. \A row \in rows : row.artifact = n /\ row.section \in DOMAIN shape.sections
      BY <1>2, <2>1, DiffItem DEF SentRows
    <2>3. sent' = sent \cup rows
      BY <1>4, <2>1
    <2>4. SectionsOf(rows) = Told(diff \ dropped)
      BY <2>1, RowSections DEF SectionsOf
    <2>5. \A q \in Sessions : HeldBy(q)' =
             IF q = s THEN (HeldBy(s) \ Revoked(stale))
                              \cup Delivered(n, shape, SectionsOf(rows))
                      ELSE HeldBy(q)
      BY <1>1, <1>3, <2>2, <2>3, HeldAfter
    <2> QED BY <2>4, <2>5
  <1>10. Len(artifacts)' = n /\ artifacts' # << >>
    <2>1. PICK a : artifacts' = Append(artifacts, a)
      BY DEF Build, InsertArtifact
    <2> QED BY <1>1, <2>1 DEF TypeOK
  <1>11. (IF artifacts = << >> THEN [session |-> {}] ELSE PackOf(Len(artifacts)))' = pack
    BY <1>7, <1>10
  <1>12. [q \in Sessions |-> HeldBy(q)]' =
            [[q \in Sessions |-> HeldBy(q)] EXCEPT ![s] =
                (@ \ Revoked(stale)) \cup Delivered(n, shape, Told(diff \ dropped))]
    BY <1>9
  <1>13. /\ pack.session = s /\ pack.want = WantOf(shape) /\ pack.revoked = Revoked(stale)
         /\ pack.delivered = Told(diff \ dropped)
         /\ WantOf(shape) \in {WantOf(sh) : sh \in Shapes}
    BY <1>6 DEF Pack
  <1>14. Agent!Deliveries(pack, n) = Delivered(n, shape, Told(diff \ dropped))
    BY <1>13 DEF Agent!Deliveries, Delivered
  <1> QED BY <1>1, <1>8, <1>10, <1>11, <1>12, <1>13, <1>14 DEF Agent!Turn

\* The ledger's invariant, and that a pack sends a section once.
THEOREM AgentInvariance == LedgerSpec => []AgentInv
  <1>1. LedgerInit => SentOnce
    BY DEF LedgerInit, SentOnce
  <1>2. LedgerInv /\ SentOnce /\ [LedgerNext]_ledgerVars => SentOnce'
    <2>1. ASSUME LedgerInv, SentOnce, LedgerNext PROVE SentOnce'
      BY <2>1, SentOnceStep DEF LedgerNext, LedgerInv
    <2>2. ASSUME SentOnce, UNCHANGED ledgerVars PROVE SentOnce'
      BY <2>2 DEF ledgerVars, SentOnce
    <2> QED BY <2>1, <2>2
  <1> QED BY <1>1, <1>2, LedgerInvariance, PTL DEF LedgerSpec, AgentInv

\* The ledger implements what an agent is promised: every build, of any process and
\* in any order of clocks, is an honest turn of AgentContext.
THEOREM LedgerKeepsPromise == LedgerSpec => KeepsPromise
  <1>1. LedgerInit => Agent!AgentInit
    BY DEF LedgerInit, Agent!AgentInit, Agent!NoPack, HeldBy, ActiveSent
  <1>2. LedgerInv /\ SentOnce /\ LedgerNext => Agent!Turn
    BY BuildIsTurn DEF LedgerNext, LedgerInv
  <1>3. UNCHANGED ledgerVars => UNCHANGED Agent!agentVars
    BY DEF ledgerVars, Agent!agentVars, HeldBy, ActiveSent, Invalidated, Delivery, PackOf,
           SessionOf, SectionOf, ArtifactOf
  <1>4. LedgerInv /\ SentOnce /\ [LedgerNext]_ledgerVars => [Agent!Turn]_(Agent!agentVars)
    BY <1>2, <1>3
  <1> QED BY <1>1, <1>4, AgentInvariance, PTL DEF LedgerSpec, KeepsPromise, Agent!AgentSpec, AgentInv

----------------------------------------------------------------------------
(* What the next build takes for what the agent holds *)

\* What the budget drops of a pack is noted with the artifact.
LEMMA BuildDrops ==
    ASSUME TypeOK,
           NEW s \in Sessions, NEW shape \in Shapes, NEW at \in Clocks,
           NEW reset \in BOOLEAN,
           Build(s, shape, at, reset)
    PROVE  LET n    == Len(artifacts) + 1
               diff == DiffItems(n, shape, CurrentPrior(s, shape, reset))
           IN  \E kept \in SUBSET diff :
                  /\ packItems \cup kept \subseteq packItems'
                  /\ sent' = sent \cup SentRows(kept)
                  /\ \A i \in diff \ kept : i.section \in artifacts'[n].dropped
  <1> DEFINE n    == Len(artifacts) + 1
             diff == DiffItems(n, shape, CurrentPrior(s, shape, reset))
  <1>1. PICK dropped \in SUBSET Droppable(diff, shape) :
            /\ artifacts' = Append(artifacts,
                  [session |-> s, at |-> at, shape |-> shape, reset |-> reset,
                   dropped |-> {i.section : i \in dropped}])
            /\ packItems' = packItems
                  \cup InvalidationItems(n, StalePrior(s, shape, reset))
                  \cup (diff \ dropped)
            /\ sent' = sent \cup SentRows(diff \ dropped)
    BY DEF Build, InsertArtifact, InsertPackItems, InsertSentItems, InsertOmittedItems
  <1>2. artifacts \in Seq(Artifact)
    BY DEF TypeOK
  <1>3. artifacts'[n].dropped = {i.section : i \in dropped}
    BY <1>1, <1>2
  <1>4. \A i \in diff \ (diff \ dropped) : i.section \in artifacts'[n].dropped
    BY <1>3
  <1>5. packItems \cup (diff \ dropped) \subseteq packItems'
    BY <1>1
  <1> QED BY <1>1, <1>4, <1>5

\* A build makes no row stale that was not.
LEMMA FreshStays ==
    ASSUME TypeOK,
           NEW s \in Sessions, NEW shape \in Shapes, NEW at \in Clocks,
           NEW reset \in BOOLEAN,
           Build(s, shape, at, reset),
           NEW row \in sent, NEW other, ~Stale(row, other)
    PROVE  ~Stale(row, other)'
  <1>1. ArtifactOf(row)' = ArtifactOf(row) /\ SectionOf(row)' = SectionOf(row)
    <2>1. row.artifact \in ArtifactIds /\ \A k \in ArtifactIds : artifacts'[k] = artifacts[k]
      BY OldRows, BuildEffect
    <2> QED BY <2>1, RowsKeepArtifacts
  <1>2. HasPackRow(row) => HasPackRow(row)'
    <2>1. packItems \subseteq packItems'
      BY BuildRows
    <2> QED BY <2>1 DEF HasPackRow
  <1> QED BY <1>1, <1>2 DEF Stale, DependencyDrift

\* row is what the ledger holds of section x for session s, as a pack of shape had it.
Holds(row, s, x, shape) ==
    /\ row \in LatestActive(s)
    /\ row.section = x
    /\ SectionOf(row).content = shape.sections[x].content
    /\ ~Stale(row, shape)

\* The property by its rows.
LastPacksHeld ==
    \A s \in Sessions : \A n \in LastBuildOf(s) : \A shape : shape = artifacts[n].shape =>
        \A x \in (DOMAIN shape.sections) \ artifacts[n].dropped :
            \E row : Holds(row, s, x, shape)

\* It is the property.
LEMMA LastPackByRows == LedgerMatchesLastPack <=> LastPacksHeld
  BY DEF LedgerMatchesLastPack, LastPacksHeld, Holds

\* The same of the next state.
LEMMA NextLastPackByRows == LedgerMatchesLastPack' <=> LastPacksHeld'
  BY LastPackByRows, PTL

\* A session keeps what it holds while another one builds.
LEMMA OthersHold ==
    ASSUME TypeOK, InvalidationsStayInSession,
           NEW s \in Sessions, NEW shape \in Shapes, NEW at \in Clocks,
           NEW reset \in BOOLEAN,
           Build(s, shape, at, reset),
           NEW q \in Sessions \ {s}, NEW row, NEW x, NEW other, Holds(row, q, x, other)
    PROVE  Holds(row, q, x, other)'
  <1>1. PICK kept \in SUBSET DiffItems(Len(artifacts) + 1, shape, CurrentPrior(s, shape, reset)) :
            sent' = sent \cup SentRows(kept)
    BY BuildRows
  <1>2. \A r \in SentRows(kept) : r.artifact = Len(artifacts) + 1
    BY DiffItem DEF SentRows
  <1>3. ActiveSent(q)' = ActiveSent(q)
    BY <1>1, <1>2, ActiveAfter
  <1>4. \A r \in ActiveSent(q) : r \in sent /\ ArtifactOf(r)' = ArtifactOf(r)
    <2>1. \A k \in ArtifactIds : artifacts'[k] = artifacts[k]
      BY BuildEffect
    <2> QED BY <2>1, OldRows, RowsKeepArtifacts DEF ActiveSent
  <1>5. row \in LatestActive(q)' /\ row \in sent
    BY <1>3, <1>4 DEF Holds, LatestActive
  <1>6. SectionOf(row)' = SectionOf(row) /\ ~Stale(row, other)'
    BY <1>5, OldRows, FreshStays DEF Holds
  <1> QED BY <1>5, <1>6 DEF Holds

\* After a build whose clock is later than those before, the session holds each section
\* of its pack: the row that was sent with it, or the one on whose strength it was omitted.
LEMMA OwnPackHolds ==
    ASSUME LedgerInv,
           NEW s \in Sessions, NEW shape \in Shapes, NEW at \in Clocks,
           NEW reset \in BOOLEAN,
           Build(s, shape, at, reset),
           \A k \in ArtifactIds : artifacts[k].at < at,
           NEW x \in (DOMAIN shape.sections) \ artifacts'[Len(artifacts) + 1].dropped
    PROVE  \E row : Holds(row, s, x, shape)'
  <1> DEFINE n       == Len(artifacts) + 1
             current == CurrentPrior(s, shape, reset)
             diff    == DiffItems(n, shape, current)
  <1>1. TypeOK /\ InvalidationsStayInSession
    BY DEF LedgerInv
  <1>2. PICK kept \in SUBSET diff :
            /\ packItems \cup kept \subseteq packItems'
            /\ sent' = sent \cup SentRows(kept)
            /\ \A i \in diff \ kept : i.section \in artifacts'[n].dropped
    BY <1>1, BuildDrops
  <1>3. PICK i \in diff : i.section = x
    BY DiffCovers
  <1>4. i \in kept
    BY <1>2, <1>3
  <1>5. /\ \A k \in ArtifactIds : artifacts'[k] = artifacts[k]
        /\ artifacts'[n].session = s /\ artifacts'[n].shape = shape /\ artifacts'[n].at = at
    BY <1>1, BuildEffect
  <1>6. \A r \in SentRows(kept) : r.artifact = n
    BY DiffItem DEF SentRows
  <1>7. ActiveSent(s)' = (ActiveSent(s) \ StalePrior(s, shape, reset)) \cup SentRows(kept)
    BY <1>1, <1>2, <1>6, ActiveAfter
  <1>8. \A r \in ActiveSent(s) : /\ r \in sent /\ r.artifact \in ArtifactIds
                                 /\ ArtifactOf(r)' = ArtifactOf(r)
                                 /\ ArtifactOf(r).at < at
    <2>1. \A r \in ActiveSent(s) : r \in sent /\ r.artifact \in ArtifactIds
      BY <1>1, OldRows DEF ActiveSent
    <2> QED BY <1>5, <2>1, RowsKeepArtifacts DEF ArtifactOf
  <1>9. \A r \in SentRows(kept) : ArtifactOf(r)'.at = at
    BY <1>5, <1>6 DEF ArtifactOf
  <1>10. at \in Nat /\ \A k \in ArtifactIds : artifacts[k].at \in Nat
    BY <1>1, StoredArtifacts, ClocksAreNaturals DEF Artifact
  <1>11. CASE i.state \in SentStates
    <2> DEFINE row == [artifact |-> i.artifact, section |-> i.section, state |-> i.state]
    <2>1. row \in SentRows(kept) /\ row.artifact = n /\ row.section = x
      BY <1>3, <1>4, <1>11, DiffItem DEF SentRows
    <2> HIDE DEF row
    <2>2. ArtifactOf(row)'.at = at /\ ArtifactOf(row)'.shape = shape
      BY <1>5, <2>1 DEF ArtifactOf
    <2>3. \A r \in ActiveSent(s)' : ~(ArtifactOf(r)'.at > at)
      BY <1>7, <1>8, <1>9, <1>10 DEF ArtifactOf
    <2>4. row \in LatestActive(s)'
      BY <1>7, <2>1, <2>2, <2>3 DEF LatestActive
    <2>5. SectionOf(row)' = shape.sections[x] /\ ~Stale(row, shape)'
      BY <2>1, <2>2 DEF SectionOf, Stale
    <2> QED BY <2>1, <2>4, <2>5 DEF Holds
  <1>12. CASE i.state = "OMIT_UNCHANGED"
    <2> DEFINE row == i.previous
    <2>1. /\ row \in current /\ row.section = x
          /\ SectionOf(row).content = shape.sections[x].content
      BY <1>3, <1>12, DiffItem
    <2>2. row \in LatestActive(s) /\ row \notin StalePrior(s, shape, reset)
      BY <2>1 DEF CurrentPrior
    <2>3. row \in ActiveSent(s)' /\ row \in ActiveSent(s) /\ row \in sent
      BY <1>7, <1>8, <2>2 DEF LatestActive
    <2>4. \A r \in SentRows(kept) : r.section # x
      <3>1. \A j \in kept : j.section = x => j = i
        BY <1>3, DiffCovers
      <3>2. i.state \notin SentStates
        BY <1>12 DEF SentStates
      <3> QED BY <3>1, <3>2 DEF SentRows
    <2>5. \A r \in ActiveSent(s)' : r.section = x => ~(ArtifactOf(r)'.at > ArtifactOf(row)'.at)
      BY <1>7, <1>8, <2>1, <2>2, <2>3, <2>4 DEF LatestActive
    <2>6. row \in LatestActive(s)'
      BY <2>1, <2>3, <2>5 DEF LatestActive
    <2>7. ~Stale(row, shape)' /\ SectionOf(row)' = SectionOf(row)
      <3>1. ~Stale(row, shape)
        BY <2>2 DEF StalePrior
      <3> QED BY <1>1, <2>3, <3>1, FreshStays, OldRows
    <2> QED BY <2>1, <2>6, <2>7 DEF Holds
  <1> QED BY <1>11, <1>12, DiffItem

\* A build whose clock is later than those before keeps the property.
LEMMA LastPackStep ==
    ASSUME LedgerInv, LedgerMatchesLastPack,
           NEW s \in Sessions, NEW shape \in Shapes, NEW at \in Clocks,
           NEW reset \in BOOLEAN,
           Build(s, shape, at, reset),
           \A k \in ArtifactIds : artifacts[k].at < at
    PROVE  LedgerMatchesLastPack'
  <1>0. TypeOK /\ InvalidationsStayInSession
    BY DEF LedgerInv
  <1>1. PICK n \in Nat :
           /\ n = Len(artifacts) + 1
           /\ \A k \in ArtifactIds : artifacts'[k] = artifacts[k] /\ k < n
           /\ ArtifactIds' = ArtifactIds \cup {n}
           /\ artifacts'[n].session = s /\ artifacts'[n].shape = shape
    BY <1>0, BuildEffect
  <1>2. ASSUME NEW q \in Sessions, NEW k \in LastBuildOf(q)',
               NEW other, other = artifacts'[k].shape,
               NEW x \in (DOMAIN other.sections) \ artifacts'[k].dropped
        PROVE  \E row : Holds(row, q, x, other)'
    <2>1. /\ k \in ArtifactIds' /\ artifacts'[k].session = q
          /\ \A m \in ArtifactIds' : artifacts'[m].session = q => m \leq k
      BY <1>2 DEF LastBuildOf
    <2>2. CASE q = s
      <3>1. n \leq k /\ ArtifactIds \subseteq Nat
        BY <1>1, <2>1, <2>2 DEF ArtifactIds
      <3>2. k = n
        BY <1>1, <2>1, <3>1
      <3>3. other = shape /\ x \in (DOMAIN shape.sections) \ artifacts'[n].dropped
        BY <1>1, <1>2, <3>2
      <3>4. \E row : Holds(row, s, x, shape)'
        BY <1>1, <3>3, OwnPackHolds
      <3> QED BY <2>2, <3>3, <3>4
    <2>3. CASE q # s
      <3>1. k \in ArtifactIds
        BY <1>1, <2>1, <2>3
      <3>2. k \in LastBuildOf(q) /\ artifacts'[k] = artifacts[k]
        BY <1>1, <2>1, <3>1 DEF LastBuildOf
      <3>3. PICK row : Holds(row, q, x, other)
        BY <1>2, <3>2, LastPackByRows DEF LastPacksHeld
      <3>4. Holds(row, q, x, other)'
        BY <1>0, <2>3, <3>3, OthersHold
      <3> QED BY <3>4
    <2> QED BY <2>2, <2>3
  <1> QED BY <1>2, NextLastPackByRows DEF LastPacksHeld

\* Nothing else touches the ledger.
LEMMA LastPackKept ==
    ASSUME LedgerMatchesLastPack, UNCHANGED ledgerVars
    PROVE  LedgerMatchesLastPack'
  BY DEF ledgerVars, LedgerMatchesLastPack, LastBuildOf, ArtifactIds, LatestActive, ActiveSent,
         Invalidated, Stale, DependencyDrift, HasPackRow, SessionOf, SectionOf, ArtifactOf

\* Clocks that follow the number of builds.
InOrder == \A k \in ArtifactIds : artifacts[k].at \leq Len(artifacts)

\* Builds that commit in the order of their clocks leave each session with what its last
\* pack had: what the next build reads as held is what the agent was last told.
THEOREM LastPackIsHeld == InOrderSpec => []LedgerMatchesLastPack
  <1>1. LedgerInit => LedgerInv /\ InOrder /\ LedgerMatchesLastPack
    BY DEF LedgerInit, LedgerInv, TypeOK, SentSectionsExist, InvalidationsStayInSession,
           OmitBacked, InvalidateOnce, ArtifactIds, InOrder, LedgerMatchesLastPack, LastBuildOf
  <1>2. LedgerInv /\ InOrder /\ LedgerMatchesLastPack /\ [InOrderNext]_ledgerVars
           => InOrder' /\ LedgerMatchesLastPack'
    <2>1. ASSUME LedgerInv, InOrder, LedgerMatchesLastPack, InOrderNext
          PROVE  InOrder' /\ LedgerMatchesLastPack'
      <3>1. PICK s \in Sessions, shape \in Shapes, reset \in BOOLEAN, at \in Clocks :
                at = Len(artifacts) + 1 /\ Build(s, shape, at, reset)
        BY <2>1 DEF InOrderNext
      <3>2. /\ Len(artifacts) \in Nat /\ Len(artifacts') = Len(artifacts) + 1
            /\ ArtifactIds' = ArtifactIds \cup {at} /\ artifacts'[at].at = at
            /\ \A k \in ArtifactIds : artifacts'[k] = artifacts[k]
        <4>1. PICK a : artifacts' = Append(artifacts, a)
          BY <3>1 DEF Build, InsertArtifact
        <4>2. artifacts \in Seq(Artifact) /\ TypeOK
          BY <2>1 DEF LedgerInv, TypeOK
        <4>3. Len(artifacts) \in Nat /\ Len(artifacts') = Len(artifacts) + 1
          BY <4>1, <4>2
        <4> QED BY <3>1, <4>2, <4>3, BuildEffect
      <3>3. \A k \in ArtifactIds : artifacts[k].at \in Nat
        BY <2>1, StoredArtifacts, ClocksAreNaturals DEF LedgerInv, Artifact
      <3>4. \A k \in ArtifactIds : artifacts[k].at < at
        BY <2>1, <3>1, <3>2, <3>3 DEF InOrder
      <3>5. InOrder'
        BY <3>1, <3>2, <3>3, <3>4 DEF InOrder
      <3> QED BY <2>1, <3>1, <3>4, <3>5, LastPackStep
    <2>2. ASSUME InOrder, LedgerMatchesLastPack, UNCHANGED ledgerVars
          PROVE  InOrder' /\ LedgerMatchesLastPack'
      BY <2>2, LastPackKept DEF ledgerVars, InOrder, ArtifactIds
    <2> QED BY <2>1, <2>2
  <1>3. LedgerInv /\ [InOrderNext]_ledgerVars => LedgerInv'
    <2>1. InOrderNext => LedgerNext
      BY DEF InOrderNext, LedgerNext
    <2> QED BY <2>1, LedgerInvStep
  <1> QED BY <1>1, <1>2, <1>3, PTL DEF InOrderSpec
=============================================================================
