----------------------------- MODULE ClaimsProofs -----------------------------
(***************************************************************************)
(* Proofs about Claims, for every repository and every number of processes *)
(* that compile, run commands and record, interleaved at every statement.  *)
(*                                                                         *)
(* What a claim says was read where it says; whoever inserted a row, the   *)
(* others find it; and a claim holds for exactly the readers it was made   *)
(* for.  A process that died half way leaves rows that break none of it.   *)
(***************************************************************************)
EXTENDS Claims, TLAPS

CompilePhases ==
    {"read", "snapshot", "proofs", "excerpts", "rules", "conflicts", "symbols", "manifests"}

RunPhases == {"running", "ran", "recording", "candidate"}

CompileFields ==
    {"phase", "now", "tree", "request", "todo", "pairs", "stage", "inserted", "accepted",
     "existed"}

RunFields == {"phase", "tree", "id", "session", "run"}

Claimed == {claim.draft : claim \in claims}

Passes(d) == Gate(d.type, SourceOf(d), ProofOf(d), d.item)

FileTypes ==
    {"repository_source_excerpt_exists", "project_rule",
     "repository_symbol_declaration_exists", "package_manifest_dependency_exists"}

\* A draft of what was read in a file of the tree.
FileDraft(d, tree) ==
    d.type \in FileTypes /\ d.run = None /\ d.tree = tree /\ SaidBy(d, tree)

NextDraft(j) == CHOOSE d \in j.todo : TRUE

RulePair(pair) == \E a, b \in Claimed : a # b /\ pair = {a, b}

\* A promotion is at one of its drafts, whose earlier rows are there.
PromotionSound(p) ==
    /\ job[p].todo \subseteq job[p].accepted
    /\ job[p].stage \in {"proof", "claim", "attach"}
    /\ job[p].phase = "excerpts" => job[p].todo \subseteq proofs
    /\ job[p].todo # {} /\ job[p].stage # "proof" => NextDraft(job[p]) \in proofs
    /\ job[p].todo # {} /\ job[p].stage = "attach" => NextDraft(job[p]) \in Claimed

\* What a compile accepted was read in its tree, passed its gate, and is attached or
\* to be promoted in this phase.
CompileSound(p) ==
    /\ DOMAIN job[p] = CompileFields
    /\ job[p].tree \in DOMAIN Trees
    /\ job[p].request \in Requests
    /\ job[p].phase # "read" => job[p].tree \in snapshots
    /\ \A d \in job[p].accepted :
          /\ FileDraft(d, job[p].tree)
          /\ Passes(d)
          /\ d \in attached \cup job[p].todo
    /\ job[p].phase \notin Promoting => job[p].todo = {}
    /\ PromotionSound(p)
    /\ \A pair \in job[p].pairs : RulePair(pair)

\* What is about to be recorded is of a worktree its session was compiled in.
RunSound(p) ==
    /\ job[p].session \in Sessions
    /\ job[p].run \in RunKinds
    /\ job[p].id \in Nat
    /\ job[p].phase # "running" =>
          /\ DOMAIN job[p] = RunFields
          /\ job[p].tree \in DOMAIN Trees
    /\ job[p].phase \in {"recording", "candidate"} =>
          /\ job[p].tree \in snapshots
          /\ <<job[p].session, job[p].tree>> \in opened
    /\ job[p].phase = "candidate" => BuildAgentCandidateSource(job[p]) \in evidence

JobSound(p) ==
    \/ job[p] = Idle
    \/ job[p].phase \in CompilePhases /\ CompileSound(p)
    \/ job[p].phase \in RunPhases /\ RunSound(p)

JobsSound ==
    /\ DOMAIN job = Processes
    /\ \A p \in Processes : JobSound(p)

\* A file claim says what its file says; the claim of a run is stamped with the run.
ClaimSound(claim) ==
    /\ claim = [draft |-> claim.draft, env |-> claim.env]
    /\ IF claim.draft.run = None
       THEN SaidBy(claim.draft, claim.draft.tree)
       ELSE claim.draft.tree = claim.draft.run.tree /\ claim.env = None

ClaimsSound == ClaimsTypeOK /\ \A claim \in claims : ClaimSound(claim)

SessionsSound ==
    /\ DOMAIN sessions = Sessions
    /\ \A s \in Sessions : sessions[s] \in DOMAIN Trees \cup {None}
    /\ observed \subseteq Run
    /\ RunsFollowCompiles

Dated == {"contradicts", "violates"} \cup ClosingTypes

\* A conflict has one edge, between claims that are there; what counts by its date has
\* a date of its own.
EdgesSound ==
    /\ clock \in Nat
    /\ \A e \in edges : e.type \in ConflictEdgeTypes =>
          {e.from, e.to} \subseteq Claimed /\ e.of \in 0 .. clock
    /\ \A a, b \in edges : a.type \in ConflictEdgeTypes /\ SameEdge(a, b) => a = b
    /\ \A e \in edges : e.type \in Dated => e.at \in 1 .. clock
    /\ \A a, b \in edges : a.type \in Dated /\ b.type \in Dated /\ a.at = b.at => a = b

\* The result of a run is shown in the run's own session and worktree.
ShownRight(claim, reader) ==
    claim.draft.run # None =>
        /\ claim.draft.run.tree = reader.tree
        /\ claim.draft.run.session = reader.session

CompletedSound ==
    \A done \in completed :
        /\ \E tree \in DOMAIN Trees, request \in Requests : done.reader = Reader(tree, request)
        /\ \A d \in done.accepted :
              FileDraft(d, done.reader.tree) /\ Passes(d) /\ d \in attached
        /\ \A claim \in done.shown : ShownRight(claim, done.reader)

\* The inductive invariant.
ClaimsInv ==
    /\ ClaimsSound
    /\ SessionsSound
    /\ JobsSound
    /\ EdgesSound
    /\ CompletedSound

----------------------------------------------------------------------------
(* When a claim holds for a reader *)

\* A scope matches what is current only on its branch, at its commit and, for a reader
\* of a session, in that session or in all.
LEMMA ScopeMatches ==
    ASSUME NEW scope, NEW current, ResolveCurrentScope(scope, current) = "match"
    PROVE  /\ scope.branch = current.branch
           /\ scope.commit = current.commit
           /\ current.session # None => scope.session \in {None, current.session}
  BY DEF ResolveCurrentScope, Overall, RequiredDimension, SessionToCurrent, Compare

\* A reader is of a tree and of a session, both there.
LEMMA ReaderFields ==
    ASSUME NEW tree \in DOMAIN Trees, NEW request \in Requests
    PROVE  LET reader == Reader(tree, request) IN
           /\ reader.tree = tree /\ reader.tree # None
           /\ reader.session = request.session /\ reader.session # None
           /\ reader.env = request.env
           /\ reader.session \in Sessions
  BY NoneIsAbsent DEF Reader, Sessions

\* What an active claim has to have, one condition at a time.
LEMMA ActiveConditions ==
    ASSUME NEW claim, NEW reader, NEW blocked, IsActive(claim, reader, blocked)
    PROVE  /\ claim.draft \in attached
           /\ SourceHashesMatch(claim.draft, reader.tree) = "match"
           /\ DirtyScopeStatus(ScopeOf(claim), reader.tree) \in {"not_dirty", "match"}
           /\ ClaimPolicyStatus(claim.draft) = "allowed"
           /\ ScopeOf(claim).branch = Trees[reader.tree].branch
           /\ ScopeOf(claim).commit = Trees[reader.tree].commit
           /\ reader.session # None => ScopeOf(claim).session \in {None, reader.session}
  <1> DEFINE current == [branch |-> Trees[reader.tree].branch,
                         commit |-> Trees[reader.tree].commit,
                         environment |-> reader.env, flags |-> None,
                         packageRoot |-> reader.root, session |-> reader.session]
             candidate == ToCurrentValidCandidate(claim, reader, blocked)
  <1>1. /\ candidate.proofs # {}
        /\ candidate.sourceHash = "match"
        /\ candidate.dirtyScope \in {"not_dirty", "match"}
        /\ candidate.policy = "allowed"
        /\ candidate.scope = "match"
    BY DEF IsActive, CurrentValid
  <1>2. /\ candidate.proofs = {claim.draft} \cap attached
        /\ candidate.sourceHash = IF claim.draft \in attached
                                  THEN SourceHashesMatch(claim.draft, reader.tree)
                                  ELSE "unknown"
        /\ candidate.dirtyScope = DirtyScopeStatus(ScopeOf(claim), reader.tree)
        /\ candidate.policy = ClaimPolicyStatus(claim.draft)
        /\ candidate.scope = ResolveCurrentScope(ScopeOf(claim), current)
    BY DEF ToCurrentValidCandidate
  <1>3. /\ ScopeOf(claim).branch = current.branch
        /\ ScopeOf(claim).commit = current.commit
        /\ current.session # None => ScopeOf(claim).session \in {None, current.session}
    <2> HIDE DEF current, candidate
    <2> QED BY <1>1, <1>2, ScopeMatches
  <1> QED BY <1>1, <1>2, <1>3

\* An active file claim says what the reader's own file says: the hashes agree, so the
\* contents do, and so do branch and commit.
LEMMA ActiveFileClaim ==
    ASSUME NEW claim, NEW reader, NEW blocked,
           claim.draft.run = None, SaidBy(claim.draft, claim.draft.tree),
           IsActive(claim, reader, blocked)
    PROVE  SaidBy(claim.draft, reader.tree)
  <1> DEFINE d == claim.draft
  <1>1. /\ SourceHashesMatch(d, reader.tree) = "match"
        /\ ScopeOf(claim).branch = Trees[reader.tree].branch
        /\ ScopeOf(claim).commit = Trees[reader.tree].commit
    BY ActiveConditions
  <1>2. /\ d.ref \in DOMAIN Trees[reader.tree].files
        /\ Trees[reader.tree].files[d.ref] = SourceOf(d).hash
    BY <1>1 DEF SourceHashesMatch, Compare
  <1>3. SourceOf(d).hash = Trees[d.tree].files[d.ref]
    BY DEF SourceOf, FileSource
  <1>4. /\ Trees[d.tree].branch = Trees[reader.tree].branch
        /\ Trees[d.tree].commit = Trees[reader.tree].commit
    BY <1>1 DEF ScopeOf
  <1> QED BY <1>2, <1>3, <1>4 DEF SaidBy

\* An active claim of a run was seen by Grape itself, in the reader's own session and
\* worktree.
LEMMA ActiveRunClaim ==
    ASSUME NEW claim, NEW reader, NEW blocked,
           claim.draft.run # None, claim.draft.tree = claim.draft.run.tree,
           reader.session # None, claim.draft.run.session # None,
           IsActive(claim, reader, blocked)
    PROVE  /\ claim.draft.run.tree = reader.tree
           /\ claim.draft.run.session = reader.session
           /\ claim.draft.run.authority = "grape"
  <1> DEFINE d == claim.draft
  <1>1. /\ DirtyScopeStatus(ScopeOf(claim), reader.tree) \in {"not_dirty", "match"}
        /\ ClaimPolicyStatus(d) = "allowed"
        /\ ScopeOf(claim).session \in {None, reader.session}
    BY ActiveConditions
  <1>2. /\ ScopeOf(claim).session = d.run.session
        /\ ScopeOf(claim).sourceScope = "external"
        /\ ScopeOf(claim).worktree = d.tree
    BY DEF ScopeOf
  <1>3. d.tree = reader.tree
    BY <1>1, <1>2 DEF DirtyScopeStatus, RequiredDimension, Compare
  <1>4. SourceOf(d).trust = "trusted"
    BY <1>1 DEF ClaimPolicyStatus, EvaluateDurableClaimPolicy
  <1>5. d.run.authority = "grape"
    BY <1>4 DEF SourceOf, RunSource
  <1> QED BY <1>1, <1>2, <1>3, <1>5

\* A draft that passed the gate of its type meets the policy of its type.
LEMMA PassedPolicy ==
    ASSUME NEW d, d.type \in FileTypes, Passes(d)
    PROVE  EvaluateDurableClaimPolicy(PolicyDefaults(d.type), ProofOf(d), SourceOf(d))
  <1>1. CASE d.type = "repository_source_excerpt_exists"
    BY <1>1 DEF Passes, Gate, SourceExcerptClaimGate
  <1>2. CASE d.type = "project_rule"
    BY <1>2 DEF Passes, Gate, ProjectRuleClaimGate
  <1>3. CASE d.type = "repository_symbol_declaration_exists"
    BY <1>3 DEF Passes, Gate, SymbolDeclarationClaimGate
  <1>4. CASE d.type = "package_manifest_dependency_exists"
    BY <1>4 DEF Passes, Gate, PackageManifestDependencyClaimGate
  <1> QED BY <1>1, <1>2, <1>3, <1>4 DEF FileTypes

\* What was accepted in a tree and attached holds for a reader of that tree, unless the
\* environment, the package or an edge is in the way.
LEMMA AcceptedHolds ==
    ASSUME NEW claim, NEW tree \in DOMAIN Trees, NEW request \in Requests, NEW blocked,
           FileDraft(claim.draft, tree), Passes(claim.draft),
           claim.draft \in attached, claim.draft \notin blocked,
           claim.env = Reader(tree, request).env, claim.env # "unknown",
           PackageRootOf(claim.draft) \in {None, Reader(tree, request).root}
    PROVE  IsActive(claim, Reader(tree, request), blocked)
  <1> DEFINE d      == claim.draft
             reader == Reader(tree, request)
             scope  == ScopeOf(claim)
             current == [branch |-> Trees[reader.tree].branch,
                         commit |-> Trees[reader.tree].commit,
                         environment |-> reader.env, flags |-> None,
                         packageRoot |-> reader.root, session |-> reader.session]
             candidate == ToCurrentValidCandidate(claim, reader, blocked)
  <1>1. /\ reader.tree = tree /\ tree # None /\ reader.session # None
        /\ d.run = None /\ d.tree = tree /\ SaidBy(d, tree)
    BY ReaderFields DEF FileDraft
  <1>2. SourceHashesMatch(d, reader.tree) = "match"
    BY <1>1 DEF SourceHashesMatch, SaidBy, SourceOf, FileSource, Compare
  <1>3. Compare(ProofOf(d).excerpt, d.item) = "match"
    BY DEF Compare, ProofOf
  <1>4. SourceOf(d).privacy = "allowed"
    BY <1>1 DEF SourceOf, FileSource
  <1>5. DirtyScopeStatus(scope, reader.tree) \in {"not_dirty", "match"}
    BY <1>1 DEF DirtyScopeStatus, ScopeOf, SourceScopeForPath, RequiredDimension, Compare
  <1>6. ClaimPolicyStatus(d) = "allowed"
    BY PassedPolicy DEF ClaimPolicyStatus, FileDraft
  <1>7. ResolveCurrentScope(scope, current) = "match"
    <2>1. /\ scope.branch = current.branch /\ current.branch # None
          /\ scope.commit = current.commit /\ current.commit # None
      BY <1>1, NoneIsAbsent DEF ScopeOf
    <2>2. /\ scope.environment = current.environment
          /\ scope.environment # "unknown"
          /\ scope.flags = None /\ current.flags = None
          /\ scope.session = None /\ current.session # None
          /\ scope.packageRoot \in {None, current.packageRoot}
      BY <1>1 DEF ScopeOf
    <2> HIDE DEF scope, current
    <2>3. /\ RequiredDimension(scope.branch, current.branch) = "match"
          /\ RequiredDimension(scope.commit, current.commit) = "match"
      BY <2>1 DEF RequiredDimension, Compare
    <2>4. EnvironmentDimension(scope.environment, current.environment)
            \in {"match", "not_applicable"}
      BY <2>2 DEF EnvironmentDimension, RequiredDimension, Compare
    <2>5. /\ FlagsDimension(scope.flags, current.flags) = "not_applicable"
          /\ SessionToCurrent(scope.session, current.session) = "not_applicable"
      BY <2>2 DEF FlagsDimension, SessionToCurrent
    <2>6. PackageToCurrent(scope.packageRoot, current.packageRoot)
            \in {"match", "not_applicable"}
      BY <2>2 DEF PackageToCurrent, RequiredDimension, Compare
    <2> QED BY <2>2, <2>3, <2>4, <2>5, <2>6 DEF ResolveCurrentScope, Overall
  <1>8. /\ candidate.verification = "verified"
        /\ candidate.proofs = {d} \cap attached
        /\ candidate.sourceHash = IF d \in attached
                                  THEN SourceHashesMatch(d, reader.tree) ELSE "unknown"
        /\ candidate.proofHash = IF d \in attached
                                 THEN Compare(ProofOf(d).excerpt, d.item) ELSE "unknown"
        /\ candidate.contradicted = (d \in blocked)
        /\ candidate.privacy = SourceOf(d).privacy
        /\ candidate.dirtyScope = DirtyScopeStatus(scope, reader.tree)
        /\ candidate.policy = ClaimPolicyStatus(d)
        /\ candidate.scope = ResolveCurrentScope(scope, current)
    BY DEF ToCurrentValidCandidate
  <1> HIDE DEF candidate, scope, current, reader
  <1>9. CurrentValid(candidate)
    BY <1>2, <1>3, <1>4, <1>5, <1>6, <1>7, <1>8 DEF CurrentValid
  <1> QED BY <1>9 DEF IsActive, candidate, reader

----------------------------------------------------------------------------
(* Rows are inserted or left as they were *)

Step(p) == CompileStep(p) \/ RunStep(p)

World == ResolveLocalConflict \/ ForeignEdge \/ Switch

Grows ==
    /\ snapshots \subseteq snapshots'
    /\ observed \subseteq observed'
    /\ evidence \subseteq evidence'
    /\ proofs \subseteq proofs'
    /\ attached \subseteq attached'
    /\ claims \subseteq claims'
    /\ opened \subseteq opened'

\* Nothing a step does takes a row away.
LEMMA StepGrows ==
    ASSUME NEW p \in Processes, Step(p)
    PROVE  Grows
  <1> USE DEF stored, reported, Grows
  <1>1. CASE StartCompile(p) \/ FindConflicts(p) \/ StartRun(p) \/ ReadAfterRun(p)
                \/ RequestLocalUserConfirmation(p) \/ PersistProjectRuleClaims(p)
                \/ PersistSymbolDeclarationClaims(p)
                \/ PersistPackageManifestDependencyClaims(p)
    <2>1. UNCHANGED stored
      BY <1>1 DEF StartCompile, FindConflicts, StartRun, ReadAfterRun,
                  RequestLocalUserConfirmation, PersistProjectRuleClaims,
                  PersistSymbolDeclarationClaims, PersistPackageManifestDependencyClaims
    <2> QED BY <2>1
  <1>2. CASE PersistGitRepoSnapshot(p) \/ InsertConflict(p)
                \/ WithCurrentLocalContextSession(p) \/ AgentCandidateSource(p)
                \/ RecordLocalCandidate(p) \/ RecordLocalUserDecision(p)
                \/ RecordLinkedCandidate(p)
    BY <1>2 DEF PersistGitRepoSnapshot, InsertConflict, WithCurrentLocalContextSession,
                AgentCandidateSource, RecordLocalCandidate, RecordLocalUserDecision,
                RecordLinkedCandidate
  <1>3. CASE EnsureCompileSession(p) \/ BuildWithClaims(p)
    BY <1>3 DEF EnsureCompileSession, BuildWithClaims, StandAt
  <1>4. CASE PrepareLocalCompileProofs(p)
    BY <1>4 DEF PrepareLocalCompileProofs
  <1>5. CASE Promote(p)
    BY <1>5 DEF Promote, InsertProof, InsertClaim, AttachProofToClaim
  <1>6. CASE RecordObservation(p)
    BY <1>6 DEF RecordObservation, PersistObservedTestFailureRelations
  <1> QED BY <1>1, <1>2, <1>3, <1>4, <1>5, <1>6 DEF Step, CompileStep, RunStep

\* The worktree and the edges may change under a command; its rows do not.
LEMMA WorldGrows ==
    ASSUME World
    PROVE  /\ Grows /\ UNCHANGED <<snapshots, sessions, observed, reported, proofs,
                                   attached, claims, job, opened, completed>>
  BY DEF World, ResolveLocalConflict, ForeignEdge, Switch, stored, reported, Grows

\* The other processes' jobs are as sound as before.
LEMMA OtherJob ==
    ASSUME Grows, NEW q \in Processes, job'[q] = job[q], JobSound(q)
    PROVE  JobSound(q)'
  <1>1. Claimed \subseteq Claimed'
    BY DEF Grows, Claimed
  <1>2. ASSUME CompileSound(q) PROVE CompileSound(q)'
    <2>1. PromotionSound(q) => PromotionSound(q)'
      BY <1>1 DEF PromotionSound, Grows, NextDraft
    <2>2. \A pair \in job[q].pairs : RulePair(pair)'
      BY <1>1, <1>2 DEF CompileSound, RulePair
    <2> QED BY <1>2, <2>1, <2>2 DEF CompileSound, Grows
  <1>3. ASSUME RunSound(q) PROVE RunSound(q)'
    BY <1>3 DEF RunSound, Grows, BuildAgentCandidateSource, ReportedSource
  <1> QED BY <1>2, <1>3 DEF JobSound

----------------------------------------------------------------------------
(* The steps of a process, as its own job sees them *)

\* The drafts of a file say what the file says.
LEMMA DraftsOfFiles ==
    ASSUME NEW tree \in DOMAIN Trees, NEW ref \in DOMAIN Trees[tree].files
    PROVE  /\ FileDraft(ExcerptDraft(tree, ref), tree)
           /\ \A d \in RuleDrafts(tree, ref) : FileDraft(d, tree)
           /\ \A d \in SymbolDrafts(tree, ref) : FileDraft(d, tree)
           /\ \A d \in DependencyDrafts(tree, ref) : FileDraft(d, tree)
  <1>1. FileDraft(ExcerptDraft(tree, ref), tree)
    BY DEF ExcerptDraft, Draft, FileDraft, FileTypes, SaidBy
  <1>2. ASSUME NEW d \in RuleDrafts(tree, ref) PROVE FileDraft(d, tree)
    BY DEF RuleDrafts, Draft, FileDraft, FileTypes, SaidBy
  <1>3. ASSUME NEW d \in SymbolDrafts(tree, ref) PROVE FileDraft(d, tree)
    BY DEF SymbolDrafts, SymbolsCoveredByExcerpts, Draft, FileDraft, FileTypes, SaidBy
  <1>4. ASSUME NEW d \in DependencyDrafts(tree, ref) PROVE FileDraft(d, tree)
    BY DEF DependencyDrafts, Draft, FileDraft, FileTypes, SaidBy
  <1> QED BY <1>1, <1>2, <1>3, <1>4

\* Going on with drafts that were read in the tree keeps the compile sound.
LEMMA EnterSound ==
    ASSUME DOMAIN job = Processes, NEW p \in Processes, Grows,
           CompileSound(p), job[p].phase # "read", job[p].todo = {},
           NEW phase \in Promoting, NEW drafts,
           \A d \in drafts : FileDraft(d, job[p].tree),
           Enter(p, phase, Accepted(drafts)),
           phase = "excerpts" => drafts \subseteq proofs'
    PROVE  JobSound(p)'
  <1> DEFINE new == Accepted(drafts)
  <1>1. /\ DOMAIN job'[p] = CompileFields
        /\ job'[p].phase = phase
        /\ job'[p].todo = new
        /\ job'[p].stage = IF phase = "excerpts" THEN "claim" ELSE "proof"
        /\ job'[p].accepted = job[p].accepted \cup new
        /\ job'[p].tree = job[p].tree
        /\ job'[p].request = job[p].request
        /\ job'[p].pairs = job[p].pairs
    BY DEF Enter, CompileSound, CompileFields
  <1>2. \A d \in new : d \in drafts /\ Passes(d)
    BY DEF Accepted, Passes
  <1> HIDE DEF new
  <1>3. \A d \in job'[p].accepted :
            /\ FileDraft(d, job'[p].tree)
            /\ Passes(d)
            /\ d \in attached' \cup job'[p].todo
    BY <1>1, <1>2 DEF CompileSound, Grows
  <1>4. PromotionSound(p)'
    <2>1. new # {} => NextDraft(job'[p]) \in new
      BY <1>1 DEF NextDraft
    <2>2. phase = "excerpts" => new \subseteq proofs'
      BY <1>2
    <2> QED BY <1>1, <2>1, <2>2 DEF PromotionSound
  <1>5. \A pair \in job'[p].pairs : RulePair(pair)'
    BY <1>1 DEF CompileSound, RulePair, Grows, Claimed
  <1>6. CompileSound(p)'
    BY <1>1, <1>3, <1>4, <1>5 DEF CompileSound, Grows
  <1> QED BY <1>1, <1>6 DEF JobSound, Promoting, CompilePhases

\* A job in a phase of a compile is a sound compile, one in a phase of a run a run.
LEMMA JobKind ==
    ASSUME JobsSound, NEW p \in Processes
    PROVE  /\ job[p].phase \in CompilePhases => CompileSound(p)
           /\ job[p].phase \in RunPhases => RunSound(p)
  BY DEF JobsSound, JobSound, Idle, CompilePhases, RunPhases

\* Phases a compile may promote from.
LEMMA PhaseNames ==
    /\ Promoting \subseteq CompilePhases
    /\ {"read", "snapshot", "proofs", "conflicts"} \subseteq CompilePhases
    /\ {"read", "snapshot", "proofs", "conflicts"} \cap Promoting = {}
  BY DEF Promoting, CompilePhases

\* One statement of a promotion leaves the rest to be promoted, and its rows behind.
LEMMA PromoteSound ==
    ASSUME JobsSound, NEW p \in Processes, Promote(p)
    PROVE  JobSound(p)'
  <1> DEFINE draft == NextDraft(job[p])
  <1>1. /\ DOMAIN job = Processes /\ job[p].phase \in Promoting /\ job[p].todo # {}
        /\ CompileSound(p) /\ PromotionSound(p)
    BY JobKind, PhaseNames DEF Promote, CompileSound, JobsSound
  <1>2. Grows
    BY StepGrows DEF Step, CompileStep
  <1>3. draft \in job[p].todo
    BY <1>1 DEF NextDraft
  <1>4. \A pair : RulePair(pair) => RulePair(pair)'
    BY <1>2 DEF RulePair, Grows, Claimed
  <1>5. ASSUME /\ DOMAIN job'[p] = CompileFields
               /\ job'[p].phase = job[p].phase
               /\ job'[p].tree = job[p].tree
               /\ job'[p].request = job[p].request
               /\ job'[p].accepted = job[p].accepted
               /\ job'[p].pairs = job[p].pairs,
               job'[p].todo \subseteq job[p].todo,
               \A d \in job[p].todo : d \in attached' \cup job'[p].todo,
               PromotionSound(p)'
        PROVE  JobSound(p)'
    <2>1. CompileSound(p)'
      BY <1>1, <1>2, <1>4, <1>5 DEF CompileSound, Grows
    <2> QED BY <1>1, <1>5, <2>1, PhaseNames DEF JobSound
  <1>6. CASE /\ job[p].stage = "proof"
             /\ InsertProof(draft)
             /\ job' = [job EXCEPT ![p].stage = "claim"]
    <2>1. /\ DOMAIN job'[p] = CompileFields /\ job'[p].stage = "claim"
          /\ job'[p].phase = job[p].phase /\ job'[p].todo = job[p].todo
          /\ job'[p].tree = job[p].tree /\ job'[p].request = job[p].request
          /\ job'[p].accepted = job[p].accepted /\ job'[p].pairs = job[p].pairs
      BY <1>1, <1>6 DEF CompileSound, CompileFields
    <2>2. NextDraft(job'[p]) \in proofs'
      BY <1>6, <2>1 DEF NextDraft, InsertProof
    <2>3. PromotionSound(p)'
      BY <1>1, <1>2, <2>1, <2>2 DEF PromotionSound, Grows
    <2> QED BY <1>5, <2>1, <2>3
  <1>7. CASE /\ job[p].stage = "claim"
             /\ InsertClaim(draft, job[p].request.env)
             /\ job' = [job EXCEPT ![p].stage = "attach",
                                   ![p].inserted = ~\E c \in claims : c.draft = draft]
    <2>1. /\ DOMAIN job'[p] = CompileFields /\ job'[p].stage = "attach"
          /\ job'[p].phase = job[p].phase /\ job'[p].todo = job[p].todo
          /\ job'[p].tree = job[p].tree /\ job'[p].request = job[p].request
          /\ job'[p].accepted = job[p].accepted /\ job'[p].pairs = job[p].pairs
      BY <1>1, <1>7 DEF CompileSound, CompileFields
    <2>2. NextDraft(job'[p]) = draft /\ draft \in proofs
      BY <1>1, <1>7, <2>1 DEF NextDraft, PromotionSound
    <2>3. draft \in Claimed'
      <3> HIDE DEF draft
      <3>1. CASE \E c \in claims : c.draft = draft
        BY <1>2, <3>1 DEF Grows, Claimed
      <3>2. CASE ~\E c \in claims : c.draft = draft
        <4> DEFINE row == [draft |-> draft, env |-> job[p].request.env]
        <4>1. row \in claims' /\ row.draft = draft
          BY <1>7, <3>2 DEF InsertClaim
        <4> HIDE DEF row
        <4> QED BY <4>1 DEF Claimed
      <3> QED BY <3>1, <3>2
    <2>4. PromotionSound(p)'
      BY <1>1, <1>2, <2>1, <2>2, <2>3 DEF PromotionSound, Grows
    <2> QED BY <1>5, <2>1, <2>4
  <1>8. CASE /\ job[p].stage = "attach"
             /\ AttachProofToClaim(draft, job[p].inserted)
             /\ job' = [job EXCEPT
                          ![p].todo = @ \ {draft},
                          ![p].stage = IF job[p].phase = "excerpts" THEN "claim" ELSE "proof"]
    <2>1. /\ DOMAIN job'[p] = CompileFields /\ job'[p].todo = job[p].todo \ {draft}
          /\ job'[p].stage = IF job[p].phase = "excerpts" THEN "claim" ELSE "proof"
          /\ job'[p].phase = job[p].phase
          /\ job'[p].tree = job[p].tree /\ job'[p].request = job[p].request
          /\ job'[p].accepted = job[p].accepted /\ job'[p].pairs = job[p].pairs
      BY <1>1, <1>8 DEF CompileSound, CompileFields
    <2>2. draft \in attached'
      BY <1>8 DEF AttachProofToClaim
    <2>3. job'[p].todo # {} => NextDraft(job'[p]) \in job[p].todo
      BY <2>1 DEF NextDraft
    <2>4. PromotionSound(p)'
      BY <1>1, <1>2, <2>1, <2>3 DEF PromotionSound, Grows
    <2> QED BY <1>5, <2>1, <2>2, <2>4
  <1> QED BY <1>6, <1>7, <1>8 DEF Promote, NextDraft

\* The rules that oppose each other are two, and both are claimed.
LEMMA ConflictsAreOfTwo ==
    ASSUME NEW pair \in DetectProjectRuleConflicts
    PROVE  RulePair(pair)
  <1>1. PICK a, b \in pair : pair = {a, b} /\ RulesConflict(a.item, b.item)
    BY DEF DetectProjectRuleConflicts
  <1>2. pair \subseteq Claimed
    BY DEF DetectProjectRuleConflicts, RuleClaims, Claimed
  <1>3. a # b
    BY <1>1 DEF RulesConflict
  <1> QED BY <1>1, <1>2, <1>3 DEF RulePair

\* The other steps of a compile.
LEMMA CompileJobStep ==
    ASSUME ClaimsInv, NEW p \in Processes, CompileStep(p)
    PROVE  JobSound(p)'
  <1>1. JobsSound /\ DOMAIN job = Processes /\ Grows
    BY StepGrows DEF ClaimsInv, JobsSound, Step
  <1>2. CASE StartCompile(p)
    <2>1. PICK request \in Requests :
              job'[p] = [phase |-> "read", now |-> clock + 1, tree |-> work,
                         request |-> request, existed |-> FALSE, todo |-> {}, pairs |-> {},
                         stage |-> "proof", inserted |-> FALSE, accepted |-> {}]
      BY <1>1, <1>2 DEF StartCompile
    <2>2. work \in DOMAIN Trees
      BY DEF ClaimsInv, ClaimsSound, ClaimsTypeOK
    <2>3. CompileSound(p)'
      BY <2>1, <2>2 DEF CompileSound, CompileFields, PromotionSound
    <2> QED BY <2>1, <2>3 DEF JobSound, CompilePhases
  <1>3. CASE PersistGitRepoSnapshot(p) \/ EnsureCompileSession(p)
    <2>1. job[p].phase \in {"read", "snapshot"} /\ CompileSound(p)
      BY <1>1, <1>3, JobKind, PhaseNames DEF PersistGitRepoSnapshot, EnsureCompileSession
    <2>2. \E phase \in {"snapshot", "proofs"} : job' = [job EXCEPT ![p].phase = phase]
      BY <1>3 DEF PersistGitRepoSnapshot, EnsureCompileSession
    <2>3. /\ DOMAIN job'[p] = CompileFields /\ job'[p].phase \in {"snapshot", "proofs"}
          /\ job'[p].tree = job[p].tree /\ job'[p].request = job[p].request
          /\ job'[p].todo = job[p].todo /\ job'[p].pairs = job[p].pairs
          /\ job'[p].stage = job[p].stage /\ job'[p].accepted = job[p].accepted
      BY <1>1, <2>1, <2>2 DEF CompileSound, CompileFields
    <2>4. job[p].todo = {} /\ job[p].tree \in snapshots'
      BY <1>3, <2>1, PhaseNames
         DEF CompileSound, PersistGitRepoSnapshot, EnsureCompileSession
    <2>5. PromotionSound(p)'
      BY <2>1, <2>3, <2>4 DEF PromotionSound, CompileSound
    <2>6. \A pair \in job[p].pairs : RulePair(pair)'
      BY <1>1, <2>1 DEF CompileSound, RulePair, Grows, Claimed
    <2>7. CompileSound(p)'
      BY <1>1, <2>1, <2>3, <2>4, <2>5, <2>6 DEF CompileSound, Grows
    <2> QED BY <2>3, <2>7, PhaseNames DEF JobSound
  <1>4. CASE PrepareLocalCompileProofs(p)
    <2> DEFINE refs == SelectedExactSources(job[p].tree, job[p].request.selected)
               drafts == {ExcerptDraft(job[p].tree, ref) : ref \in ExcerptRefs(job[p].tree, refs)}
    <2>1. /\ job[p].phase = "proofs" /\ CompileSound(p)
          /\ proofs' = proofs \cup drafts /\ Enter(p, "excerpts", Accepted(drafts))
      BY <1>1, <1>4, JobKind, PhaseNames DEF PrepareLocalCompileProofs
    <2>2. \A d \in drafts : FileDraft(d, job[p].tree)
      BY <2>1, DraftsOfFiles DEF CompileSound, ExcerptRefs, ReadableRefs
    <2>3. job[p].todo = {} /\ "excerpts" \in Promoting /\ drafts \subseteq proofs'
      BY <2>1, PhaseNames DEF CompileSound, Promoting
    <2> HIDE DEF drafts
    <2> QED BY <1>1, <2>1, <2>2, <2>3, EnterSound
  <1>5. CASE Promote(p)
    BY <1>1, <1>5, PromoteSound
  <1>6. ASSUME CompileSound(p)
        PROVE  \A ref \in ExcerptedRefs(job[p]) : ref \in DOMAIN Trees[job[p].tree].files
    BY <1>6 DEF ExcerptedRefs, CompileSound, FileDraft, SaidBy
  <1>7. CASE PersistProjectRuleClaims(p)
    <2> DEFINE rules == UNION {RuleDrafts(job[p].tree, ref) :
                           ref \in {r \in ExcerptedRefs(job[p]) : RefTypes[r] = "rule_file"}}
    <2>1. /\ job[p].phase = "excerpts" /\ job[p].todo = {} /\ CompileSound(p)
          /\ Enter(p, "rules", Accepted(rules)) /\ "rules" \in Promoting
      BY <1>1, <1>7, JobKind, PhaseNames DEF PersistProjectRuleClaims, Promoting
    <2>2. \A d \in rules : FileDraft(d, job[p].tree)
      BY <1>6, <2>1, DraftsOfFiles DEF CompileSound
    <2> HIDE DEF rules
    <2> QED BY <1>1, <2>1, <2>2, EnterSound
  <1>8. CASE PersistSymbolDeclarationClaims(p)
    <2> DEFINE symbols == UNION {SymbolDrafts(job[p].tree, ref) : ref \in ExcerptedRefs(job[p])}
    <2>1. /\ job[p].phase = "conflicts" /\ CompileSound(p)
          /\ Enter(p, "symbols", Accepted(symbols)) /\ "symbols" \in Promoting
      BY <1>1, <1>8, JobKind, PhaseNames DEF PersistSymbolDeclarationClaims, Promoting
    <2>2. job[p].todo = {}
      BY <2>1, PhaseNames DEF CompileSound
    <2>3. \A d \in symbols : FileDraft(d, job[p].tree)
      BY <1>6, <2>1, DraftsOfFiles DEF CompileSound
    <2> HIDE DEF symbols
    <2> QED BY <1>1, <2>1, <2>2, <2>3, EnterSound
  <1>9. CASE PersistPackageManifestDependencyClaims(p)
    <2> DEFINE manifests == {ref \in ReadableRefs(job[p].tree, DOMAIN Trees[job[p].tree].files) :
                               RefTypes[ref] = "config_file"}
               entries == UNION {DependencyDrafts(job[p].tree, ref) : ref \in manifests}
    <2>1. /\ job[p].phase = "symbols" /\ job[p].todo = {} /\ CompileSound(p)
          /\ Enter(p, "manifests", Accepted(entries)) /\ "manifests" \in Promoting
      BY <1>1, <1>9, JobKind, PhaseNames DEF PersistPackageManifestDependencyClaims, Promoting
    <2>2. \A d \in entries : FileDraft(d, job[p].tree)
      BY <2>1, DraftsOfFiles DEF CompileSound, ReadableRefs
    <2> HIDE DEF entries
    <2> QED BY <1>1, <2>1, <2>2, EnterSound
  <1>10. ASSUME CompileSound(p), NEW phase \in {"conflicts"}, NEW pairs,
                DOMAIN job'[p] = CompileFields,
                job'[p].phase = phase, job'[p].pairs = pairs,
                job[p].phase # "read", job[p].todo = {},
                job'[p].tree = job[p].tree, job'[p].request = job[p].request,
                job'[p].todo = job[p].todo, job'[p].stage = job[p].stage,
                job'[p].accepted = job[p].accepted,
                \A pair \in pairs : RulePair(pair)
         PROVE  JobSound(p)'
    <2>1. PromotionSound(p)'
      BY <1>10 DEF PromotionSound, CompileSound
    <2>2. \A pair \in job'[p].pairs : RulePair(pair)'
      BY <1>1, <1>10 DEF RulePair, Grows, Claimed
    <2>3. CompileSound(p)'
      BY <1>1, <1>10, <2>1, <2>2 DEF CompileSound, Grows
    <2> QED BY <1>10, <2>3, PhaseNames DEF JobSound
  <1>11. CASE FindConflicts(p)
    <2>1. /\ job[p].phase = "rules" /\ job[p].todo = {} /\ CompileSound(p)
          /\ job' = [job EXCEPT ![p].phase = "conflicts",
                                ![p].pairs = DetectProjectRuleConflicts]
      BY <1>1, <1>11, JobKind, PhaseNames DEF FindConflicts, Promoting
    <2>2. /\ DOMAIN job'[p] = CompileFields /\ job'[p].phase = "conflicts"
          /\ job'[p].pairs = DetectProjectRuleConflicts
          /\ job'[p].tree = job[p].tree /\ job'[p].request = job[p].request
          /\ job'[p].todo = job[p].todo /\ job'[p].stage = job[p].stage
          /\ job'[p].accepted = job[p].accepted
      BY <1>1, <2>1 DEF CompileSound, CompileFields
    <2> QED BY <1>10, <2>1, <2>2, ConflictsAreOfTwo
  <1>12. CASE InsertConflict(p)
    <2>1. /\ job[p].phase = "conflicts" /\ CompileSound(p)
          /\ \E pair : job' = [job EXCEPT ![p].pairs = @ \ {pair}]
      BY <1>1, <1>12, JobKind, PhaseNames DEF InsertConflict
    <2>2. /\ DOMAIN job'[p] = CompileFields /\ job'[p].phase = "conflicts"
          /\ job'[p].pairs \subseteq job[p].pairs
          /\ job'[p].tree = job[p].tree /\ job'[p].request = job[p].request
          /\ job'[p].todo = job[p].todo /\ job'[p].stage = job[p].stage
          /\ job'[p].accepted = job[p].accepted
      BY <1>1, <2>1 DEF CompileSound, CompileFields
    <2>3. job[p].todo = {} /\ \A pair \in job[p].pairs : RulePair(pair)
      BY <2>1, PhaseNames DEF CompileSound
    <2> QED BY <1>10, <2>1, <2>2, <2>3
  <1>13. CASE BuildWithClaims(p)
    BY <1>1, <1>13 DEF BuildWithClaims, JobSound
  <1> QED BY <1>2, <1>3, <1>4, <1>5, <1>7, <1>8, <1>9, <1>11, <1>12, <1>13 DEF CompileStep

\* A run goes on only while its session stands at the worktree that was read.
LEMMA RunJobStep ==
    ASSUME ClaimsInv, NEW p \in Processes, RunStep(p)
    PROVE  JobSound(p)'
  <1>1. JobsSound /\ DOMAIN job = Processes /\ Grows
    BY StepGrows DEF ClaimsInv, JobsSound, Step
  <1>2. CASE StartRun(p)
    <2>1. PICK session \in Sessions, kind \in RunKinds :
              job'[p] = [phase |-> "running", session |-> session, run |-> kind,
                         id |-> clock + 1]
      BY <1>1, <1>2 DEF StartRun
    <2>2. clock \in Nat
      BY DEF ClaimsInv, EdgesSound
    <2>3. RunSound(p)'
      BY <2>1, <2>2 DEF RunSound
    <2> QED BY <2>1, <2>3 DEF JobSound, RunPhases
  <1>3. CASE ReadAfterRun(p)
    <2>1. job[p].phase = "running" /\ RunSound(p)
      BY <1>1, <1>3, JobKind DEF ReadAfterRun, RunPhases
    <2>2. job'[p] = [phase |-> "ran", tree |-> work, id |-> job[p].id,
                     session |-> job[p].session, run |-> job[p].run]
      BY <1>1, <1>3 DEF ReadAfterRun
    <2>3. work \in DOMAIN Trees
      BY DEF ClaimsInv, ClaimsSound, ClaimsTypeOK
    <2>4. RunSound(p)'
      BY <2>1, <2>2, <2>3 DEF RunSound, RunFields
    <2> QED BY <2>2, <2>4 DEF JobSound, RunPhases
  <1>4. CASE WithCurrentLocalContextSession(p)
    <2>1. job[p].phase = "ran" /\ RunSound(p)
      BY <1>1, <1>4, JobKind DEF WithCurrentLocalContextSession, RunPhases
    <2>2. CASE ~SessionIsCurrent(job[p].session, job[p].tree)
      BY <1>1, <1>4, <2>2 DEF WithCurrentLocalContextSession, JobSound
    <2>3. CASE SessionIsCurrent(job[p].session, job[p].tree)
      <3>1. job' = [job EXCEPT ![p].phase = "recording"]
        BY <1>4, <2>3 DEF WithCurrentLocalContextSession
      <3>2. /\ DOMAIN job'[p] = RunFields /\ job'[p].phase = "recording"
            /\ job'[p].tree = job[p].tree /\ job'[p].session = job[p].session
            /\ job'[p].run = job[p].run /\ job'[p].id = job[p].id
        BY <1>1, <2>1, <3>1 DEF RunSound, RunFields
      <3>3. job[p].tree \in snapshots'
        BY <1>4 DEF WithCurrentLocalContextSession
      <3>4. <<job[p].session, job[p].tree>> \in opened
        BY <2>1, <2>3, NoneIsAbsent
           DEF RunSound, SessionIsCurrent, ClaimsInv, ClaimsSound, ClaimsTypeOK
      <3>5. RunSound(p)'
        BY <1>1, <2>1, <3>2, <3>3, <3>4 DEF RunSound, Grows
      <3> QED BY <3>2, <3>5 DEF JobSound, RunPhases
    <2> QED BY <2>2, <2>3
  <1>5. CASE AgentCandidateSource(p)
    <2>1. job[p].phase = "recording" /\ RunSound(p)
      BY <1>1, <1>5, JobKind DEF AgentCandidateSource, RunPhases
    <2>2. job' = [job EXCEPT ![p].phase = "candidate"]
      BY <1>5 DEF AgentCandidateSource
    <2>3. /\ DOMAIN job'[p] = RunFields /\ job'[p].phase = "candidate"
          /\ job'[p].tree = job[p].tree /\ job'[p].session = job[p].session
          /\ job'[p].run = job[p].run /\ job'[p].id = job[p].id
      BY <1>1, <2>1, <2>2 DEF RunSound, RunFields
    <2>4. BuildAgentCandidateSource(job'[p]) \in evidence'
      BY <1>5, <2>3 DEF AgentCandidateSource, BuildAgentCandidateSource, ReportedSource
    <2>5. RunSound(p)'
      BY <1>1, <2>1, <2>3, <2>4 DEF RunSound, Grows
    <2> QED BY <2>3, <2>5 DEF JobSound, RunPhases
  <1>6. CASE RecordObservation(p) \/ RecordLocalCandidate(p) \/ RecordLinkedCandidate(p)
                \/ RecordLocalUserDecision(p) \/ RequestLocalUserConfirmation(p)
    BY <1>1, <1>6 DEF RecordObservation, RecordLocalCandidate, RecordLinkedCandidate,
                      RecordLocalUserDecision, RequestLocalUserConfirmation, JobSound
  <1> QED BY <1>2, <1>3, <1>4, <1>5, <1>6 DEF RunStep

\* A step is about one job only.
LEMMA OwnJobOnly ==
    ASSUME JobsSound, NEW p \in Processes, Step(p)
    PROVE  /\ DOMAIN job' = Processes
           /\ \A q \in Processes \ {p} : job'[q] = job[q]
  <1>1. DOMAIN job = Processes
    BY DEF JobsSound
  <1>2. CASE CompileStep(p)
    BY <1>1, <1>2 DEF CompileStep, StartCompile, PersistGitRepoSnapshot, EnsureCompileSession,
         PrepareLocalCompileProofs, Promote, PersistProjectRuleClaims, FindConflicts,
         InsertConflict, PersistSymbolDeclarationClaims,
         PersistPackageManifestDependencyClaims, BuildWithClaims, Enter
  <1>3. CASE RunStep(p)
    BY <1>1, <1>3 DEF RunStep, StartRun, ReadAfterRun, WithCurrentLocalContextSession,
         RecordObservation, AgentCandidateSource, RecordLocalCandidate,
         RecordLinkedCandidate, RecordLocalUserDecision, RequestLocalUserConfirmation
  <1> QED BY <1>2, <1>3 DEF Step

\* Every job stays sound, whoever moves.
LEMMA JobsStaySound ==
    ASSUME ClaimsInv, NEW p \in Processes, Step(p)
    PROVE  JobsSound'
  <1>1. JobsSound /\ Grows
    BY StepGrows DEF ClaimsInv
  <1>2. JobSound(p)'
    BY CompileJobStep, RunJobStep DEF Step
  <1>3. ASSUME NEW q \in Processes, q # p PROVE JobSound(q)'
    BY <1>1, <1>3, OwnJobOnly, OtherJob DEF JobsSound
  <1>4. ASSUME NEW q \in Processes PROVE JobSound(q)'
    BY <1>2, <1>3
  <1> QED BY <1>1, <1>4, OwnJobOnly DEF JobsSound

----------------------------------------------------------------------------
(* The claims, their proofs and their scopes *)

\* What is promoted for a run is stamped with it.
LEMMA RunDraftsAreOfTheRun ==
    ASSUME NEW run
    PROVE  /\ \A d \in PersistObservedRunResultClaim(run) : d.run = run /\ d.tree = run.tree
           /\ \A d \in LinkDrafts(run) : d.run = run /\ d.tree = run.tree
  <1>1. RunDraft(run).run = run /\ RunDraft(run).tree = run.tree
    BY DEF RunDraft, Draft
  <1>2. ASSUME NEW d \in PersistObservedRunResultClaim(run)
        PROVE  d.run = run /\ d.tree = run.tree
    <2>1. d \in {RunDraft(run)}
      BY <1>2 DEF PersistObservedRunResultClaim, Accepted
    <2> QED BY <1>1, <2>1
  <1>3. ASSUME NEW d \in LinkDrafts(run)
        PROVE  d.run = run /\ d.tree = run.tree
    <2>1. PICK linked : d = LinkDraft(run, linked)
      BY <1>3 DEF LinkDrafts
    <2> QED BY <2>1 DEF LinkDraft, Draft
  <1> QED BY <1>2, <1>3

\* The run a job is about to record is one of its session, in a worktree it stood at.
LEMMA RecordedRun ==
    ASSUME NEW p, RunSound(p), job[p].phase \in {"recording", "candidate"}
    PROVE  /\ RunOf(job[p]) \in Run /\ RunOf(job[p]) # None
           /\ RunOf(job[p]).tree = job[p].tree /\ job[p].tree \in snapshots
           /\ RunOf(job[p]).session = job[p].session
           /\ <<job[p].session, job[p].tree>> \in opened
  <1>1. /\ job[p].session \in Sessions /\ job[p].run \in RunKinds /\ job[p].id \in Nat
        /\ job[p].tree \in DOMAIN Trees /\ job[p].tree \in snapshots
        /\ <<job[p].session, job[p].tree>> \in opened
    BY DEF RunSound
  <1>2. job[p].run.passed \in BOOLEAN /\ job[p].run.authority \in {"grape", "agent_reported"}
    BY <1>1, RunKindsAreKinds
  <1>3. RunOf(job[p]) \in Run
    BY <1>1, <1>2 DEF RunOf, Run
  <1> QED BY <1>1, <1>3, NoneIsNoRun DEF RunOf

RowsSound ==
    /\ \A a, b \in claims : a.draft = b.draft => a = b
    /\ attached \subseteq proofs \cap Claimed
    /\ \A claim \in claims :
         /\ ClaimSound(claim)
         /\ claim.draft.tree \in snapshots
         /\ claim.draft.run # None => claim.draft.run \in observed

\* Where no claim is inserted and no proof attached, the rows stay sound.
LEMMA SameClaims ==
    ASSUME RowsSound, Grows, UNCHANGED <<claims, attached>>
    PROVE  RowsSound'
  BY DEF RowsSound, Grows, Claimed, ClaimSound

\* A promotion inserts a claim once, and attaches a proof that is there to it.
LEMMA PromotedClaims ==
    ASSUME ClaimsInv, RowsSound, NEW p \in Processes, Promote(p)
    PROVE  RowsSound'
  <1> DEFINE draft == NextDraft(job[p])
  <1>1. JobsSound /\ Grows
    BY StepGrows DEF ClaimsInv, Step, CompileStep
  <1>2. /\ job[p].todo # {} /\ CompileSound(p) /\ PromotionSound(p)
        /\ job[p].tree \in snapshots
    BY <1>1, JobKind, PhaseNames DEF Promote, CompileSound, Promoting
  <1>3. draft \in job[p].accepted
    BY <1>2 DEF NextDraft, PromotionSound
  <1>4. draft.run = None /\ draft.tree = job[p].tree /\ SaidBy(draft, draft.tree)
    BY <1>2, <1>3 DEF CompileSound, FileDraft
  <1>5. CASE UNCHANGED <<claims, attached>>
    BY <1>1, <1>5, SameClaims
  <1>6. CASE InsertClaim(draft, job[p].request.env) /\ UNCHANGED <<snapshots, attached>>
    <2> DEFINE row == [draft |-> draft, env |-> job[p].request.env]
    <2> HIDE DEF draft
    <2>1. CASE \E c \in claims : c.draft = draft
      BY <1>1, <1>6, <2>1, SameClaims DEF InsertClaim
    <2>2. CASE ~\E c \in claims : c.draft = draft
      <3>1. claims' = claims \cup {row}
        BY <1>6, <2>2 DEF InsertClaim
      <3>2. row.draft = draft /\ row = [draft |-> row.draft, env |-> row.env]
        OBVIOUS
      <3>3. ClaimSound(row)
        BY <1>4, <3>2 DEF ClaimSound
      <3> HIDE DEF row
      <3>4. \A a, b \in claims' : a.draft = b.draft => a = b
        BY <2>2, <3>1, <3>2 DEF RowsSound
      <3>5. attached' \subseteq proofs' \cap Claimed'
        BY <1>1, <1>6, <3>1 DEF RowsSound, Grows, Claimed
      <3>6. \A claim \in claims' :
              /\ ClaimSound(claim)
              /\ claim.draft.tree \in snapshots'
              /\ claim.draft.run # None => claim.draft.run \in observed'
        BY <1>1, <1>2, <1>4, <3>1, <3>2, <3>3 DEF RowsSound, Grows
      <3> QED BY <3>4, <3>5, <3>6 DEF RowsSound, ClaimSound
    <2> QED BY <2>1, <2>2
  <1>7. CASE /\ job[p].stage = "attach" /\ attached' = attached \cup {draft}
             /\ UNCHANGED <<proofs, claims>>
    <2>1. draft \in proofs \cap Claimed
      BY <1>2, <1>7 DEF PromotionSound
    <2>2. attached' \subseteq proofs' \cap Claimed'
      BY <1>7, <2>1 DEF RowsSound, Claimed
    <2> QED BY <1>1, <1>7, <2>2 DEF RowsSound, Grows, ClaimSound
  <1> QED BY <1>5, <1>6, <1>7 DEF Promote, NextDraft, AttachProofToClaim

\* A recorded run is claimed once, with its proof, in the worktree it was seen in.
LEMMA RecordedClaims ==
    ASSUME ClaimsInv, RowsSound, NEW p \in Processes, RecordObservation(p)
    PROVE  RowsSound'
  <1>1. JobsSound /\ Grows
    BY StepGrows DEF ClaimsInv, Step, RunStep
  <1> DEFINE run      == RunOf(job[p])
             promoted == PersistObservedRunResultClaim(run)
             links    == IF promoted = {} THEN {} ELSE LinkDrafts(run)
             new      == promoted \cup Accepted(links)
             rows     == {[draft |-> d, env |-> None] : d \in new}
  <1>2. /\ job[p].phase = "recording"
        /\ observed' = observed \cup {run}
        /\ attached' = attached \cup new
        /\ claims' = claims \cup rows
        /\ promoted \cup links \subseteq proofs'
        /\ snapshots' = snapshots
    BY DEF RecordObservation, PersistObservedTestFailureRelations
  <1>3. RunSound(p)
    BY <1>1, <1>2, JobKind DEF RunPhases
  <1>4. run # None /\ run.tree \in snapshots
    BY <1>2, <1>3, RecordedRun
  <1>5. new \subseteq promoted \cup links
    BY DEF Accepted
  <1>6. \A d \in new : d.run = run /\ d.tree = run.tree
    BY <1>5, RunDraftsAreOfTheRun
  <1> HIDE DEF run, promoted, links, new
  <1>7. \A row \in rows : row.draft \in new /\ row = [draft |-> row.draft, env |-> None]
    OBVIOUS
  <1>8. \A d \in new : \E row \in rows : row.draft = d
    <2> TAKE d \in new
    <2> DEFINE row == [draft |-> d, env |-> None]
    <2>1. row \in rows /\ row.draft = d
      OBVIOUS
    <2> HIDE DEF row
    <2> QED BY <2>1
  <1> HIDE DEF rows
  <1>9. \A row \in rows : ClaimSound(row)
    <2> TAKE row \in rows
    <2>1. row = [draft |-> row.draft, env |-> None] /\ row.draft \in new
      BY <1>7
    <2>2. row.env = None
      BY <2>1
    <2> QED BY <1>4, <1>6, <2>1, <2>2 DEF ClaimSound
  <1>10. \A a \in claims, b \in rows : a.draft = b.draft => a = b
    <2> TAKE a \in claims, b \in rows
    <2> HAVE a.draft = b.draft
    <2>1. b = [draft |-> b.draft, env |-> None] /\ b.draft.run = run
      BY <1>6, <1>7
    <2>2. a = [draft |-> a.draft, env |-> None]
      BY <1>4, <2>1 DEF RowsSound, ClaimSound
    <2> QED BY <2>1, <2>2
  <1>11. \A a, b \in claims' : a.draft = b.draft => a = b
    <2>1. \A a, b \in rows : a.draft = b.draft => a = b
      <3> TAKE a, b \in rows
      <3> HAVE a.draft = b.draft
      <3>1. a = [draft |-> a.draft, env |-> None] /\ b = [draft |-> b.draft, env |-> None]
        BY <1>7
      <3> QED BY <3>1
    <2> QED BY <1>2, <1>10, <2>1 DEF RowsSound
  <1>12. attached' \subseteq proofs' \cap Claimed'
    <2>1. new \subseteq proofs'
      BY <1>2, <1>5
    <2>2. \A d \in new : d \in Claimed'
      BY <1>2, <1>8 DEF Claimed
    <2> QED BY <1>1, <1>2, <2>1, <2>2 DEF RowsSound, Grows, Claimed
  <1>13. \A claim \in claims' :
           /\ ClaimSound(claim)
           /\ claim.draft.tree \in snapshots'
           /\ claim.draft.run # None => claim.draft.run \in observed'
    BY <1>2, <1>4, <1>6, <1>7, <1>9 DEF RowsSound
  <1> QED BY <1>11, <1>12, <1>13 DEF RowsSound, ClaimSound

\* The steps that insert no claim and attach no proof.
LEMMA OtherClaims ==
    ASSUME NEW p \in Processes, Step(p), ~Promote(p), ~RecordObservation(p)
    PROVE  UNCHANGED <<claims, attached>>
  BY DEF Step, CompileStep, RunStep, StartCompile, PersistGitRepoSnapshot,
         EnsureCompileSession, PrepareLocalCompileProofs, PersistProjectRuleClaims,
         FindConflicts, InsertConflict, PersistSymbolDeclarationClaims,
         PersistPackageManifestDependencyClaims, BuildWithClaims, StartRun, ReadAfterRun,
         WithCurrentLocalContextSession, AgentCandidateSource, RecordLocalCandidate,
         RecordLinkedCandidate, RecordLocalUserDecision, RequestLocalUserConfirmation, stored

\* Every claim stays what it is, whoever moves.
LEMMA RowsStaySound ==
    ASSUME ClaimsInv, NEW p \in Processes, Step(p)
    PROVE  RowsSound'
  <1>1. RowsSound
    BY DEF ClaimsInv, ClaimsSound, ClaimsTypeOK, RowsSound, Claimed
  <1>2. Grows
    BY StepGrows
  <1> QED BY <1>1, <1>2, PromotedClaims, RecordedClaims, OtherClaims, SameClaims

CandidateSound(c) ==
    /\ c.tree \in snapshots
    /\ c.source \in {<<c.tree, ref>> : ref \in DOMAIN Trees[c.tree].files}
                     \cup {source.id : source \in {e \in evidence : e.tree = c.tree}}
    /\ <<c.session, c.tree>> \in opened

\* A candidate keeps its snapshot, its source and its session.
LEMMA CandidateKept ==
    ASSUME Grows, NEW c, CandidateSound(c)
    PROVE  CandidateSound(c)'
  <1>1. \A source \in {e \in evidence : e.tree = c.tree} :
            source \in {e \in evidence' : e.tree = c.tree}
    BY DEF Grows
  <1> QED BY <1>1 DEF CandidateSound, Grows

\* A candidate is stored with a source of the very snapshot, by its session.
LEMMA CandidatesStaySound ==
    ASSUME ClaimsInv, NEW p \in Processes, Step(p)
    PROVE  \A c \in candidates' : CandidateSound(c)'
  <1>1. JobsSound /\ Grows /\ \A c \in candidates : CandidateSound(c)
    BY StepGrows DEF ClaimsInv, ClaimsSound, ClaimsTypeOK, SessionsSound, RunsFollowCompiles,
                     CandidateSound
  <1>2. CASE candidates' = candidates
    BY <1>1, <1>2, CandidateKept
  <1>3. ASSUME job[p].phase \in {"recording", "candidate"}, NEW source,
               InsertCandidate(job[p], source),
               source \in {<<job[p].tree, ref>> : ref \in DOMAIN Trees[job[p].tree].files}
                          \cup {e.id : e \in {r \in evidence : r.tree = job[p].tree}}
        PROVE  \A c \in candidates' : CandidateSound(c)'
    <2> DEFINE row == [source |-> source, session |-> job[p].session, tree |-> job[p].tree]
    <2>1. candidates' \subseteq candidates \cup {row}
      BY <1>3 DEF InsertCandidate
    <2>2. row.source = source /\ row.session = job[p].session /\ row.tree = job[p].tree
      OBVIOUS
    <2> HIDE DEF row
    <2>3. RunSound(p)
      BY <1>1, <1>3, JobKind DEF RunPhases
    <2>4. CandidateSound(row)
      BY <1>3, <2>2, <2>3, RecordedRun DEF CandidateSound
    <2> QED BY <1>1, <2>1, <2>4, CandidateKept
  <1>4. CASE RecordLocalCandidate(p)
    <2> DEFINE row == BuildAgentCandidateSource(job[p])
    <2>1. job[p].phase = "candidate" /\ InsertCandidate(job[p], row.id)
      BY <1>4 DEF RecordLocalCandidate
    <2>2. row \in evidence /\ row.tree = job[p].tree
      BY <1>1, <2>1, JobKind
         DEF RunPhases, RunSound, BuildAgentCandidateSource, ReportedSource
    <2> HIDE DEF row
    <2>3. row.id \in {e.id : e \in {r \in evidence : r.tree = job[p].tree}}
      BY <2>2
    <2> QED BY <1>3, <2>1, <2>3
  <1>5. CASE RecordLinkedCandidate(p)
    <2>1. PICK tree \in snapshots : \E ref \in DOMAIN Trees[tree].files :
              IF tree = job[p].tree THEN InsertCandidate(job[p], FileSource(tree, ref).id)
              ELSE UNCHANGED candidates
      BY <1>5 DEF RecordLinkedCandidate
    <2>2. PICK ref \in DOMAIN Trees[tree].files :
              IF tree = job[p].tree THEN InsertCandidate(job[p], FileSource(tree, ref).id)
              ELSE UNCHANGED candidates
      BY <2>1
    <2>3. CASE tree # job[p].tree
      BY <1>2, <2>2, <2>3
    <2>4. CASE tree = job[p].tree
      <3>1. InsertCandidate(job[p], <<job[p].tree, ref>>)
        BY <2>2, <2>4 DEF FileSource
      <3>2. <<job[p].tree, ref>> \in {<<job[p].tree, r>> : r \in DOMAIN Trees[job[p].tree].files}
        BY <2>2, <2>4
      <3>3. job[p].phase = "recording"
        BY <1>5 DEF RecordLinkedCandidate
      <3> QED BY <1>3, <3>1, <3>2, <3>3
    <2> QED BY <2>3, <2>4
  <1>6. CASE ~RecordLocalCandidate(p) /\ ~RecordLinkedCandidate(p)
    <2>1. candidates' = candidates
      BY <1>6 DEF Step, CompileStep, RunStep, StartCompile, PersistGitRepoSnapshot,
         EnsureCompileSession, PrepareLocalCompileProofs, Promote, PersistProjectRuleClaims,
         FindConflicts, InsertConflict, PersistSymbolDeclarationClaims,
         PersistPackageManifestDependencyClaims, BuildWithClaims, StartRun, ReadAfterRun,
         WithCurrentLocalContextSession, RecordObservation, AgentCandidateSource,
         RecordLocalUserDecision, RequestLocalUserConfirmation, stored, reported
    <2> QED BY <1>2, <2>1
  <1> QED BY <1>4, <1>5, <1>6

\* A session row stands at a tree it was opened at.
LEMMA SessionRowsStaySound ==
    ASSUME ClaimsInv, NEW p \in Processes, Step(p)
    PROVE  /\ DOMAIN sessions' = Sessions
           /\ \A s \in Sessions : sessions'[s] \in DOMAIN Trees \cup {None}
           /\ \A s \in Sessions : sessions'[s] # None => <<s, sessions'[s]>> \in opened'
  <1>1. /\ JobsSound /\ Grows /\ DOMAIN sessions = Sessions
        /\ \A s \in Sessions : sessions[s] \in DOMAIN Trees \cup {None}
        /\ \A s \in Sessions : sessions[s] # None => <<s, sessions[s]>> \in opened
    BY StepGrows DEF ClaimsInv, ClaimsSound, ClaimsTypeOK, SessionsSound
  <1>2. CASE sessions' = sessions
    BY <1>1, <1>2 DEF Grows
  <1>3. ASSUME CompileSound(p), StandAt(job[p].request.session, job[p].tree)
        PROVE  /\ DOMAIN sessions' = Sessions
               /\ \A s \in Sessions : sessions'[s] \in DOMAIN Trees \cup {None}
               /\ \A s \in Sessions : sessions'[s] # None => <<s, sessions'[s]>> \in opened'
    <2>1. job[p].request.session \in Sessions /\ job[p].tree \in DOMAIN Trees
      BY <1>3 DEF CompileSound, Sessions
    <2> QED BY <1>1, <1>3, <2>1 DEF StandAt
  <1>4. CASE EnsureCompileSession(p)
    <2>1. CompileSound(p)
      BY <1>1, <1>4, JobKind, PhaseNames DEF EnsureCompileSession
    <2> QED BY <1>2, <1>3, <1>4, <2>1 DEF EnsureCompileSession
  <1>5. CASE BuildWithClaims(p)
    <2>1. CompileSound(p)
      BY <1>1, <1>5, JobKind, PhaseNames DEF BuildWithClaims, Promoting
    <2> QED BY <1>2, <1>3, <1>5, <2>1 DEF BuildWithClaims
  <1>6. CASE ~EnsureCompileSession(p) /\ ~BuildWithClaims(p)
    <2>1. sessions' = sessions
      BY <1>6 DEF Step, CompileStep, RunStep, StartCompile, PersistGitRepoSnapshot,
         PrepareLocalCompileProofs, Promote, PersistProjectRuleClaims,
         FindConflicts, InsertConflict, PersistSymbolDeclarationClaims,
         PersistPackageManifestDependencyClaims, StartRun, ReadAfterRun,
         WithCurrentLocalContextSession, RecordObservation, AgentCandidateSource,
         RecordLocalCandidate, RecordLinkedCandidate, RecordLocalUserDecision,
         RequestLocalUserConfirmation, stored
    <2> QED BY <1>2, <2>1
  <1> QED BY <1>4, <1>5, <1>6

\* A snapshot is of a tree that was read, and the worktree is at a tree.
LEMMA SnapshotsStaySound ==
    ASSUME ClaimsInv, NEW p \in Processes, Step(p)
    PROVE  work' \in DOMAIN Trees /\ snapshots' \subseteq DOMAIN Trees
  <1>1. JobsSound /\ work \in DOMAIN Trees /\ snapshots \subseteq DOMAIN Trees
    BY DEF ClaimsInv, ClaimsSound, ClaimsTypeOK
  <1>2. work' = work
    BY DEF Step, CompileStep, RunStep, StartCompile, PersistGitRepoSnapshot,
         EnsureCompileSession, PrepareLocalCompileProofs, Promote, PersistProjectRuleClaims,
         FindConflicts, InsertConflict, PersistSymbolDeclarationClaims,
         PersistPackageManifestDependencyClaims, BuildWithClaims, StartRun, ReadAfterRun,
         WithCurrentLocalContextSession, RecordObservation, AgentCandidateSource,
         RecordLocalCandidate, RecordLinkedCandidate, RecordLocalUserDecision,
         RequestLocalUserConfirmation
  <1>3. CASE PersistGitRepoSnapshot(p)
    <2>1. CompileSound(p)
      BY <1>1, <1>3, JobKind, PhaseNames DEF PersistGitRepoSnapshot
    <2> QED BY <1>1, <1>2, <1>3, <2>1 DEF PersistGitRepoSnapshot, CompileSound
  <1>4. CASE WithCurrentLocalContextSession(p)
    <2>1. RunSound(p) /\ job[p].phase = "ran"
      BY <1>1, <1>4, JobKind DEF WithCurrentLocalContextSession, RunPhases
    <2> QED BY <1>1, <1>2, <1>4, <2>1 DEF WithCurrentLocalContextSession, RunSound
  <1>5. CASE ~PersistGitRepoSnapshot(p) /\ ~WithCurrentLocalContextSession(p)
    <2>1. snapshots' = snapshots
      BY <1>5 DEF Step, CompileStep, RunStep, StartCompile, EnsureCompileSession,
         PrepareLocalCompileProofs, Promote, PersistProjectRuleClaims,
         FindConflicts, InsertConflict, PersistSymbolDeclarationClaims,
         PersistPackageManifestDependencyClaims, BuildWithClaims, StartRun, ReadAfterRun,
         RecordObservation, AgentCandidateSource,
         RecordLocalCandidate, RecordLinkedCandidate, RecordLocalUserDecision,
         RequestLocalUserConfirmation, stored
    <2> QED BY <1>1, <1>2, <2>1
  <1> QED BY <1>3, <1>4, <1>5

\* What is recorded is recorded by a session that stood at the worktree.
LEMMA RunsStaySound ==
    ASSUME ClaimsInv, NEW p \in Processes, Step(p)
    PROVE  observed' \subseteq Run /\ RunsFollowCompiles'
  <1>1. /\ JobsSound /\ Grows /\ observed \subseteq Run
        /\ \A row \in observed \cup evidence : <<row.session, row.tree>> \in opened
    BY StepGrows DEF ClaimsInv, SessionsSound, RunsFollowCompiles
  <1>2. \A row \in candidates' : <<row.session, row.tree>> \in opened'
    BY CandidatesStaySound DEF CandidateSound
  <1>3. CASE UNCHANGED <<observed, evidence>>
    BY <1>1, <1>2, <1>3 DEF RunsFollowCompiles, Grows
  <1>4. ASSUME job[p].phase \in {"recording", "candidate"}
        PROVE  /\ RunOf(job[p]) \in Run
               /\ RunOf(job[p]).session = job[p].session
               /\ RunOf(job[p]).tree = job[p].tree
               /\ <<job[p].session, job[p].tree>> \in opened
    <2>1. RunSound(p)
      BY <1>1, <1>4, JobKind DEF RunPhases
    <2> QED BY <1>4, <2>1, RecordedRun
  <1>5. CASE RecordObservation(p)
    <2>1. job[p].phase = "recording" /\ observed' = observed \cup {RunOf(job[p])}
          /\ evidence' = evidence /\ opened' = opened
      BY <1>5 DEF RecordObservation, reported
    <2> QED BY <1>1, <1>2, <1>4, <2>1 DEF RunsFollowCompiles
  <1>6. CASE AgentCandidateSource(p) \/ RecordLocalUserDecision(p)
    <2>1. PICK type : evidence' = evidence \cup {ReportedSource(job[p], type)}
      BY <1>6 DEF AgentCandidateSource, RecordLocalUserDecision, BuildAgentCandidateSource,
                  BuildAgentUserDecisionSource
    <2>2. job[p].phase = "recording" /\ observed' = observed /\ opened' = opened
      BY <1>6 DEF AgentCandidateSource, RecordLocalUserDecision
    <2>3. /\ ReportedSource(job[p], type).session = job[p].session
          /\ ReportedSource(job[p], type).tree = job[p].tree
      BY DEF ReportedSource
    <2> QED BY <1>1, <1>2, <1>4, <2>1, <2>2, <2>3 DEF RunsFollowCompiles
  <1>7. CASE ~RecordObservation(p) /\ ~AgentCandidateSource(p) /\ ~RecordLocalUserDecision(p)
    <2>1. UNCHANGED <<observed, evidence>>
      BY <1>7 DEF Step, CompileStep, RunStep, StartCompile, PersistGitRepoSnapshot,
         EnsureCompileSession, PrepareLocalCompileProofs, Promote, PersistProjectRuleClaims,
         FindConflicts, InsertConflict, PersistSymbolDeclarationClaims,
         PersistPackageManifestDependencyClaims, BuildWithClaims, StartRun, ReadAfterRun,
         WithCurrentLocalContextSession, RecordLocalCandidate, RecordLinkedCandidate,
         RequestLocalUserConfirmation, stored, reported
    <2> QED BY <1>3, <2>1
  <1> QED BY <1>5, <1>6, <1>7

\* Claims, candidates and sessions together.
LEMMA StoreStaysSound ==
    ASSUME ClaimsInv, NEW p \in Processes, Step(p)
    PROVE  ClaimsSound' /\ SessionsSound'
  <1>1. RowsSound'
    BY RowsStaySound
  <1>2. \A c \in candidates' : CandidateSound(c)'
    BY CandidatesStaySound
  <1>3. ClaimsTypeOK'
    BY <1>1, <1>2, SnapshotsStaySound, SessionRowsStaySound
       DEF ClaimsTypeOK, RowsSound, CandidateSound, Claimed
  <1>4. ClaimsSound'
    BY <1>1, <1>3 DEF ClaimsSound, RowsSound
  <1>5. SessionsSound'
    BY SessionRowsStaySound, RunsStaySound DEF SessionsSound
  <1> QED BY <1>4, <1>5

----------------------------------------------------------------------------
(* The edges between claims *)

\* An edge that is there already is left alone, so no two are the same.
LEMMA InsertedEdge ==
    ASSUME NEW stock, NEW edge,
           \A a, b \in stock : a.type \in ConflictEdgeTypes /\ SameEdge(a, b) => a = b
    PROVE  /\ stock \subseteq InsertEdge(stock, edge)
           /\ InsertEdge(stock, edge) \subseteq stock \cup {edge}
           /\ \A a, b \in InsertEdge(stock, edge) :
                 a.type \in ConflictEdgeTypes /\ SameEdge(a, b) => a = b
  <1>1. \A other : SameEdge(other, edge) <=> SameEdge(edge, other)
    BY DEF SameEdge
  <1>2. CASE \E other \in stock : SameEdge(other, edge)
    BY <1>2 DEF InsertEdge
  <1>3. CASE ~\E other \in stock : SameEdge(other, edge)
    BY <1>1, <1>3 DEF InsertEdge
  <1> QED BY <1>2, <1>3

\* An edge of no date that counts, between claims, keeps the edges sound.
LEMMA UndatedEdge ==
    ASSUME EdgesSound, clock' \in Nat, clock <= clock', Claimed \subseteq Claimed',
           \A e \in edges' \ edges :
              /\ e.type \notin Dated
              /\ e.type \in ConflictEdgeTypes => {e.from, e.to} \subseteq Claimed /\ e.of = 0,
           \A a, b \in edges' : a.type \in ConflictEdgeTypes /\ SameEdge(a, b) => a = b
    PROVE  EdgesSound'
  BY DEF EdgesSound

\* The edges stay sound when a process moves.
LEMMA EdgesStaySound ==
    ASSUME ClaimsInv, NEW p \in Processes, Step(p)
    PROVE  EdgesSound'
  <1>1. /\ EdgesSound /\ JobsSound /\ Grows /\ Claimed \subseteq Claimed'
    BY StepGrows DEF ClaimsInv, Grows, Claimed
  <1>2. clock \in Nat
    BY <1>1 DEF EdgesSound
  <1>3. clock' \in Nat /\ clock <= clock'
    <2>1. clock' \in {clock, clock + 1}
      BY DEF Step, CompileStep, RunStep, StartCompile, PersistGitRepoSnapshot,
         EnsureCompileSession, PrepareLocalCompileProofs, Promote, PersistProjectRuleClaims,
         FindConflicts, InsertConflict, PersistSymbolDeclarationClaims,
         PersistPackageManifestDependencyClaims, BuildWithClaims, StartRun, ReadAfterRun,
         WithCurrentLocalContextSession, RecordObservation, AgentCandidateSource,
         RecordLocalCandidate, RecordLinkedCandidate, RecordLocalUserDecision,
         RequestLocalUserConfirmation, Tick
    <2> QED BY <1>2, <2>1
  <1>4. CASE edges' = edges
    BY <1>1, <1>3, <1>4, UndatedEdge DEF EdgesSound
  <1>5. CASE InsertConflict(p)
    <2> DEFINE pair == CHOOSE c \in job[p].pairs : TRUE
               edge == ConflictEdge(pair, job[p].now)
    <2>1. job[p].pairs # {} /\ edges' = InsertEdge(edges, edge) /\ CompileSound(p)
      BY <1>1, <1>5, JobKind, PhaseNames DEF InsertConflict
    <2>2. RulePair(pair)
      BY <2>1 DEF CompileSound
    <2>3. edge.from \in Claimed /\ edge.to \in Claimed
      <3> HIDE DEF pair
      <3>1. PICK a, b \in Claimed : a # b /\ pair = {a, b}
        BY <2>2 DEF RulePair
      <3> QED BY <3>1 DEF ConflictEdge
    <2>4. edge.type = "needs_review" /\ edge.of = 0
      BY DEF ConflictEdge
    <2> HIDE DEF edge, pair
    <2>5. \A a, b \in edges : a.type \in ConflictEdgeTypes /\ SameEdge(a, b) => a = b
      BY <1>1 DEF EdgesSound
    <2>6. /\ edges' \subseteq edges \cup {edge}
          /\ \A a, b \in edges' : a.type \in ConflictEdgeTypes /\ SameEdge(a, b) => a = b
      BY <2>1, <2>5, InsertedEdge
    <2>7. edge.type \notin Dated
      BY <2>4 DEF Dated, ClosingTypes
    <2> QED BY <1>1, <1>3, <2>3, <2>4, <2>6, <2>7, UndatedEdge
  <1>6. CASE RecordObservation(p)
    <2> DEFINE run == RunOf(job[p])
    <2>1. \A e \in edges' \ edges : \E link : e = LinkEdge(run, link)
      BY <1>6 DEF RecordObservation, PersistObservedTestFailureRelations
    <2>2. \A e \in edges' \ edges : e.type = "related_to"
      BY <2>1 DEF LinkEdge
    <2>3. \A e \in edges' \ edges : e.type \notin Dated \cup ConflictEdgeTypes
      BY <2>2 DEF Dated, ClosingTypes, ConflictEdgeTypes
    <2>4. \A a, b \in edges' : a.type \in ConflictEdgeTypes /\ SameEdge(a, b) => a = b
      BY <1>1, <2>3 DEF EdgesSound, SameEdge
    <2> QED BY <1>1, <1>3, <2>3, <2>4, UndatedEdge
  <1>7. CASE ~InsertConflict(p) /\ ~RecordObservation(p)
    <2>1. edges' = edges
      BY <1>7 DEF Step, CompileStep, RunStep, StartCompile, PersistGitRepoSnapshot,
         EnsureCompileSession, PrepareLocalCompileProofs, Promote, PersistProjectRuleClaims,
         FindConflicts, PersistSymbolDeclarationClaims,
         PersistPackageManifestDependencyClaims, BuildWithClaims, StartRun, ReadAfterRun,
         WithCurrentLocalContextSession, AgentCandidateSource, RecordLocalCandidate,
         RecordLinkedCandidate, RecordLocalUserDecision, RequestLocalUserConfirmation, stored
    <2> QED BY <1>4, <2>1
  <1> QED BY <1>5, <1>6, <1>7

\* A new edge of a date of its own keeps the edges sound.
LEMMA DatedEdge ==
    ASSUME EdgesSound, NEW edge, clock' = clock + 1, Claimed' = Claimed,
           edges' \subseteq edges \cup {edge},
           edge.at = clock + 1,
           edge.type \in ConflictEdgeTypes =>
              {edge.from, edge.to} \subseteq Claimed /\ edge.of = clock + 1
    PROVE  EdgesSound'
  <1>1. clock \in Nat
    BY DEF EdgesSound
  <1>2. \A e \in edges' : e.type \in ConflictEdgeTypes =>
           {e.from, e.to} \subseteq Claimed' /\ e.of \in 0 .. clock'
    BY <1>1 DEF EdgesSound
  <1>3. \A e \in edges' : e.type \in Dated => e.at \in 1 .. clock'
    BY <1>1 DEF EdgesSound
  <1>4. \A a, b \in edges' : a.type \in Dated /\ b.type \in Dated /\ a.at = b.at => a = b
    <2>1. \A e \in edges : e.type \in Dated => e.at # edge.at
      BY <1>1 DEF EdgesSound
    <2> QED BY <2>1 DEF EdgesSound
  <1>5. \A a, b \in edges' : a.type \in ConflictEdgeTypes /\ SameEdge(a, b) => a = b
    <2>1. \A e \in edges : e.type \in ConflictEdgeTypes => e.of # clock + 1
      BY <1>1 DEF EdgesSound
    <2>2. \A e \in edges : edge.type \in ConflictEdgeTypes => ~SameEdge(e, edge)
      BY <2>1 DEF SameEdge
    <2>3. \A e \in edges : edge.type \in ConflictEdgeTypes => ~SameEdge(edge, e)
      BY <2>1 DEF SameEdge
    <2>4. \A e \in edges : e.type \in ConflictEdgeTypes /\ SameEdge(e, edge) =>
                              edge.type \in ConflictEdgeTypes
      BY DEF SameEdge
    <2> QED BY <2>2, <2>3, <2>4 DEF EdgesSound
  <1> QED BY <1>1, <1>2, <1>3, <1>4, <1>5 DEF EdgesSound

\* What another tool or a user does to the edges, or to the worktree, touches no row.
LEMMA WorldStaysSound ==
    ASSUME ClaimsInv, World
    PROVE  ClaimsInv'
  <1>1. /\ Grows /\ UNCHANGED <<snapshots, sessions, observed, reported, proofs, attached,
                                 claims, job, opened, completed>>
    BY WorldGrows
  <1>2. work' \in DOMAIN Trees
    BY DEF World, ResolveLocalConflict, ForeignEdge, Switch, ClaimsInv, ClaimsSound, ClaimsTypeOK
  <1>3. ClaimsSound'
    BY <1>1, <1>2 DEF ClaimsInv, ClaimsSound, ClaimsTypeOK, ClaimSound, reported
  <1>4. SessionsSound'
    BY <1>1 DEF ClaimsInv, SessionsSound, RunsFollowCompiles, reported
  <1>5. JobsSound'
    <2>1. ASSUME NEW q \in Processes PROVE JobSound(q)'
      BY <1>1, OtherJob DEF ClaimsInv, JobsSound
    <2> QED BY <1>1, <2>1 DEF ClaimsInv, JobsSound
  <1>6. CompletedSound'
    BY <1>1 DEF ClaimsInv, CompletedSound
  <1>7. EdgesSound'
    <2>1. EdgesSound /\ clock \in Nat /\ Claimed' = Claimed
      BY <1>1 DEF ClaimsInv, EdgesSound, Claimed
    <2>2. \A a, b \in edges : a.type \in ConflictEdgeTypes /\ SameEdge(a, b) => a = b
      BY <2>1 DEF EdgesSound
    <2>3. CASE ResolveLocalConflict
      <3>1. PICK e \in edges, how \in ClosingTypes :
                edges' = InsertEdge(edges,
                            [from |-> e.from, to |-> e.to, type |-> how,
                             by |-> "user_confirmation", at |-> clock + 1, of |-> e.at])
        BY <2>3 DEF ResolveLocalConflict
      <3> DEFINE edge == [from |-> e.from, to |-> e.to, type |-> how,
                          by |-> "user_confirmation", at |-> clock + 1, of |-> e.at]
      <3>2. edge.at = clock + 1 /\ edge.type \notin ConflictEdgeTypes
        BY DEF ClosingTypes, ConflictEdgeTypes
      <3>3. edges' = InsertEdge(edges, edge)
        BY <3>1
      <3> HIDE DEF edge
      <3>4. edges' \subseteq edges \cup {edge} /\ clock' = clock + 1
        BY <2>2, <2>3, <3>3, InsertedEdge DEF ResolveLocalConflict, Tick
      <3> QED BY <2>1, <3>2, <3>4, DatedEdge
    <2>4. CASE ForeignEdge
      <3>1. PICK a \in RuleClaims, b \in RuleClaims, kind \in ForeignEdges :
                edges' = edges \cup {[from |-> a.draft, to |-> b.draft, type |-> kind.type,
                                     by |-> kind.by, at |-> clock + 1, of |-> clock + 1]}
        BY <2>4 DEF ForeignEdge
      <3> DEFINE edge == [from |-> a.draft, to |-> b.draft, type |-> kind.type,
                          by |-> kind.by, at |-> clock + 1, of |-> clock + 1]
      <3>2. /\ edge.at = clock + 1 /\ edge.of = clock + 1
            /\ edge.from \in Claimed /\ edge.to \in Claimed
        BY DEF RuleClaims, Claimed
      <3>3. edges' = edges \cup {edge}
        BY <3>1
      <3> HIDE DEF edge
      <3>4. clock' = clock + 1
        BY <2>4 DEF ForeignEdge, Tick
      <3> QED BY <2>1, <3>2, <3>3, <3>4, DatedEdge
    <2>5. CASE Switch
      <3>1. UNCHANGED <<edges, clock>>
        BY <2>5 DEF Switch, stored
      <3> QED BY <2>1, <3>1 DEF EdgesSound
    <2> QED BY <2>3, <2>4, <2>5 DEF World
  <1> QED BY <1>3, <1>4, <1>5, <1>6, <1>7 DEF ClaimsInv

----------------------------------------------------------------------------
(* What a compile that ended had accepted and shown *)

\* The runs shown to a reader are those of its session and worktree.
LEMMA ShownRuns ==
    ASSUME ClaimsInv, NEW tree \in DOMAIN Trees, NEW request \in Requests, NEW blocked,
           NEW claim \in claims, IsActive(claim, Reader(tree, request), blocked),
           claim.draft.run # None
    PROVE  /\ ShownRight(claim, Reader(tree, request))
           /\ claim.draft.run.authority = "grape"
  <1> DEFINE reader == Reader(tree, request)
  <1>1. claim.draft.tree = claim.draft.run.tree /\ claim.draft.run \in Run
    BY DEF ClaimsInv, ClaimsSound, ClaimSound, ClaimsTypeOK, SessionsSound
  <1>2. claim.draft.run.session # None
    BY <1>1, NoneIsAbsent DEF Run
  <1>3. reader.session # None
    BY ReaderFields
  <1> HIDE DEF reader
  <1>4. IsActive(claim, reader, blocked)
    BY DEF reader
  <1>5. ShownRight(claim, reader) /\ claim.draft.run.authority = "grape"
    BY <1>1, <1>2, <1>3, <1>4, ActiveRunClaim DEF ShownRight
  <1> QED BY <1>5 DEF reader

\* A compile ends with everything it accepted attached.
LEMMA CompletedStaySound ==
    ASSUME ClaimsInv, NEW p \in Processes, Step(p)
    PROVE  CompletedSound'
  <1>1. JobsSound /\ Grows /\ CompletedSound
    BY StepGrows DEF ClaimsInv
  <1>2. CASE completed' = completed
    BY <1>1, <1>2 DEF CompletedSound, Grows
  <1>3. CASE BuildWithClaims(p)
    <2> DEFINE j == job[p]
               reader == Reader(j.tree, j.request)
               shown == SelectTaskScopedClaims(ActiveClaims(reader), j.request.selected,
                                               ExcerptedRefs(j), j.request.session)
               done == [reader |-> reader, accepted |-> j.accepted, shown |-> shown]
    <2>1. /\ completed' = completed \cup {done}
          /\ j.todo = {} /\ attached' = attached
      BY <1>3 DEF BuildWithClaims, ReaderOf
    <2>2. CompileSound(p)
      BY <1>1, <1>3, JobKind, PhaseNames DEF BuildWithClaims, Promoting
    <2>3. j.tree \in DOMAIN Trees /\ j.request \in Requests
      BY <2>2 DEF CompileSound
    <2>4. done.reader = reader /\ done.accepted = j.accepted /\ done.shown = shown
      OBVIOUS
    <2>5. reader.tree = j.tree
      BY <2>3, ReaderFields
    <2>6. \A d \in j.accepted : FileDraft(d, j.tree) /\ Passes(d) /\ d \in attached
      BY <2>1, <2>2 DEF CompileSound
    <2>7. \A claim \in shown : claim \in claims /\ IsActive(claim, reader, Blocked)
      BY DEF SelectTaskScopedClaims, ActiveClaims
    <2>8. \A claim \in shown : ShownRight(claim, reader)
      <3> TAKE claim \in shown
      <3>1. claim \in claims /\ IsActive(claim, Reader(j.tree, j.request), Blocked)
        BY <2>7
      <3> HIDE DEF j, shown
      <3>2. CASE claim.draft.run = None
        BY <3>2 DEF ShownRight
      <3>3. CASE claim.draft.run # None
        BY <2>3, <3>1, <3>3, ShownRuns
      <3> QED BY <3>2, <3>3
    <2>9. \E tree \in DOMAIN Trees, request \in Requests : done.reader = Reader(tree, request)
      BY <2>3, <2>4
    <2> HIDE DEF done, reader, shown, j
    <2>10. \A d \in done.accepted :
              FileDraft(d, done.reader.tree) /\ Passes(d) /\ d \in attached'
      BY <2>1, <2>4, <2>5, <2>6
    <2>11. \A claim \in done.shown : ShownRight(claim, done.reader)
      BY <2>4, <2>8
    <2> QED BY <1>1, <2>1, <2>9, <2>10, <2>11 DEF CompletedSound
  <1>4. CASE ~BuildWithClaims(p)
    <2>1. completed' = completed
      BY <1>4 DEF Step, CompileStep, RunStep, StartCompile, PersistGitRepoSnapshot,
         EnsureCompileSession, PrepareLocalCompileProofs, Promote, PersistProjectRuleClaims,
         FindConflicts, InsertConflict, PersistSymbolDeclarationClaims,
         PersistPackageManifestDependencyClaims, StartRun, ReadAfterRun,
         WithCurrentLocalContextSession, RecordObservation, AgentCandidateSource,
         RecordLocalCandidate, RecordLinkedCandidate, RecordLocalUserDecision,
         RequestLocalUserConfirmation, stored
    <2> QED BY <1>2, <2>1
  <1> QED BY <1>3, <1>4

----------------------------------------------------------------------------
(* Theorems *)

\* The invariant holds at the start.
LEMMA ClaimsInvInit == ClaimsInit => ClaimsInv
  <1> SUFFICES ASSUME ClaimsInit PROVE ClaimsInv
    OBVIOUS
  <1>1. ClaimsTypeOK
    BY FirstTreeIsTree DEF ClaimsInit, ClaimsTypeOK
  <1>2. ClaimsSound /\ SessionsSound
    BY <1>1 DEF ClaimsInit, ClaimsSound, SessionsSound, RunsFollowCompiles
  <1>3. JobsSound
    BY DEF ClaimsInit, JobsSound, JobSound
  <1>4. EdgesSound /\ CompletedSound
    BY DEF ClaimsInit, EdgesSound, CompletedSound
  <1> QED BY <1>2, <1>3, <1>4 DEF ClaimsInv

\* Every step of a process keeps the invariant.
LEMMA ClaimsInvStep ==
    ASSUME ClaimsInv, NEW p \in Processes, Step(p)
    PROVE  ClaimsInv'
  BY StoreStaysSound, JobsStaySound, EdgesStaySound, CompletedStaySound DEF ClaimsInv

\* The invariant holds in every reachable state, for every repository, every set of
\* processes and every bound.
THEOREM ClaimsInvariance == ClaimsSpec => []ClaimsInv
  <1>1. ClaimsInv /\ [ClaimsNext]_vars => ClaimsInv'
    <2> SUFFICES ASSUME ClaimsInv, [ClaimsNext]_vars PROVE ClaimsInv'
      OBVIOUS
    <2>1. ASSUME NEW p \in Processes, Step(p) PROVE ClaimsInv'
      BY <2>1, ClaimsInvStep
    <2>2. CASE World
      BY <2>2, WorldStaysSound
    <2>3. CASE UNCHANGED vars
      <3>1. /\ Grows /\ DOMAIN job' = DOMAIN job /\ \A q \in Processes : job'[q] = job[q]
        BY <2>3 DEF vars, reported, Grows
      <3>2. JobsSound'
        <4>1. ASSUME NEW q \in Processes PROVE JobSound(q)'
          BY <3>1, OtherJob DEF ClaimsInv, JobsSound
        <4> QED BY <3>1, <4>1 DEF ClaimsInv, JobsSound
      <3>3. ClaimsSound'
        BY <2>3 DEF vars, reported, ClaimsInv, ClaimsSound, ClaimsTypeOK, ClaimSound
      <3>4. SessionsSound'
        BY <2>3 DEF vars, reported, ClaimsInv, SessionsSound, RunsFollowCompiles
      <3>5. EdgesSound'
        BY <2>3 DEF vars, ClaimsInv, EdgesSound, Claimed
      <3>6. CompletedSound'
        BY <2>3 DEF vars, ClaimsInv, CompletedSound
      <3> QED BY <3>2, <3>3, <3>4, <3>5, <3>6 DEF ClaimsInv
    <2> QED BY <2>1, <2>2, <2>3 DEF ClaimsNext, Step, World
  <1> QED BY <1>1, ClaimsInvInit, PTL DEF ClaimsSpec

\* A claim has one row, stands on a snapshot or a run that is there, and only a claim
\* that is there has its proof attached.
THEOREM ClaimsTypeCorrect == ClaimsSpec => []ClaimsTypeOK
  <1>1. ClaimsInv => ClaimsTypeOK
    BY DEF ClaimsInv, ClaimsSound
  <1> QED BY <1>1, ClaimsInvariance, PTL

\* No reader is shown a file claim its own files do not make.  (current-valid.ts)
THEOREM ActiveClaimsAreTrue == ClaimsSpec => []ActiveIsTrue
  <1>1. ClaimsInv => ActiveIsTrue
    <2> SUFFICES ASSUME ClaimsInv, NEW claim \in {c \in claims : c.draft.run = None},
                        NEW reader \in Readers, NEW blocked,
                        IsActive(claim, reader, blocked)
                 PROVE  SaidBy(claim.draft, reader.tree)
      BY DEF ActiveIsTrue
    <2>1. claim.draft.run = None /\ SaidBy(claim.draft, claim.draft.tree)
      BY DEF ClaimsInv, ClaimsSound, ClaimSound
    <2> QED BY <2>1, ActiveFileClaim
  <1> QED BY <1>1, ClaimsInvariance, PTL

\* No session is shown a run of another session or of another worktree, and nobody one
\* that only an agent reported.  (current-valid.ts, task-scope.ts)
THEOREM RunsStayWhereTheyWere == ClaimsSpec => []RunsStayInTheirWorktree
  <1>1. ClaimsInv => RunsStayInTheirWorktree
    <2> SUFFICES ASSUME ClaimsInv PROVE RunsStayInTheirWorktree
      OBVIOUS
    <2>1. ASSUME NEW claim \in {c \in claims : c.draft.run # None},
                 NEW reader \in Readers, IsActive(claim, reader, {})
          PROVE  /\ claim.draft.run.tree = reader.tree
                 /\ claim.draft.run.session = reader.session
                 /\ claim.draft.run.authority = "grape"
      <3>1. PICK tree \in DOMAIN Trees, request \in Requests : reader = Reader(tree, request)
        BY DEF Readers
      <3>2. /\ claim \in claims /\ claim.draft.run # None
            /\ IsActive(claim, Reader(tree, request), {})
        BY <2>1, <3>1
      <3>3. ShownRight(claim, Reader(tree, request)) /\ claim.draft.run.authority = "grape"
        BY <3>2, ShownRuns
      <3> QED BY <3>1, <3>2, <3>3 DEF ShownRight
    <2>2. ASSUME NEW done \in completed, NEW claim \in done.shown, claim.draft.run # None
          PROVE  /\ claim.draft.run.tree = done.reader.tree
                 /\ claim.draft.run.session = done.reader.session
      BY <2>2 DEF ClaimsInv, CompletedSound, ShownRight
    <2> QED BY <2>1, <2>2 DEF RunsStayInTheirWorktree
  <1> QED BY <1>1, ClaimsInvariance, PTL

\* Whatever is recorded for a session is of a worktree it was compiled in.
\* (write-session-context.ts)
THEOREM RunsAreOfCompiledWorktrees == ClaimsSpec => []RunsFollowCompiles
  <1>1. ClaimsInv => RunsFollowCompiles
    BY DEF ClaimsInv, SessionsSound
  <1> QED BY <1>1, ClaimsInvariance, PTL

\* What a compile that ended had accepted holds for its reader, whichever processes died
\* half way through the same claims.
THEOREM AcceptedClaimsHold == ClaimsSpec => []CompletedCompilesHold
  <1>1. ClaimsInv => CompletedCompilesHold
    <2> SUFFICES ASSUME ClaimsInv, NEW blocked, NEW done \in completed,
                        NEW draft \in done.accepted
                 PROVE  \E claim \in claims :
                          /\ claim.draft = draft
                          /\ \/ IsActive(claim, done.reader, blocked)
                             \/ claim.env # done.reader.env \/ claim.env = "unknown"
                             \/ PackageRootOf(draft) \notin {None, done.reader.root}
                             \/ draft \in blocked
      BY DEF CompletedCompilesHold
    <2>1. PICK tree \in DOMAIN Trees, request \in Requests : done.reader = Reader(tree, request)
      BY DEF ClaimsInv, CompletedSound
    <2>2. FileDraft(draft, tree) /\ Passes(draft) /\ draft \in attached
      BY <2>1, ReaderFields DEF ClaimsInv, CompletedSound
    <2>3. PICK claim \in claims : claim.draft = draft
      BY <2>2 DEF ClaimsInv, ClaimsSound, ClaimsTypeOK
    <2>4. CASE /\ claim.env = Reader(tree, request).env /\ claim.env # "unknown"
               /\ PackageRootOf(draft) \in {None, Reader(tree, request).root}
               /\ draft \notin blocked
      BY <2>1, <2>2, <2>3, <2>4, AcceptedHolds
    <2> QED BY <2>1, <2>3, <2>4
  <1> QED BY <1>1, ClaimsInvariance, PTL

\* The reader and `grape conflicts` give the same answer about every contradiction that
\* may block and that nothing supersedes.
THEOREM ConflictAnswersStayAgreed == ClaimsSpec => []ConflictAnswersAgree
  <1>1. ClaimsInv => ConflictAnswersAgree
    <2> SUFFICES ASSUME ClaimsInv PROVE ConflictAnswersAgree
      OBVIOUS
    <2>1. EdgesSound
      BY DEF ClaimsInv
    <2>2. ListLocalConflicts.missing = {}
      BY <2>1 DEF EdgesSound, ListLocalConflicts, OpenConflictEdges, Claimed
    <2>3. ListLocalConflicts.conflicts = OpenConflictEdges(edges)
      BY DEF ListLocalConflicts
    <2>4. ASSUME NEW edge \in edges, edge.type \in {"contradicts", "violates"},
                 CanBlockCurrentValid(edge),
                 ~\E other \in edges : other.type = "supersedes" /\ PairOf(other) = PairOf(edge)
          PROVE  edge \in OpenConflictEdges(edges) <=> Live(edge, edges)
      <3>1. \A other \in edges : CanResolveConflict(other) /\ PairOf(other) = PairOf(edge) =>
               other.type \in ClosingTypes
        BY <2>4 DEF CanResolveConflict, ClosingTypes
      <3>2. edge.type \in Dated /\ edge.type \notin ClosingTypes /\ ClosingTypes \subseteq Dated
        BY <2>4 DEF Dated, ClosingTypes
      <3>3. \A other \in edges : other.type \in ClosingTypes =>
               /\ other.at \in Nat /\ edge.at \in Nat
               /\ other.at # edge.at
        BY <2>1, <3>2 DEF EdgesSound
      <3>4. \A other \in edges : other.type \in ClosingTypes =>
               (other.at < edge.at <=> ~(other.at > edge.at))
        BY <3>3
      <3>5. edge.type \in ConflictEdgeTypes
        BY <2>4 DEF ConflictEdgeTypes
      <3> QED BY <2>4, <3>1, <3>4, <3>5 DEF OpenConflictEdges, Live, HasLaterResolution
    <2> QED BY <2>2, <2>3, <2>4 DEF ConflictAnswersAgree
  <1> QED BY <1>1, ClaimsInvariance, PTL

\* A step takes no edge away.
LEMMA EdgesGrow ==
    ASSUME ClaimsInv, [ClaimsNext]_vars
    PROVE  edges \subseteq edges'
  <1>1. \A stock, edge : stock \subseteq InsertEdge(stock, edge)
    BY DEF InsertEdge
  <1>2. ASSUME NEW p \in Processes, Step(p) PROVE edges \subseteq edges'
    BY <1>1, <1>2 DEF Step, CompileStep, RunStep, StartCompile, PersistGitRepoSnapshot,
         EnsureCompileSession, PrepareLocalCompileProofs, Promote, PersistProjectRuleClaims,
         FindConflicts, InsertConflict, PersistSymbolDeclarationClaims,
         PersistPackageManifestDependencyClaims, BuildWithClaims, StartRun, ReadAfterRun,
         WithCurrentLocalContextSession, RecordObservation, AgentCandidateSource,
         RecordLocalCandidate, RecordLinkedCandidate, RecordLocalUserDecision,
         RequestLocalUserConfirmation, PersistObservedTestFailureRelations, stored
  <1>3. CASE ResolveLocalConflict
    BY <1>1, <1>3 DEF ResolveLocalConflict
  <1>4. CASE ForeignEdge \/ Switch
    BY <1>4 DEF ForeignEdge, Switch, stored
  <1>5. CASE UNCHANGED vars
    BY <1>5 DEF vars
  <1> QED BY <1>2, <1>3, <1>4, <1>5 DEF ClaimsNext, Step

\* A conflict that was resolved is not opened again by finding it again.
THEOREM ResolutionsLast == ClaimsSpec => ResolvedStaysResolved
  <1>1. ClaimsInv /\ ClaimsInv' /\ [ClaimsNext]_vars =>
          \A edge \in edges \ OpenConflictEdges(edges) :
             ~\E again \in OpenConflictEdges(edges') : SameEdge(again, edge)
    <2> SUFFICES ASSUME ClaimsInv, ClaimsInv', [ClaimsNext]_vars,
                        NEW edge \in edges, NEW again \in OpenConflictEdges(edges'),
                        SameEdge(again, edge)
                 PROVE  edge \in OpenConflictEdges(edges)
      OBVIOUS
    <2>1. edges \subseteq edges'
      BY EdgesGrow
    <2>2. again \in edges' /\ again.type \in ConflictEdgeTypes
      BY DEF OpenConflictEdges
    <2>3. again = edge
      BY <2>1, <2>2 DEF ClaimsInv, EdgesSound
    <2> QED BY <2>1, <2>3 DEF OpenConflictEdges
  <1> QED BY <1>1, ClaimsInvariance, PTL DEF ClaimsSpec, ResolvedStaysResolved

=============================================================================
