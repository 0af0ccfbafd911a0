-------------------------------- MODULE Claims --------------------------------
(***************************************************************************)
(* How durable claims come to be, and whom they hold for.                  *)
(*                                                                         *)
(* `grape compile` reads the worktree once, persists that snapshot, opens  *)
(* its session and then promotes what the snapshot says, one statement     *)
(* after the other and outside any transaction: source excerpts, project   *)
(* rules, the conflicts between rules, symbols, manifest dependencies.     *)
(* `grape run` and `grape test` run a command and record its result in one *)
(* transaction, if the session still stands where the worktree is; agents  *)
(* report results, candidates and user decisions under the same condition. *)
(* `grape conflicts --resolve` adds an edge.  Every row is inserted or     *)
(* left as it was; nothing here updates or deletes a claim.  Processes are *)
(* interleaved at every statement; one that dies is one that never takes   *)
(* its next step, and what it inserted stays.                              *)
(*                                                                         *)
(* A tree stands for one state of the repository: its name is the hash of  *)
(* the worktree.  What was parsed out of a file depends on the hash of the *)
(* file alone (Contents).  The candidate rows a promotion writes beside    *)
(* its claims are left out: nothing here reads one back.                   *)
(***************************************************************************)
EXTENDS ClaimPolicy

CONSTANTS
    Trees,          \* name of a worktree |-> [branch, commit, files: ref |-> hash, dirty]
    FirstTree,      \* where the worktree is at the start
    RefTypes,       \* ref |-> the type of the source it is
    SourceKinds,    \* ref |-> the kind of file it is: "source", "test", "rule"...
    Roots,          \* ref |-> the package it is in, or None
    Contents,       \* hash |-> [rules, symbols, dependencies]
    Requests,       \* what compiles ask: [session, env, named, selected]: named are the
                    \* files and tests the task names, selected what it leads to
    TestFiles,      \* the refs a test run names as its tests
    Blamed,         \* the refs the output of a failing test leads to
    RunKinds,       \* what may be recorded: [what, passed, authority], with what a
                    \* "result" of a command, a "candidate", a "decision" or
                    \* the request of a "confirmation"
    ForeignEdges,   \* edges other tools may have stored between rules: [type, by]
    Processes,
    MaxCompiles, MaxRuns, MaxForeign, MaxResolutions, MaxMoves

Sessions == {request.session : request \in Requests}

\* What is there has a name, and a repository is on a branch, at a commit.
ASSUME NoneIsAbsent ==
    /\ None \notin DOMAIN Trees \cup Sessions
    /\ \A tree \in DOMAIN Trees : None \notin {Trees[tree].branch, Trees[tree].commit}

ASSUME FirstTreeIsTree == FirstTree \in DOMAIN Trees

\* A recorded run, and what it may be.
Run == [id : Nat, session : Sessions, tree : DOMAIN Trees, passed : BOOLEAN,
        authority : {"grape", "agent_reported"}]

ASSUME NoneIsNoRun == None \notin Run

ASSUME RunKindsAreKinds ==
    RunKinds \subseteq [what : {"result", "candidate", "decision", "confirmation"},
                        passed : BOOLEAN, authority : {"grape", "agent_reported"}]

VARIABLES
    work,        \* the tree the worktree is at
    snapshots,   \* the trees whose snapshot, sources and index are persisted
    sessions,    \* session |-> the tree its row stands at, or None
    observed,    \* the runs recorded: [id, session, tree, passed, authority]
    evidence,    \* what agents reported besides: [id, session, tree, type]
    candidates,  \* the claims agents proposed: [source, session, tree]
    proofs,      \* the proofs inserted, by the draft they prove
    attached,    \* the proofs attached to the claim of their draft
    claims,      \* the durable claims: [draft, env]
    edges,       \* the edges between claims
    clock,       \* the last `now` a command took
    job,         \* process |-> what it is doing
    spent,       \* how often each bounded action happened
    opened,      \* history: every <<session, tree>> a session row stood at
    completed    \* history: the compiles that ended, with what they accepted

reported == <<evidence, candidates>>
vars == <<work, snapshots, sessions, observed, reported, proofs, attached, claims, edges,
          clock, job, spent, opened, completed>>
stored == <<snapshots, sessions, observed, reported, proofs, attached, claims, edges,
            opened, completed>>

----------------------------------------------------------------------------
(* Sources *)

SourceScopeForPath(tree, ref) ==
    IF ref \in Trees[tree].dirty THEN "unstaged" ELSE "committed"

FileSource(tree, ref) ==
    [id |-> <<tree, ref>>, type |-> RefTypes[ref], kind |-> SourceKinds[ref],
     hash |-> Trees[tree].files[ref],
     trust |-> ClassifySourceTrust(RefTypes[ref], "allowed", "not_needed"),
     privacy |-> "allowed", redaction |-> "not_needed"]

\* A result reported by an agent is never trusted; one Grape saw itself is.
RunSource(run) ==
    [id |-> run.id, type |-> "test_run", hash |-> run,
     trust |-> IF run.authority = "grape" THEN "trusted" ELSE "temporary",
     privacy |-> "allowed", redaction |-> "redacted"]

----------------------------------------------------------------------------
(* Drafts: what a snapshot or a run proposes as a claim *)

RunTypes == {"grape_observed_run_result", "observed_test_failure_span_link"}

\* run is None for what was read in a file.
Draft(type, tree, ref, item, run) ==
    [type |-> type, tree |-> tree, ref |-> ref, item |-> item, run |-> run]

SourceOf(draft) ==
    IF draft.run = None THEN FileSource(draft.tree, draft.ref) ELSE RunSource(draft.run)

ProofOf(draft) ==
    [source  |-> SourceOf(draft).id,
     type    |-> CHOOSE t \in DurableClaimPolicies[draft.type].proofTypes : TRUE,
     hash    |-> SourceOf(draft).hash,
     excerpt |-> draft.item,
     support |-> "direct"]

ExcerptDraft(tree, ref) ==
    Draft("repository_source_excerpt_exists", tree, ref,
          [text |-> Trees[tree].files[ref]], None)

RuleDrafts(tree, ref) ==
    {Draft("project_rule", tree, ref, rule, None) : rule \in Contents[Trees[tree].files[ref]].rules}

\* What the excerpts cover, as long as it declares something.
IsDeclarationLikeSymbol(symbol) == symbol.kind \notin {"module", "unknown"}
SymbolsCoveredByExcerpts(tree, ref) ==
    {s \in Contents[Trees[tree].files[ref]].symbols : s.covered /\ IsDeclarationLikeSymbol(s)}

SymbolDrafts(tree, ref) ==
    {Draft("repository_symbol_declaration_exists", tree, ref, symbol, None) :
        symbol \in SymbolsCoveredByExcerpts(tree, ref)}

DependencyDrafts(tree, ref) ==
    {Draft("package_manifest_dependency_exists", tree, ref, entry, None) :
        entry \in Contents[Trees[tree].files[ref]].dependencies}

RunRef == "observed run"

RunDraft(run) ==
    Draft("grape_observed_run_result", run.tree, RunRef, [passed |-> run.passed], run)

LinkDraft(run, linked) ==
    Draft("observed_test_failure_span_link", run.tree, RunRef, [linked |-> linked], run)

\* Every kind of claim has a gate of its own.
Gate(type, source, proof, item) ==
    CASE type = "repository_source_excerpt_exists" ->
            SourceExcerptClaimGate(source, proof, item)
      [] type = "project_rule" -> ProjectRuleClaimGate(source, proof, item)
      [] type = "repository_symbol_declaration_exists" ->
            SymbolDeclarationClaimGate(source, proof, item)
      [] type = "package_manifest_dependency_exists" ->
            PackageManifestDependencyClaimGate(source, proof, item)
      [] type = "grape_observed_run_result" -> ObservedRunClaimGate(source, proof, item)
      [] type = "observed_test_failure_span_link" ->
            ObservedTestFailureRelationClaimGate(source, proof, item)

Accepted(drafts) == {d \in drafts : Gate(d.type, SourceOf(d), ProofOf(d), d.item)}

\* An excerpt is read again from the worktree, and only kept while it is the
\* text the snapshot hashed.
ReadableRefs(tree, refs) ==
    {ref \in refs \cap DOMAIN Trees[tree].files :
        /\ ref \in DOMAIN Trees[work].files
        /\ Trees[work].files[ref] = Trees[tree].files[ref]}

\* The exact source of an excerpt must be trusted and allowed.
ValidExactSource(source) ==
    /\ source.trust = "trusted"
    /\ source.privacy = "allowed"
    /\ source.redaction # "blocked"
    /\ source.type \in FileSourceTypes

ExcerptRefs(tree, refs) ==
    {ref \in ReadableRefs(tree, refs) : ValidExactSource(FileSource(tree, ref))}

\* What a compile reads: the files it selected, all of them when it selected none,
\* and every rule file, as long as their type can be quoted and they can be trusted.
SelectedExactSources(tree, selected) ==
    {ref \in DOMAIN Trees[tree].files :
        /\ FileSource(tree, ref).privacy = "allowed"
        /\ FileSource(tree, ref).redaction # "blocked"
        /\ FileSource(tree, ref).trust = "trusted"
        /\ RefTypes[ref] \in FileSourceTypes
        /\ \/ RefTypes[ref] = "rule_file"
           \/ selected = {}
           \/ ref \in selected}

----------------------------------------------------------------------------
(* The scope a claim is stamped with *)

PackageRootOf(draft) == IF draft.run = None THEN Roots[draft.ref] ELSE None

ScopeOf(claim) ==
    LET draft == claim.draft IN
    [branch      |-> Trees[draft.tree].branch,
     commit      |-> Trees[draft.tree].commit,
     environment |-> claim.env,
     flags       |-> None,
     packageRoot |-> PackageRootOf(draft),
     session     |-> IF draft.run = None THEN None ELSE draft.run.session,
     sourceScope |-> IF draft.run = None THEN SourceScopeForPath(draft.tree, draft.ref)
                     ELSE "external",
     worktree    |-> draft.tree,
     sourceRef   |-> draft.ref]

PolicyClaim(claim) ==
    [id |-> claim.draft, subject |-> <<claim.draft.ref, claim.draft.type>>,
     type |-> claim.draft.type, scope |-> ScopeOf(claim)]

----------------------------------------------------------------------------
(* Reading: which claims hold for a reader [tree, session, env, root] *)

\* Mutant: a claim is matched with the source it was read in, not with the file.
SourceHashesMatchStored(draft, tree) == "match"
\* A file claim needs the very file it was read in; the result of a run is not
\* in any file.
SourceHashesMatch(draft, tree) ==
    IF draft.run # None THEN "match"
    ELSE IF draft.ref \in DOMAIN Trees[tree].files
         THEN Compare(Trees[tree].files[draft.ref], SourceOf(draft).hash)
    ELSE "mismatch"

ClaimPolicyStatus(draft) ==
    IF EvaluateDurableClaimPolicy(PolicyDefaults(draft.type), ProofOf(draft), SourceOf(draft))
    THEN "allowed" ELSE "blocked"

Blocked == ClaimIdsBlockedByActiveClaimEdges({PolicyClaim(claim) : claim \in claims}, edges)

ToCurrentValidCandidate(claim, reader, blocked) ==
    LET draft == claim.draft
        scope == ScopeOf(claim)
        has   == draft \in attached
    IN [verification |-> "verified",
        proofs       |-> {draft} \cap attached,
        sourceHash   |-> IF has THEN SourceHashesMatch(draft, reader.tree) ELSE "unknown",
        proofHash    |-> IF has THEN Compare(ProofOf(draft).excerpt, draft.item) ELSE "unknown",
        contradicted |-> draft \in blocked,
        privacy      |-> SourceOf(draft).privacy,
        dirtyScope   |-> DirtyScopeStatus(scope, reader.tree),
        policy       |-> ClaimPolicyStatus(draft),
        scope        |-> ResolveCurrentScope(scope,
                            [branch |-> Trees[reader.tree].branch,
                             commit |-> Trees[reader.tree].commit,
                             environment |-> reader.env, flags |-> None,
                             packageRoot |-> reader.root, session |-> reader.session])]

IsActive(claim, reader, blocked) ==
    CurrentValid(ToCurrentValidCandidate(claim, reader, blocked))

ActiveClaims(reader) ==
    LET blocked == Blocked IN {claim \in claims : IsActive(claim, reader, blocked)}

\* The declaration lies in what this compile has an excerpt of.
SymbolDeclarationCoveredByTaskExcerpt(draft, excerpted) ==
    draft.ref \in excerpted /\ draft.item.covered

\* A compile only shows what bears on the refs it selected, and every rule.
TaskScopedClaimMatches(claim, selected, excerpted, session) ==
    LET draft == claim.draft IN
    CASE draft.type = "project_rule" -> TRUE
      [] draft.type = "grape_observed_run_result" ->
            draft.run.session = session /\ TestFiles \cap selected # {}
      [] draft.type = "observed_test_failure_span_link" ->
            draft.run.session = session /\ (draft.item.linked \cup TestFiles) \cap selected # {}
      [] draft.type = "package_manifest_dependency_exists" ->
            \/ draft.ref \in selected
            \/ Roots[draft.ref] # None /\ \E ref \in selected : Roots[ref] = Roots[draft.ref]
      [] draft.type = "repository_symbol_declaration_exists" ->
            /\ draft.ref \in selected
            /\ SymbolDeclarationCoveredByTaskExcerpt(draft, excerpted)
      [] OTHER -> draft.ref \in selected

SelectTaskScopedClaims(active, selected, excerpted, session) ==
    IF selected = {} THEN active
    ELSE {claim \in active : TaskScopedClaimMatches(claim, selected, excerpted, session)}

----------------------------------------------------------------------------
(* Statements: a row is inserted, or left as it was *)

\* Mutant: a claim is written again for another environment.
InsertClaimPerEnvironment(draft, env) == claims' = claims \cup {[draft |-> draft, env |-> env]}
\* The first compile that gets there stamps its environment.
InsertClaim(draft, env) ==
    claims' = IF \E claim \in claims : claim.draft = draft THEN claims
              ELSE claims \cup {[draft |-> draft, env |-> env]}

InsertProof(draft) == proofs' = proofs \cup {draft}

\* The proof is attached whoever inserted the claim: the compile that did may
\* have died before it got here.
\* Mutant: only the compile that inserted the claim attaches its proof.
AttachProofIfInserted(draft, inserted) ==
    attached' = IF inserted THEN attached \cup {draft} ELSE attached
AttachProofToClaim(draft, inserted) == attached' = attached \cup {draft}

\* The id of an edge: of its type, its claims, and the edge it resolves if any.
SameEdge(a, b) == a.type = b.type /\ PairOf(a) = PairOf(b) /\ a.of = b.of

\* Mutant: an edge found again is written again, with a new date.
UpsertEdge(stock, edge) == {other \in stock : ~SameEdge(other, edge)} \cup {edge}
InsertEdge(stock, edge) ==
    IF \E other \in stock : SameEdge(other, edge) THEN stock ELSE stock \cup {edge}

----------------------------------------------------------------------------
(* `grape compile` *)

Idle == [phase |-> "idle"]

\* The bounds: so many of each, and what is recorded for a session is not mixed
\* with edges by hand, which touch none of its rows.
May(what, most) ==
    /\ spent[what] < most
    /\ IF what = "runs" THEN spent.foreign + spent.resolutions = 0 ELSE spent.runs = 0
Took(what) == spent' = [spent EXCEPT ![what] = @ + 1]
Tick == clock' = clock + 1

\* The package a task is about: the one all it names is in, among what is there.
CurrentPackageRoot(tree, refs) ==
    LET roots == {Roots[ref] : ref \in refs \cap DOMAIN Trees[tree].files} \ {None} IN
    IF Cardinality(roots) = 1 THEN CHOOSE root \in roots : TRUE ELSE None

Reader(tree, request) ==
    [tree |-> tree, env |-> request.env, session |-> request.session,
     root |-> CurrentPackageRoot(tree, request.named)]
ReaderOf(j) == Reader(j.tree, j.request)

\* The worktree is read before the database is opened.
StartCompile(p) ==
    /\ job[p] = Idle /\ spent.compiles < MaxCompiles
    /\ \E request \in Requests :
         job' = [job EXCEPT ![p] = [phase |-> "read", now |-> clock + 1, tree |-> work,
                                   request |-> request, existed |-> FALSE, todo |-> {},
                                   pairs |-> {}, stage |-> "proof", inserted |-> FALSE,
                                   accepted |-> {}]]
    /\ Took("compiles") /\ Tick
    /\ UNCHANGED <<work, stored>>

PersistGitRepoSnapshot(p) ==
    /\ job[p].phase = "read"
    /\ snapshots' = snapshots \cup {job[p].tree}
    /\ job' = [job EXCEPT ![p].phase = "snapshot"]
    /\ UNCHANGED <<work, sessions, observed, reported, proofs, attached, claims, edges, clock,
                   spent, opened, completed>>

StandAt(session, tree) ==
    /\ sessions' = [sessions EXCEPT ![session] = tree]
    /\ opened' = opened \cup {<<session, tree>>}

\* The row of a session that exists stays where its last build left it until this one's
\* build moves it; a row that is inserted is where it is to be.
EnsureCompileSession(p) ==
    LET session == job[p].request.session IN
    /\ job[p].phase = "snapshot"
    /\ job' = [job EXCEPT ![p].phase = "proofs", ![p].existed = (sessions[session] # None)]
    /\ IF sessions[session] = None THEN StandAt(session, job[p].tree)
       ELSE UNCHANGED <<sessions, opened>>
    /\ UNCHANGED <<work, snapshots, observed, reported, proofs, attached, claims, edges, clock,
                   spent, completed>>

\* Go on with these drafts; those of excerpts have their proofs already.
Enter(p, phase, drafts) ==
    job' = [job EXCEPT ![p].phase = phase, ![p].todo = drafts,
                      ![p].stage = IF phase = "excerpts" THEN "claim" ELSE "proof",
                      ![p].accepted = @ \cup drafts]

\* The selected files and the rules are read again and their excerpts proved in one transaction.
PrepareLocalCompileProofs(p) ==
    /\ job[p].phase = "proofs"
    /\ LET refs == SelectedExactSources(job[p].tree, job[p].request.selected)
           drafts == {ExcerptDraft(job[p].tree, ref) : ref \in ExcerptRefs(job[p].tree, refs)}
       IN /\ proofs' = proofs \cup drafts
          /\ Enter(p, "excerpts", Accepted(drafts))
    /\ UNCHANGED <<work, snapshots, sessions, observed, reported, attached, claims, edges, clock,
                   spent, opened, completed>>

Promoting == {"excerpts", "rules", "symbols", "manifests"}

\* One statement of the promotion of one draft.
Promote(p) ==
    LET j == job[p]
        draft == CHOOSE d \in j.todo : TRUE
    IN /\ j.phase \in Promoting /\ j.todo # {}
       /\ \/ /\ j.stage = "proof"
             /\ InsertProof(draft)
             /\ job' = [job EXCEPT ![p].stage = "claim"]
             /\ UNCHANGED <<claims, attached>>
          \/ /\ j.stage = "claim"
             /\ InsertClaim(draft, j.request.env)
             /\ job' = [job EXCEPT ![p].stage = "attach",
                                   ![p].inserted = ~\E c \in claims : c.draft = draft]
             /\ UNCHANGED <<proofs, attached>>
          \/ /\ j.stage = "attach"
             /\ AttachProofToClaim(draft, j.inserted)
             /\ job' = [job EXCEPT ![p].todo = @ \ {draft},
                                   ![p].stage = IF j.phase = "excerpts" THEN "claim" ELSE "proof"]
             /\ UNCHANGED <<proofs, claims>>
       /\ UNCHANGED <<work, snapshots, sessions, observed, reported, edges, clock, spent, opened,
                      completed>>

ExcerptedRefs(j) ==
    {d.ref : d \in {a \in j.accepted : a.type = "repository_source_excerpt_exists"}}

PersistProjectRuleClaims(p) ==
    /\ job[p].phase = "excerpts" /\ job[p].todo = {}
    /\ LET rules == UNION {RuleDrafts(job[p].tree, ref) :
                            ref \in {r \in ExcerptedRefs(job[p]) : RefTypes[r] = "rule_file"}}
       IN Enter(p, "rules", Accepted(rules))
    /\ UNCHANGED <<work, stored, clock, spent>>

RuleClaims == {claim \in claims : claim.draft.type = "project_rule"}

\* Every rule ever claimed is compared with every other, whatever their scopes.
DetectProjectRuleConflicts ==
    LET rules == {claim.draft : claim \in RuleClaims}
    IN {pair \in SUBSET rules :
          \E a, b \in pair : pair = {a, b} /\ RulesConflict(a.item, b.item)}

\* The pairs are found in one query and their edges inserted one by one.
FindConflicts(p) ==
    /\ job[p].phase = "rules" /\ job[p].todo = {}
    /\ job' = [job EXCEPT ![p].phase = "conflicts", ![p].pairs = DetectProjectRuleConflicts]
    /\ UNCHANGED <<work, stored, clock, spent>>

\* The two ends are ordered by claim id: any fixed order will do.
ConflictEdge(pair, now) ==
    LET from == CHOOSE d \in pair : TRUE IN
    [from |-> from, to |-> CHOOSE d \in pair : d # from,
     type |-> "needs_review", by |-> "deterministic_rule", at |-> now, of |-> 0]

InsertConflict(p) ==
    /\ job[p].phase = "conflicts" /\ job[p].pairs # {}
    /\ LET pair == CHOOSE c \in job[p].pairs : TRUE IN
       /\ edges' = InsertEdge(edges, ConflictEdge(pair, job[p].now))
       /\ job' = [job EXCEPT ![p].pairs = @ \ {pair}]
    /\ UNCHANGED <<work, snapshots, sessions, observed, reported, proofs, attached, claims, clock,
                   spent, opened, completed>>

PersistSymbolDeclarationClaims(p) ==
    /\ job[p].phase = "conflicts" /\ job[p].pairs = {}
    /\ LET symbols == UNION {SymbolDrafts(job[p].tree, ref) : ref \in ExcerptedRefs(job[p])}
       IN Enter(p, "symbols", Accepted(symbols))
    /\ UNCHANGED <<work, stored, clock, spent>>

\* Every manifest of the snapshot, selected or not, as long as it still reads
\* the same.
PersistPackageManifestDependencyClaims(p) ==
    /\ job[p].phase = "symbols" /\ job[p].todo = {}
    /\ LET manifests == {ref \in ReadableRefs(job[p].tree, DOMAIN Trees[job[p].tree].files) :
                            RefTypes[ref] = "config_file"}
           entries == UNION {DependencyDrafts(job[p].tree, ref) : ref \in manifests}
       IN Enter(p, "manifests", Accepted(entries))
    /\ UNCHANGED <<work, stored, clock, spent>>

\* The claims are resolved once more, and the build commits with them: one step, because the
\* build does not read claims again.
BuildWithClaims(p) ==
    LET j == job[p] IN
    /\ j.phase = "manifests" /\ j.todo = {}
    /\ IF j.existed THEN StandAt(j.request.session, j.tree) ELSE UNCHANGED <<sessions, opened>>
    /\ completed' = completed \cup
         {[reader |-> ReaderOf(j), accepted |-> j.accepted,
           shown |-> SelectTaskScopedClaims(ActiveClaims(ReaderOf(j)), j.request.selected,
                                            ExcerptedRefs(j), j.request.session)]}
    /\ job' = [job EXCEPT ![p] = Idle]
    /\ UNCHANGED <<work, snapshots, observed, reported, proofs, attached, claims, edges, clock,
                   spent>>

----------------------------------------------------------------------------
(* `grape run`, `grape test`, and what an agent reports *)

\* A command runs in whatever the worktree is, and may take long.
StartRun(p) ==
    /\ job[p] = Idle /\ May("runs", MaxRuns)
    /\ \E session \in Sessions, kind \in RunKinds :
         job' = [job EXCEPT ![p] =
                   [phase |-> "running", session |-> session, run |-> kind,
                    id |-> clock + 1]]
    /\ Took("runs") /\ Tick
    /\ UNCHANGED <<work, stored>>

\* The worktree is read when the command has ended.
ReadAfterRun(p) ==
    /\ job[p].phase = "running"
    /\ job' = [job EXCEPT ![p] = [phase |-> "ran", tree |-> work, id |-> job[p].id,
                                  session |-> job[p].session, run |-> job[p].run]]
    /\ UNCHANGED <<work, stored, clock, spent>>

\* Mutant: only the branch and the commit are compared, not the worktree.
SessionOnCommit(session, tree) ==
    /\ sessions[session] # None
    /\ Trees[sessions[session]].branch = Trees[tree].branch
    /\ Trees[sessions[session]].commit = Trees[tree].commit
\* The session stands at the branch, the commit and the worktree.
SessionIsCurrent(session, tree) == sessions[session] = tree

\* The snapshot is persisted in one transaction; the session row is read after
\* it and outside of the transaction that records the result.
WithCurrentLocalContextSession(p) ==
    /\ job[p].phase = "ran"
    /\ snapshots' = snapshots \cup {job[p].tree}
    /\ job' = [job EXCEPT ![p] = IF SessionIsCurrent(@.session, @.tree)
                                 THEN [@ EXCEPT !.phase = "recording"] ELSE Idle]
    /\ UNCHANGED <<work, sessions, observed, reported, proofs, attached, claims, edges, clock,
                   spent, opened, completed>>

RunOf(j) ==
    [id |-> j.id, session |-> j.session, tree |-> j.tree,
     passed |-> j.run.passed, authority |-> j.run.authority]

\* A failing run is linked to the files its output leads to, as long as they
\* still read the same.
LinkedRefs(run) ==
    IF run.passed THEN {} ELSE ExcerptRefs(run.tree, Blamed)

LinkDrafts(run) == {LinkDraft(run, linked) : linked \in {LinkedRefs(run)} \ {{}}}

PersistObservedRunResultClaim(run) ==
    IF run.authority = "grape" THEN Accepted({RunDraft(run)}) ELSE {}

LinkEdge(run, link) ==
    [from |-> RunDraft(run), to |-> link, type |-> "related_to",
     by |-> "grape_observed", at |-> run.id, of |-> 0]

\* What was claimed of a failing test: its exact excerpts are proved, then the
\* link to them is, and the edge to the link is inserted.
PersistObservedTestFailureRelations(run, links) ==
    /\ proofs' = proofs \cup PersistObservedRunResultClaim(run) \cup links
         \cup {ExcerptDraft(run.tree, ref) : ref \in UNION {link.item.linked : link \in links}}
    /\ edges' = edges \cup {LinkEdge(run, link) : link \in Accepted(links)}

\* One transaction: the source, its proof and its claim, and what follows from
\* the failure of a test once that claim is there.
RecordObservation(p) ==
    LET run      == RunOf(job[p])
        promoted == PersistObservedRunResultClaim(run)
        links    == IF promoted = {} THEN {} ELSE LinkDrafts(run)
        new      == promoted \cup Accepted(links)
    IN
    /\ job[p].phase = "recording" /\ job[p].run.what = "result"
    /\ observed' = observed \cup {run}
    /\ PersistObservedTestFailureRelations(run, links)
    /\ attached' = attached \cup new
    /\ claims' = claims \cup {[draft |-> d, env |-> None] : d \in new}
    /\ job' = [job EXCEPT ![p] = Idle]
    /\ UNCHANGED <<work, snapshots, sessions, reported, clock, spent, opened, completed>>

\* What an agent reports is a source of the session's snapshot.  Its id is the
\* hash of what is reported, so that the same report is one row.
ReportedSource(j, type) ==
    [id |-> <<j.session, j.tree, type>>, session |-> j.session, tree |-> j.tree, type |-> type]

BuildAgentCandidateSource(j) == ReportedSource(j, "assistant_response")
BuildAgentUserDecisionSource(j) == ReportedSource(j, "user_message")

InsertCandidate(j, source) ==
    candidates' =
        IF \E c \in candidates : c.session = j.session /\ c.tree = j.tree THEN candidates
        ELSE candidates \cup {[source |-> source, session |-> j.session, tree |-> j.tree]}

\* A candidate that names no source becomes one itself, in a statement before
\* its own.
AgentCandidateSource(p) ==
    /\ job[p].phase = "recording" /\ job[p].run.what = "candidate"
    /\ evidence' = evidence \cup {BuildAgentCandidateSource(job[p])}
    /\ job' = [job EXCEPT ![p].phase = "candidate"]
    /\ UNCHANGED <<work, snapshots, sessions, observed, candidates, proofs, attached, claims,
                   edges, clock, spent, opened, completed>>

RecordLocalCandidate(p) ==
    /\ job[p].phase = "candidate"
    /\ InsertCandidate(job[p], BuildAgentCandidateSource(job[p]).id)
    /\ job' = [job EXCEPT ![p] = Idle]
    /\ UNCHANGED <<work, snapshots, sessions, observed, evidence, proofs, attached, claims,
                   edges, clock, spent, opened, completed>>

\* One that names a source is only taken if the source is of this very snapshot.
RecordLinkedCandidate(p) ==
    /\ job[p].phase = "recording" /\ job[p].run.what = "candidate"
    /\ \E tree \in snapshots : \E ref \in DOMAIN Trees[tree].files :
         IF tree = job[p].tree THEN InsertCandidate(job[p], FileSource(tree, ref).id)
         ELSE UNCHANGED candidates
    /\ job' = [job EXCEPT ![p] = Idle]
    /\ UNCHANGED <<work, snapshots, sessions, observed, evidence, proofs, attached, claims,
                   edges, clock, spent, opened, completed>>

RecordLocalUserDecision(p) ==
    /\ job[p].phase = "recording" /\ job[p].run.what = "decision"
    /\ evidence' = evidence \cup {BuildAgentUserDecisionSource(job[p])}
    /\ job' = [job EXCEPT ![p] = Idle]
    /\ UNCHANGED <<work, snapshots, sessions, observed, candidates, proofs, attached, claims,
                   edges, clock, spent, opened, completed>>

\* A confirmation is only asked for: the client has to collect it.
RequestLocalUserConfirmation(p) ==
    /\ job[p].phase = "recording" /\ job[p].run.what = "confirmation"
    /\ job' = [job EXCEPT ![p] = Idle]
    /\ UNCHANGED <<work, stored, clock, spent>>

----------------------------------------------------------------------------
(* Edges by hand, and the world around *)

\* `grape conflicts`: what is open, and what of it is about a claim nobody stored.
ListLocalConflicts ==
    LET open == OpenConflictEdges(edges)
        known == {claim.draft : claim \in claims} IN
    [conflicts |-> open,
     missing |-> {edge \in open : ~({edge.from, edge.to} \subseteq known)}]

\* `grape conflicts --resolve`: whether or not the edge is still open.
ResolveLocalConflict ==
    /\ May("resolutions", MaxResolutions)
    /\ \E edge \in {e \in edges : e.type \in ConflictEdgeTypes}, how \in ClosingTypes :
         edges' = InsertEdge(edges,
                    [from |-> edge.from, to |-> edge.to, type |-> how,
                     by |-> "user_confirmation", at |-> clock + 1, of |-> edge.at])
    /\ Took("resolutions") /\ Tick
    /\ UNCHANGED <<work, snapshots, sessions, observed, reported, proofs, attached, claims, job,
                   opened, completed>>

\* Another tool stored an edge between two rules.
ForeignEdge ==
    /\ May("foreign", MaxForeign)
    /\ \E a, b \in RuleClaims, kind \in ForeignEdges :
         /\ a # b
         /\ edges' = edges \cup {[from |-> a.draft, to |-> b.draft, type |-> kind.type,
                                  by |-> kind.by, at |-> clock + 1, of |-> clock + 1]}
    /\ Took("foreign") /\ Tick
    /\ UNCHANGED <<work, snapshots, sessions, observed, reported, proofs, attached, claims, job,
                   opened, completed>>

\* Somebody edits a file, commits or checks out a branch.
Switch ==
    /\ spent.moves < MaxMoves
    /\ work' \in DOMAIN Trees \ {work}
    /\ Took("moves")
    /\ UNCHANGED <<stored, clock, job>>

----------------------------------------------------------------------------
ClaimsInit ==
    /\ work = FirstTree
    /\ snapshots = {} /\ observed = {} /\ evidence = {} /\ candidates = {}
    /\ proofs = {} /\ attached = {}
    /\ claims = {} /\ edges = {} /\ clock = 0
    /\ sessions = [s \in Sessions |-> None]
    /\ job = [p \in Processes |-> Idle]
    /\ spent = [what \in {"compiles", "runs", "foreign", "resolutions", "moves"} |-> 0]
    /\ opened = {} /\ completed = {}

CompileStep(p) ==
    \/ StartCompile(p) \/ PersistGitRepoSnapshot(p) \/ EnsureCompileSession(p)
    \/ PrepareLocalCompileProofs(p) \/ Promote(p)
    \/ PersistProjectRuleClaims(p) \/ FindConflicts(p) \/ InsertConflict(p)
    \/ PersistSymbolDeclarationClaims(p) \/ PersistPackageManifestDependencyClaims(p)
    \/ BuildWithClaims(p)

RunStep(p) ==
    \/ StartRun(p) \/ ReadAfterRun(p)
    \/ WithCurrentLocalContextSession(p) \/ RecordObservation(p)
    \/ AgentCandidateSource(p) \/ RecordLocalCandidate(p) \/ RecordLinkedCandidate(p)
    \/ RecordLocalUserDecision(p) \/ RequestLocalUserConfirmation(p)

ClaimsNext ==
    \/ \E p \in Processes : CompileStep(p) \/ RunStep(p)
    \/ ResolveLocalConflict \/ ForeignEdge \/ Switch

ClaimsSpec == ClaimsInit /\ [][ClaimsNext]_vars

----------------------------------------------------------------------------
(* Properties *)

\* Every claim has one row, was promoted by its gate, and stands on a snapshot
\* or a recorded run; a proof is only attached to a claim that is there.
ClaimsTypeOK ==
    /\ work \in DOMAIN Trees /\ snapshots \subseteq DOMAIN Trees
    /\ \A a, b \in claims : a.draft = b.draft => a = b
    /\ attached \subseteq proofs \cap {claim.draft : claim \in claims}
    /\ \A claim \in claims :
         /\ claim.draft.tree \in snapshots
         /\ claim.draft.run # None => claim.draft.run \in observed
    /\ \A c \in candidates :
         /\ c.tree \in snapshots
         /\ c.source \in {<<c.tree, ref>> : ref \in DOMAIN Trees[c.tree].files}
                          \cup {source.id : source \in {e \in evidence : e.tree = c.tree}}
    /\ \A s \in Sessions : sessions[s] # None => <<s, sessions[s]>> \in opened

\* Every state of the repository, read as any of the requests would.
Readers ==
    {Reader(tree, request) : tree \in DOMAIN Trees, request \in Requests}

\* What a file claim says can be read, in the tree of any reader it is shown to,
\* in the file and at the branch and commit it names.  (current-valid.ts)
SaidBy(draft, tree) ==
    /\ draft.ref \in DOMAIN Trees[tree].files
    /\ LET said == Contents[Trees[tree].files[draft.ref]] IN
       draft.item \in {[text |-> Trees[tree].files[draft.ref]]} \cup said.rules \cup said.symbols
                      \cup said.dependencies
    /\ Trees[tree].branch = Trees[draft.tree].branch
    /\ Trees[tree].commit = Trees[draft.tree].commit

ActiveIsTrue ==
    LET blocked == Blocked IN
    \A claim \in {c \in claims : c.draft.run = None} : \A reader \in Readers :
        SaidBy(claim.draft, reader.tree) \/ ~IsActive(claim, reader, blocked)

\* A result Grape observed is shown to its own session only, and only in the
\* very worktree it was recorded for; nothing an agent reported is ever shown.
RunsStayInTheirWorktree ==
    /\ \A claim \in {c \in claims : c.draft.run # None} : \A reader \in Readers :
         IsActive(claim, reader, {}) =>
            /\ claim.draft.run.tree = reader.tree
            /\ claim.draft.run.session = reader.session
            /\ claim.draft.run.authority = "grape"
    /\ \A done \in completed : \A claim \in done.shown :
        claim.draft.run # None =>
            /\ claim.draft.run.tree = done.reader.tree
            /\ claim.draft.run.session = done.reader.session

\* What a compile that ended had accepted is shown to its reader, also when an
\* earlier process died half way through the same claims: the only ways out are
\* that another environment was stamped first or none is known, that the claim is
\* another package's, and that an edge blocks it.  (claims are inserted or ignored)
CompletedCompilesHold ==
    LET blocked == Blocked IN
    \A done \in completed : \A draft \in done.accepted : \E claim \in claims :
        /\ claim.draft = draft
        /\ \/ IsActive(claim, done.reader, blocked)
           \/ claim.env # done.reader.env \/ claim.env = "unknown"
           \/ PackageRootOf(draft) \notin {None, done.reader.root}
           \/ draft \in blocked

\* A conflict somebody resolved is not open again because a later compile found
\* the same rules again.  (insertOrIgnore of the edge)
ResolvedStaysResolved ==
    [][\A edge \in edges \ OpenConflictEdges(edges) :
          ~\E again \in OpenConflictEdges(edges') : SameEdge(again, edge)]_vars

\* The claims the reader leaves out and the list of open conflicts agree about
\* every contradiction that may block, as long as nothing supersedes the pair; and
\* what the list names is there to be looked at.
ConflictAnswersAgree ==
    /\ ListLocalConflicts.missing = {}
    /\ \A edge \in edges :
          /\ edge.type \in {"contradicts", "violates"} /\ CanBlockCurrentValid(edge)
          /\ ~\E other \in edges : other.type = "supersedes" /\ PairOf(other) = PairOf(edge)
          => (edge \in ListLocalConflicts.conflicts <=> Live(edge, edges))

\* Whatever is recorded for a session is recorded for a worktree the session was
\* compiled in, however the worktree moved meanwhile.  (write-session-context.ts)
RunsFollowCompiles ==
    \A row \in UNION {observed, evidence, candidates} : <<row.session, row.tree>> \in opened
=============================================================================
