----------------------------- MODULE ClaimPolicy -----------------------------
(***************************************************************************)
(* The rules that decide what may become a durable claim, which claims an  *)
(* edge between two of them blocks, which conflicts are still open, and    *)
(* which claims hold for a reader.  All of them are pure.                  *)
(*                                                                         *)
(*   source  [id, type, ref, hash, scope, trust, privacy, redaction]       *)
(*   proof   [source, type, hash, excerpt, support]                        *)
(*   edge    [from, to, type, by, at]                                      *)
(*                                                                         *)
(* Hashes, excerpts and claims are any values that can be compared.        *)
(***************************************************************************)
EXTENDS Integers, FiniteSets, ClaimScope

FileSourceTypes ==
    {"repository_file", "rule_file", "config_file", "lockfile", "migration_file"}

\* A file is only trusted when reading it was allowed; what an agent or a
\* command says is never trusted by its type.
ClassifySourceTrust(type, privacy, redaction) ==
    IF privacy # "allowed" \/ redaction = "blocked" THEN "untrusted"
    ELSE IF type \in FileSourceTypes \cup {"git_diff"} THEN "trusted"
    ELSE "temporary"

----------------------------------------------------------------------------
(* What may be promoted *)

ReadFromSource(proofType, sourceTypes, signal, meaning) ==
    [proofTypes |-> {proofType}, sourceTypes |-> sourceTypes, signals |-> {signal},
     meanings |-> {meaning}, observers |-> {"local_source_reader"},
     redactions |-> {"not_needed", "redacted"}]

SeenByGrape(proofType, sourceTypes, meaning) ==
    [proofTypes |-> {proofType}, sourceTypes |-> sourceTypes,
     signals |-> {"observed_run"}, meanings |-> {meaning}, observers |-> {"grape"},
     redactions |-> {"redacted"}]

\* What one claim type accepts; a type that is not listed is not enabled.
DurableClaimPolicies ==
    [repository_source_excerpt_exists |->
        ReadFromSource("exact_source_excerpt", FileSourceTypes,
                       "exact_source", "source_excerpt_exists"),
     project_rule |->
        ReadFromSource("exact_project_rule_excerpt", {"rule_file"},
                       "exact_rule", "project_rule_exists"),
     repository_symbol_declaration_exists |->
        ReadFromSource("provider_symbol_declaration", {"repository_file"},
                       "exact_source", "symbol_declaration_exists"),
     package_manifest_dependency_exists |->
        ReadFromSource("package_manifest_dependency_entry", {"config_file"},
                       "exact_source", "manifest_dependency_declared"),
     grape_observed_run_result |->
        SeenByGrape("grape_observed_run_result", {"command_run", "test_run"},
                    "observed_run_result"),
     observed_test_failure_span_link |->
        SeenByGrape("observed_test_failure_relation", {"test_run"},
                    "observed_failure_span_link")]

\* The signals that never prove anything.
NonProofSignals ==
    {"agent_text", "compression_artifact", "graph_expansion", "semantic_candidate", "summary"}

\* How a gate describes what it is asked to promote.
PolicyDefaults(claimType) ==
    [claimType |-> claimType,
     meaning   |-> CHOOSE m \in DurableClaimPolicies[claimType].meanings : TRUE,
     observer  |-> CHOOSE o \in DurableClaimPolicies[claimType].observers : TRUE,
     signal    |-> CHOOSE s \in DurableClaimPolicies[claimType].signals : TRUE,
     authority |-> "deterministic"]

EvaluateDurableClaimPolicy(asked, proof, source) ==
    /\ asked.claimType \in DOMAIN DurableClaimPolicies
    /\ asked.authority # "model_inferred"
    /\ asked.signal \notin NonProofSignals
    /\ LET policy == DurableClaimPolicies[asked.claimType] IN
       /\ asked.signal \in policy.signals
       /\ asked.meaning \in policy.meanings
       /\ source.trust = "trusted"
       /\ source.privacy = "allowed"
       /\ source.redaction \in policy.redactions
       /\ source.type \in policy.sourceTypes
       /\ proof.type \in policy.proofTypes
       /\ proof.support = "direct"
       /\ asked.observer \in policy.observers

\* The proof is of this source as it was hashed, and of this excerpt of it.
ProofIsOf(proof, source, excerpt) ==
    /\ proof.source = source.id
    /\ proof.hash = source.hash
    /\ proof.excerpt = excerpt

SourceExcerptClaimGate(source, proof, excerpt) ==
    /\ EvaluateDurableClaimPolicy(PolicyDefaults("repository_source_excerpt_exists"), proof, source)
    /\ ProofIsOf(proof, source, excerpt)

ProjectRuleClaimGate(source, proof, rule) ==
    /\ EvaluateDurableClaimPolicy(PolicyDefaults("project_rule"), proof, source)
    /\ ProofIsOf(proof, source, rule)

ClaimableSymbolKinds ==
    {"function", "class", "method", "interface", "type", "variable", "constant"}

\* symbol: [name, kind, confidence, extractor, body], the body a hash or None
SymbolDeclarationClaimGate(source, proof, symbol) ==
    /\ symbol.confidence = "high"
    /\ symbol.kind \in ClaimableSymbolKinds
    /\ symbol.body # None
    /\ source.kind = "source"
    /\ symbol.extractor = "typescript_ast"
    /\ EvaluateDurableClaimPolicy(PolicyDefaults("repository_symbol_declaration_exists"), proof, source)
    /\ ProofIsOf(proof, source, symbol)

PackageManifestDependencyClaimGate(source, proof, entry) ==
    /\ EvaluateDurableClaimPolicy(PolicyDefaults("package_manifest_dependency_exists"), proof, source)
    /\ ProofIsOf(proof, source, entry)

ObservedRunClaimGate(source, proof, result) ==
    /\ EvaluateDurableClaimPolicy(PolicyDefaults("grape_observed_run_result"), proof, source)
    /\ ProofIsOf(proof, source, result)

ObservedTestFailureRelationClaimGate(source, proof, relation) ==
    /\ EvaluateDurableClaimPolicy(PolicyDefaults("observed_test_failure_span_link"), proof, source)
    /\ proof.hash = source.hash
    /\ proof.excerpt = relation

----------------------------------------------------------------------------
(* Edges between claims *)

BlockingAuthorities ==
    {"user_confirmation", "test_verification", "grape_observed", "trusted_import"}

\* An edge from before authorities were recorded still blocks as a conflict, but
\* never as a replacement.
CanBlockCurrentValid(edge) ==
    \/ edge.type \in {"contradicts", "violates"} /\ edge.by \in BlockingAuthorities \cup {"legacy"}
    \/ edge.type = "supersedes" /\ edge.by \in BlockingAuthorities

CanResolveConflict(edge) ==
    \/ edge.type \in {"coexists_with", "variant_of"} /\ edge.by = "user_confirmation"
    \/ edge.type = "supersedes" /\ CanBlockCurrentValid(edge)

PairOf(edge) == {edge.from, edge.to}

ClosingTypes == {"coexists_with", "variant_of"}

\* Mutant: a resolution only counts in the direction of the edge.
HasLaterDirectedResolution(edge, edges) ==
    \E later \in edges :
        /\ later.type \in ClosingTypes
        /\ later.from = edge.from /\ later.to = edge.to
        /\ later.at > edge.at
        /\ CanResolveConflict(later)
HasLaterResolution(edge, edges) ==
    \E later \in edges :
        /\ later.type \in ClosingTypes
        /\ PairOf(later) = PairOf(edge)
        /\ later.at > edge.at
        /\ CanResolveConflict(later)

Live(edge, edges) == CanBlockCurrentValid(edge) /\ ~HasLaterResolution(edge, edges)

\* claim: [id, subject, type, scope]
CanSupersede(claim, older) ==
    /\ claim.type = older.type
    /\ claim.subject = older.subject
    /\ ClaimScopesCompatibleForSupersession(claim.scope, older.scope) = "match"

\* An edge whose claims are not both there is not known to be disjoint.
MayConflict(edge, claims) ==
    \A a, b \in claims :
        a.id = edge.from /\ b.id = edge.to => ClaimScopesOverlap(a.scope, b.scope) # "mismatch"

Blocks(edge, claims) ==
    CASE edge.type = "contradicts" ->
            IF MayConflict(edge, claims) THEN PairOf(edge) ELSE {}
      [] edge.type = "violates" ->
            IF MayConflict(edge, claims) THEN {edge.from} ELSE {}
      [] edge.type = "supersedes" ->
            {b.id : b \in {c \in claims : /\ c.id = edge.to
                                          /\ \E a \in claims : a.id = edge.from /\ CanSupersede(a, c)}}
      [] OTHER -> {}

ClaimIdsBlockedByActiveClaimEdges(claims, edges) ==
    UNION {Blocks(edge, claims) : edge \in {e \in edges : Live(e, edges)}}

\* What `grape conflicts` lists: it only compares dates, whatever was resolved.
ConflictEdgeTypes == {"contradicts", "violates", "needs_review", "unknown_scope_overlap"}

OpenConflictEdges(edges) ==
    {edge \in edges :
        /\ edge.type \in ConflictEdgeTypes
        /\ \A other \in edges :
             CanResolveConflict(other) /\ PairOf(other) = PairOf(edge) => other.at < edge.at}

----------------------------------------------------------------------------
(* Rules that may oppose each other.  rule: [polarity, topic] *)

\* The words every project_rule claim begins with: the wording that disclaims
\* the rule, then where it was read.  The pattern that should take the latter
\* off only matches at the beginning of the text, where the disclaimer is.
PrefixTokens ==
    {"repository", "rule", "text", "grape", "enforcement", "project", "from", "agents", "line"}

RuleTokens(rule) == PrefixTokens \cup rule.topic

HasConflictOverlap(left, right) ==
    LET common == Cardinality(left \cap right)
        least  == IF Cardinality(left) <= Cardinality(right)
                  THEN Cardinality(left) ELSE Cardinality(right)
    IN common >= 2 /\ 2 * common >= least

RulesConflict(a, b) ==
    /\ {a.polarity, b.polarity} = {"affirmative", "negative"}
    /\ HasConflictOverlap(RuleTokens(a), RuleTokens(b))

----------------------------------------------------------------------------
(* Which claims hold for a reader *)

\* candidate: what was found out about one claim when it was read.
CurrentValid(candidate) ==
    /\ candidate.verification = "verified"
    /\ candidate.proofs # {}
    /\ candidate.sourceHash = "match"
    /\ candidate.proofHash = "match"
    /\ ~candidate.contradicted
    /\ candidate.privacy = "allowed"
    /\ candidate.dirtyScope \in {"not_dirty", "match"}
    /\ candidate.policy = "allowed"
    /\ candidate.scope = "match"
=============================================================================
