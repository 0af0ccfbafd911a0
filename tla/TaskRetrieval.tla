----------------------------- MODULE TaskRetrieval -----------------------------
(***************************************************************************)
(* Which files of a snapshot a task is about.  What is read of the store   *)
(* (see SnapshotStore) is a record                                         *)
(*   refs           the paths of the sources of the snapshot               *)
(*   symbols        its symbols                                            *)
(*   relationships  [kind, from, to]: its import and call edges, by path   *)
(*   hits           [ref, term]: what text search finds for the terms      *)
(* and a request is a record                                               *)
(*   terms, seedTerms     words of the task, words of the seed symbols     *)
(*   files, tests         paths the caller names; mentioned: the task does *)
(*   excluded             the paths the task wants left out                *)
(*   failures             the active claims that link a failure to files,  *)
(*                        see Claims: [tests, spans, linked], a span being *)
(*                        [test, candidate]                                *)
(*   aboutTests           the wording of the task is about tests           *)
(***************************************************************************)
EXTENDS FileIndex, Naturals

CONSTANTS
    MaxSelected,     \* the most files that are selected
    NameTerms,       \* [symbol name -> the terms it contains]
    PathWeights,     \* [path -> [term -> 2 in a segment, 1 across segments]]
    PackageRoots,    \* [path -> the package directory it is in, or None]
    Languages,       \* [path -> its language]
    TestPaths,       \* the paths that look like tests
    PathOrder        \* [path -> its place in the order of the names]

ASSUME MaxSelectedIsNatural == MaxSelected \in Nat

\* Names are compared: no two paths stand in the same place.
ASSUME PathsAreOrdered ==
    /\ \A path \in DOMAIN PathOrder : PathOrder[path] \in Nat
    /\ \A path, other \in DOMAIN PathOrder : PathOrder[path] = PathOrder[other] => path = other

(***************************************************************************)
(* Candidates, and the reasons for each                                    *)
(***************************************************************************)
Allowed(found, request) == found.refs \ request.excluded

\* Files that are there and that the task names by their path.
MentionedRefs(found, request) == request.mentioned \cap Allowed(found, request)

ExplicitSeeds(found, request) ==
    (request.files \cap Allowed(found, request)) \cup MentionedRefs(found, request)

TestSeeds(found, request) == request.tests \cap Allowed(found, request)

MissingSeeds(found, request) ==
    (request.files \cup request.tests) \ Allowed(found, request)

\* A claim names its tests, the spans where a test and the code it blames meet,
\* and whatever else it is linked to; what is a test is no candidate.
ObservedFailureLink(claim) ==
    LET tests == claim.tests \cup {span.test : span \in claim.spans} IN
    [tests      |-> tests,
     candidates |-> ({span.candidate : span \in claim.spans} \cup claim.linked) \ tests]

ObservedFailureLinks(request) == {ObservedFailureLink(claim) : claim \in request.failures}

ObservedFailureRefs(found, request) ==
    (UNION {link.tests \cup link.candidates : link \in ObservedFailureLinks(request)})
        \cap Allowed(found, request)

\* A file has a language once it has a symbol.
Indexed(found) == {symbol.path : symbol \in found.symbols}
LanguageOf(found) ==
    [ref \in found.refs |-> IF ref \in Indexed(found) THEN Languages[ref] ELSE None]

\* Seeds narrow the search to their package, or to themselves when that is not one.
Scoped(found, request) ==
    LET seeds == ExplicitSeeds(found, request) \cup TestSeeds(found, request)
        roots == {PackageRoots[ref] : ref \in seeds} \ {None} IN
    IF seeds = {} THEN found.refs
    ELSE IF Cardinality(roots) # 1 THEN seeds
    ELSE seeds \cup {ref \in found.refs : PackageRoots[ref] \in roots}

TermsOfPath(path) == DOMAIN PathWeights[path]
TermsOfName(symbol) ==
    IF symbol = Module(symbol.path) THEN TermsOfPath(symbol.path) ELSE NameTerms[symbol.name]

SymbolMatches(found, request) ==
    {symbol.path : symbol \in {s \in found.symbols :
        /\ s.path \in Allowed(found, request)
        /\ s.path \in Scoped(found, request) \/ TermsOfName(s) \cap request.seedTerms # {}
        /\ (TermsOfName(s) \cup TermsOfPath(s.path)) \cap request.terms # {}}}

GraphRelated(found, request, from) ==
    {r.to : r \in {rel \in found.relationships : rel.from \in from /\ rel.to # rel.from}}
        \cap Allowed(found, request)

RelatedTests(found, request, targets) ==
    {r.from : r \in {rel \in found.relationships : rel.to \in targets}}
        \cap TestPaths \cap Allowed(found, request)

LexicalMatches(found, request) ==
    {hit.ref : hit \in found.hits} \cap Allowed(found, request) \cap Scoped(found, request)

\* What search finds is expanded too, but what an expansion adds is not.
RefsFor(found, request) ==
    LET direct == ExplicitSeeds(found, request) \cup TestSeeds(found, request)
                    \cup ObservedFailureRefs(found, request) \cup SymbolMatches(found, request)
        lexical == LexicalMatches(found, request)
        near == GraphRelated(found, request, direct) IN
    [explicit_seed |-> ExplicitSeeds(found, request),
     test_seed |-> TestSeeds(found, request),
     observed_failure_link |-> ObservedFailureRefs(found, request),
     symbol_match |-> SymbolMatches(found, request),
     graph_related |-> near \cup GraphRelated(found, request, lexical),
     related_test |-> RelatedTests(found, request, direct \cup near \cup lexical),
     lexical_match |-> lexical]

CandidateRefs(refsFor) == UNION {refsFor[reason] : reason \in DOMAIN refsFor}

(***************************************************************************)
(* Ranking: symbols count most, then text, then the path                   *)
(***************************************************************************)
Score(found, request, ref) ==
    LET symbols == {s \in found.symbols : s.path = ref /\ s # Module(ref)}
        named == {pair \in symbols \X request.terms : pair[2] \in NameTerms[pair[1].name]}
        read == {hit \in found.hits : hit.ref = ref}
        weights == PathWeights[ref]
        segments == {term \in TermsOfPath(ref) \cap request.terms : weights[term] = 2}
        across == {term \in TermsOfPath(ref) \cap request.terms : weights[term] = 1} IN
    5 * Cardinality(named) + 3 * Cardinality(read)
        + 2 * Cardinality(segments) + Cardinality(across)

\* An order of refs is a set of pairs of an earlier one and a later one.
RankOrder(found, request, refs) ==
    {pair \in refs \X refs :
        \/ Score(found, request, pair[1]) > Score(found, request, pair[2])
        \/ /\ Score(found, request, pair[1]) = Score(found, request, pair[2])
           /\ PathOrder[pair[1]] < PathOrder[pair[2]]}

\* How many of refs come before ref, and the most refs that come first.
CountBefore(refs, order, ref) == Cardinality({other \in refs : <<other, ref>> \in order})
First(most, refs, order) == {ref \in refs : CountBefore(refs, order, ref) < most}

Group(refs, groupOf, key) == {ref \in refs : groupOf[ref] = key}
GroupKeys(refs, groupOf) == {groupOf[ref] : ref \in refs}

\* Groups stand in the order of their first refs; what has no group comes last.
GroupBefore(refs, order, groupOf, key, other) ==
    /\ key # None
    /\ \/ other = None
       \/ \E first \in Group(refs, groupOf, key) :
             \A ref \in Group(refs, groupOf, other) : <<first, ref>> \in order

\* The first of each group, then the second of each, and so on; within a group, by `within`.
RoundRobin(refs, order, within, groupOf) ==
    LET Round(ref) == CountBefore(Group(refs, groupOf, groupOf[ref]), within, ref) IN
    {pair \in refs \X refs :
        \/ Round(pair[1]) < Round(pair[2])
        \/ /\ Round(pair[1]) = Round(pair[2])
           /\ GroupBefore(refs, order, groupOf, groupOf[pair[1]], groupOf[pair[2]])}

HasGroups(refs, groupOf) == Cardinality(GroupKeys(refs, groupOf) \ {None}) >= 2

\* Nothing is spread when there is nothing to tell apart.
SpreadEvidenceRoles(refs, order, roleOf) ==
    IF ~HasGroups(refs, roleOf) THEN order \cap (refs \X refs)
    ELSE RoundRobin(refs, order, order, roleOf)

SpreadLanguages(refs, order, languageOf, roleOf) ==
    LET Spread(group) == SpreadEvidenceRoles(group, order, roleOf) IN
    IF ~HasGroups(refs, languageOf) THEN Spread(refs)
    ELSE RoundRobin(refs, order,
             UNION {Spread(Group(refs, languageOf, key)) : key \in GroupKeys(refs, languageOf)},
             languageOf)

SpreadPackages(refs, order, languageOf, roleOf) ==
    LET Spread(group) == SpreadLanguages(group, order, languageOf, roleOf) IN
    IF ~HasGroups(refs, PackageRoots) THEN Spread(refs)
    ELSE RoundRobin(refs, order,
             UNION {Spread(Group(refs, PackageRoots, key)) : key \in GroupKeys(refs, PackageRoots)},
             PackageRoots)

(***************************************************************************)
(* Selection: seeds first, test seeds up to a share, then what is exact,   *)
(* then what is near                                                       *)
(***************************************************************************)
TestFocused(request) ==
    request.tests # {} /\ (request.files = {} \/ request.aboutTests)

\* Mutant: named files leave no slot to named tests, however many may be selected.
TestSlotsBehindFiles(request, explicitCount, testCount) ==
    IF testCount = 0 \/ MaxSelected = 0 \/ explicitCount > 0 THEN 0
    ELSE Min({testCount, 4, MaxSelected,
              Max({1, MaxSelected \div (IF TestFocused(request) THEN 2 ELSE 4)})})

TestSlots(request, explicitCount, testCount) ==
    IF testCount = 0 \/ MaxSelected = 0 \/ (MaxSelected = 1 /\ explicitCount > 0) THEN 0
    ELSE Min({testCount, 4, MaxSelected,
              Max({1, MaxSelected \div (IF TestFocused(request) THEN 2 ELSE 4)})})

Tiers(refsFor) ==
    LET explicit == refsFor.explicit_seed
        tests == refsFor.test_seed \ explicit
        exact == (refsFor.symbol_match \cup refsFor.related_test
                    \cup refsFor.observed_failure_link) \ (explicit \cup tests) IN
    [explicit |-> explicit, tests |-> tests, exact |-> exact,
     near |-> CandidateRefs(refsFor) \ (explicit \cup tests \cup exact)]

\* What a file of the third tier is exact evidence by; the other tiers have no roles.
EvidenceRole(refsFor, tier, ref) ==
    IF tier # "exact" THEN None
    ELSE IF ref \in refsFor.observed_failure_link THEN "observed_failure_link"
    ELSE IF ref \in refsFor.related_test THEN "related_test" ELSE "symbol_match"

RankTiers(found, request, refsFor, tiers) ==
    [tier \in DOMAIN tiers |->
        SpreadPackages(tiers[tier], RankOrder(found, request, tiers[tier]), LanguageOf(found),
                       [ref \in found.refs |-> EvidenceRole(refsFor, tier, ref)])]

\* A tier gets the slots that those before it have left.
TakeTiers(tiers, orders, slots) ==
    LET Left(taken) == MaxSelected - Cardinality(taken)
        explicit == First(MaxSelected - slots, tiers.explicit, orders.explicit)
        tests == First(Min({slots, Left(explicit)}), tiers.tests, orders.tests)
        exact == First(Left(explicit \cup tests), tiers.exact, orders.exact)
        near == First(Left(explicit \cup tests \cup exact), tiers.near, orders.near)
    IN explicit \cup tests \cup exact \cup near

SelectSourceRefs(found, request, refsFor, tiers) ==
    TakeTiers(tiers, RankTiers(found, request, refsFor, tiers),
              TestSlots(request, Cardinality(tiers.explicit), Cardinality(tiers.tests)))

(***************************************************************************)
(* Warnings and confidence                                                 *)
(***************************************************************************)
LostGroups(omitted, selected, groupOf) ==
    {groupOf[ref] : ref \in omitted} \ ({None} \cup {groupOf[ref] : ref \in selected})

\* Mutant: nobody is told what the cap left out unless a seed was.
OmittedWarningsOfSeeds(found, refsFor, selected) ==
    LET omitted == CandidateRefs(refsFor) \ selected IN
    IF omitted \cap (refsFor.explicit_seed \cup refsFor.test_seed) = {} THEN {}
    ELSE {"omitted_over_cap"}

OmittedWarnings(found, refsFor, selected) ==
    LET omitted == CandidateRefs(refsFor) \ selected
        seeds == omitted \cap (refsFor.explicit_seed \cup refsFor.test_seed)
        languageOf == LanguageOf(found)
        When(lost, warning) == IF lost = {} THEN {} ELSE {warning} IN
    When(omitted, "omitted_over_cap")
        \cup When(LostGroups(omitted, selected, PackageRoots), "package_groups_omitted")
        \cup When(LostGroups(omitted, selected, languageOf), "language_groups_omitted")
        \cup When(LostGroups(seeds, selected, PackageRoots), "seed_packages_omitted")
        \cup When(LostGroups(seeds, selected, languageOf), "seed_languages_omitted")

IsImplementation(ref) ==
    ref \notin TestPaths /\ SourceKinds[ref] \in {"source", "test", "doc"}

\* The selected files among the tests that were seen to fail.
FailedTests(request, selected) ==
    (UNION {link.tests : link \in ObservedFailureLinks(request)}) \cap selected

RetrievalWarnings(found, request, refsFor, selected) ==
    LET tests == refsFor.test_seed \cup refsFor.related_test
                   \cup FailedTests(request, selected) IN
    OmittedWarnings(found, refsFor, selected)
        \cup (IF MissingSeeds(found, request) = {} THEN {} ELSE {"seed_not_found"})
        \cup (IF request.terms # {} /\ selected = {} THEN {"no_source_matches"} ELSE {})
        \cup (IF (\E ref \in selected : IsImplementation(ref)) /\ tests \cap selected = {}
              THEN {"no_related_tests_found"} ELSE {})

CapWarnings == {"omitted_over_cap", "package_groups_omitted", "language_groups_omitted",
                "seed_packages_omitted", "seed_languages_omitted"}

HasDirectEvidence(refsFor, selected) ==
    selected \cap (refsFor.explicit_seed \cup refsFor.test_seed \cup refsFor.symbol_match
                     \cup refsFor.observed_failure_link \cup refsFor.related_test) # {}

ClassifyConfidence(refsFor, selected, warnings) ==
    IF warnings \cap ({"no_source_matches", "seed_not_found"} \cup CapWarnings) # {}
    THEN "missing_likely_files"
    ELSE IF selected = {} \/ warnings # {} \/ ~HasDirectEvidence(refsFor, selected)
    THEN "partial" ELSE "safe"

Retrieval(refsFor, selected, warnings) ==
    [refsFor |-> refsFor, selected |-> selected, warnings |-> warnings,
     confidence |-> ClassifyConfidence(refsFor, selected, warnings)]

RetrievalOf(found, request, refsFor, selected) ==
    Retrieval(refsFor, selected, RetrievalWarnings(found, request, refsFor, selected))

RetrievalFor(found, request, refsFor) ==
    RetrievalOf(found, request, refsFor,
                SelectSourceRefs(found, request, refsFor, Tiers(refsFor)))

ResolveTaskRetrieval(found, request) == RetrievalFor(found, request, RefsFor(found, request))
=============================================================================
