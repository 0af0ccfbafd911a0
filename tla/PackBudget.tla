------------------------------ MODULE PackBudget ------------------------------
(***************************************************************************)
(* What a token budget makes of the pack of a build.  ContextLedger leaves *)
(* open which optional items a pack drops; here they are chosen as the     *)
(* code does, by priority and size, together with what the build reports   *)
(* of it: the status of the budget and the tokens saved.                   *)
(*                                                                         *)
(* Tokens are a quarter of the rendered text, rounded up.  A section and   *)
(* the item that sends it are rendered differently, so each way to render  *)
(* has a number of tokens of its own.  A notice repeats the names of its   *)
(* session and artifact, which are taken to be equally long in all of them.*)
(***************************************************************************)
EXTENDS ContextLedger

CONSTANTS
    BudgetShapes,    \* what the build that is given a budget may compile
    Budgets,         \* token budgets, or NoBudget
    SectionTypes,    \* [section -> its type]
    SectionOrder,    \* [section -> its place in the artifact]
    ExactSections,   \* the sections whose exact text is required
    NaiveTokens,         \* [section -> [content -> tokens of the section in the artifact]]
    SentTokens,          \* [state -> [section -> [content -> tokens of an item that sends it]]]
    OmissionTokens,      \* [section -> tokens of its omission and of the restore offered]
    InvalidationTokens   \* [state -> [section -> tokens of taking back a row in the state]]

NoBudget == -1

ASSUME BudgetsAreNumbers == Budgets \subseteq Nat \cup {NoBudget}

ASSUME SectionsAreFinite == \A sh \in Shapes \cup BudgetShapes : IsFiniteSet(DOMAIN sh.sections)

\* The sections of an artifact stand in an order, and have a kind.
ASSUME SectionsAreInOrder ==
    /\ \A sh \in BudgetShapes : \A x, y \in DOMAIN sh.sections :
          /\ sh.sections[x].kind \in Kinds /\ SectionOrder[x] \in Nat
          /\ SectionOrder[x] = SectionOrder[y] => x = y

\* Whatever is rendered has a length.
ASSUME TokensAreNumbers ==
    /\ \A sh \in BudgetShapes : \A x \in DOMAIN sh.sections :
          LET content == sh.sections[x].content IN
          /\ NaiveTokens[x][content] \in Nat /\ OmissionTokens[x] \in Nat
          /\ \A state \in SentStates : SentTokens[state][x][content] \in Nat
    /\ \A state \in SentStates, x \in Sections : InvalidationTokens[state][x] \in Nat

----------------------------------------------------------------------------
(* Required context *)

IsSafetyCritical(x) == SectionTypes[x] \in {"risk_warning", "stale_warning", "contradiction"}

RequiredSection(x) == x = "task" \/ x \in ExactSections \/ IsSafetyCritical(x)

\* Mutant: what the agent is told about earlier context may be dropped.
IsRequiredBySection(item) == item.state = "PINNED" \/ RequiredSection(item.section)

\* RESTORE_AVAILABLE comes and goes with OMIT_UNCHANGED, see DiffItems.
IsRequired(item) ==
    \/ item.state \in {"PINNED", "INVALIDATE_PREVIOUS", "OMIT_UNCHANGED"}
    \/ RequiredSection(item.section)

KeepPriority(x) ==
    IF SectionTypes[x] \in {"code_span", "test_span", "config_span"} THEN 80
    ELSE IF x = "task" THEN 70
    ELSE IF x = "task-retrieval" THEN 60
    ELSE IF x \in {"source-manifest", "symbol-summary"} THEN 30
    ELSE IF SectionTypes[x] = "compression_orientation" THEN 20
    ELSE 50

\* The kinds ContextLedger gives to sections are what their types make them.
ASSUME KindsFollowTypes ==
    \A sh \in Shapes \cup BudgetShapes : \A x \in DOMAIN sh.sections :
        sh.sections[x].kind # "pinned" =>
            (sh.sections[x].kind = "required" <=> RequiredSection(x))

----------------------------------------------------------------------------
(* Pruning *)

\* The tokens of an item of a pack for the artifact `shape`.
ItemTokens(shape, item) ==
    CASE item.state \in SentStates ->
            SentTokens[item.state][item.section][shape.sections[item.section].content]
      [] item.state = "OMIT_UNCHANGED" -> OmissionTokens[item.section]
      [] item.state = "INVALIDATE_PREVIOUS" ->
            InvalidationTokens[item.previous.state][item.section]

\* As many as there are of all of them, counted one by one.
Total(tokens) == Cardinality(UNION {{x} \X (1 .. tokens[x]) : x \in DOMAIN tokens})

PackTokens(shape, items) == Total([item \in items |-> ItemTokens(shape, item)])

RequiredItems(items) == {item \in items : IsRequired(item)}

\* Optional items by priority: pairs of one that is tried earlier and one tried later.
KeepOrder(items) ==
    {pair \in items \X items :
        LET x == pair[1].section
            y == pair[2].section IN
        \/ KeepPriority(x) > KeepPriority(y)
        \/ KeepPriority(x) = KeepPriority(y) /\ SectionOrder[x] < SectionOrder[y]}

\* What is kept of the items tried before this one.
KeptBefore(items, chosen, item) ==
    RequiredItems(items) \cup {other \in chosen : <<other, item>> \in KeepOrder(items)}

Fits(shape, kept, item, budget) ==
    PackTokens(shape, kept) + ItemTokens(shape, item) \leq budget

\* An item that does not fit is left out, and a smaller one after it may still fit.
KeepWithin(shape, items, budget) ==
    LET optional == items \ RequiredItems(items) IN
    RequiredItems(items) \cup CHOOSE chosen \in SUBSET optional :
        \A item \in optional :
            item \in chosen <=> Fits(shape, KeptBefore(items, chosen, item), item, budget)

\* Required context that exceeds the budget is not worth pruning for.
ApplyBudget(shape, items, budget) ==
    IF budget = NoBudget \/ PackTokens(shape, RequiredItems(items)) > budget THEN items
    ELSE KeepWithin(shape, items, budget)

BudgetStatus(shape, kept, budget) ==
    IF budget = NoBudget THEN "not_requested"
    ELSE IF PackTokens(shape, RequiredItems(kept)) > budget
         THEN "required_context_exceeds_budget"
    ELSE IF PackTokens(shape, kept) > budget THEN "over_budget"
    ELSE "within_budget"

----------------------------------------------------------------------------
(* The savings that are reported *)

SectionTokens(shape, xs) ==
    Total([x \in xs |-> NaiveTokens[x][shape.sections[x].content]])

InState(items, state) == {item \in items : item.state = state}

\* The saved share of the naive tokens, rounded to a hundredth of a percent.
ReductionPercent(naive, sentTokens) ==
    IF naive = 0 \/ sentTokens > naive THEN 0
    ELSE (20000 * (naive - sentTokens) + naive) \div (2 * naive)

Savings(shape, kept) ==
    LET naive == SectionTokens(shape, DOMAIN shape.sections) IN
    [naive |-> naive,
     sent |-> PackTokens(shape, kept),
     omitted |-> SectionTokens(shape, {i.section : i \in InState(kept, "OMIT_UNCHANGED")}),
     pinned |-> PackTokens(shape, InState(kept, "PINNED")),
     invalidations |-> PackTokens(shape, InState(kept, "INVALIDATE_PREVIOUS")),
     reduction |-> ReductionPercent(naive, PackTokens(shape, kept))]

----------------------------------------------------------------------------
(* Properties *)

\* The pack of the build that would be next.
NextPack(s, shape, reset) ==
    LET n == Len(artifacts) + 1 IN
    InvalidationItems(n, StalePrior(s, shape, reset))
        \cup DiffItems(n, shape, CurrentPrior(s, shape, reset))

\* What the budget keeps of these items, and what it leaves out, is as it should be.
PrunesAsAllowed(shape, items, kept, budget) ==
    LET out == items \ kept
        total == PackTokens(shape, kept)
        status == BudgetStatus(shape, kept, budget) IN
    /\ kept \subseteq items
    /\ out \subseteq Droppable(items, shape)
    /\ status # "over_budget"
    /\ status = "within_budget" <=> budget # NoBudget /\ total \leq budget
    /\ status # "within_budget" => out = {}
    /\ \A item \in out :
          /\ total + ItemTokens(shape, item) > budget
          /\ \A other \in kept :
                \/ IsRequired(other)
                \/ KeepPriority(other.section) \geq KeepPriority(item.section)
                \/ ItemTokens(shape, other) < ItemTokens(shape, item)

\* The sections these items deliver the text of.
SectionsSent(items) == {i.section : i \in {j \in items : j.state \in SentStates}}

\* Of the naive tokens, those that are reported omitted belong to the sections the agent
\* has, and the rest to sections that are delivered or that the budget left out.  The
\* overheads that are reported are part of what is sent.
SavingsAddUp(shape, items, kept) ==
    LET savings == Savings(shape, kept) IN
    /\ savings.naive = savings.omitted + SectionTokens(shape, SectionsSent(kept))
                          + SectionTokens(shape, SectionsSent(items \ kept))
    /\ savings.pinned + savings.invalidations \leq savings.sent

\* Whatever the session holds, a budget leaves out only what the ledger allows, reports a
\* pack within the budget exactly when it is, leaves nothing out that would still have fit,
\* and nothing for the sake of something less worth keeping and no smaller.  It fails to
\* bring a pack under the budget only when the required context alone is over it.  The
\* tokens it reports as omitted are those of all sections that are neither delivered nor
\* left out by the budget, and the overheads it reports do not exceed what is sent.
PruningIsAllowed ==
    (\E at \in Clocks : Unused(at)) =>
    \A s \in Sessions, shape \in BudgetShapes, budget \in Budgets :
        LET items == NextPack(s, shape, FALSE)
            kept == ApplyBudget(shape, items, budget) IN
        /\ PrunesAsAllowed(shape, items, kept, budget)
        /\ SavingsAddUp(shape, items, kept)
=============================================================================
