--------------------------- MODULE MCContextLedger ---------------------------
(***************************************************************************)
(* Small instances of ContextLedger, with the budgets of PackBudget and    *)
(* the agent of LedgerAgent.                                               *)
(***************************************************************************)
EXTENDS PackBudget, LedgerAgent, MCRepository

CONSTANTS s1, s2

MCShapes == {Base, Seeded, Related, Edited, OtherBranch}
ResetShapes == {Base, Seeded}
MCClocks == 1 .. 3
LongClocks == 1 .. 4

(* The build that is given a budget compiles one of the states above with the sections
   that orient the agent added. *)
Orientation == {"risks", "rule-summary", "symbol-summary", "rule-digest"}

OrientationSections ==
    [x \in Orientation |->
        CASE x = "risks"          -> Section("risks", {"wt"}, "required")
          [] x = "rule-summary"   -> Section("rules", {"wt"}, "optional")
          [] x = "symbol-summary" -> Section("symbols", {"wt"}, "optional")
          [] x = "rule-digest"    -> Section("digest", {"wt"}, "optional")]

WithOrientation(shape) ==
    [shape EXCEPT !.sections =
        [x \in DOMAIN @ \cup Orientation |->
            IF x \in Orientation THEN OrientationSections[x] ELSE @[x]]]

MCBudgetShapes == {WithOrientation(Base), WithOrientation(Related)}
MCBudgets == {NoBudget, 10, 15, 17, 20, 40}

MCSectionTypes ==
    [x \in MCSections \cup Orientation |->
        CASE x = "exact-source" -> "code_span"
          [] x = "risks"        -> "risk_warning"
          [] x = "rule-digest"  -> "compression_orientation"
          [] OTHER              -> "context_summary"]
MCSectionOrder ==
    [x \in MCSections \cup Orientation |->
        CASE x = "repository-state" -> 1
          [] x = "risks"            -> 2
          [] x = "task-retrieval"   -> 3
          [] x = "exact-source"     -> 4
          [] x = "rule-summary"     -> 5
          [] x = "symbol-summary"   -> 6
          [] x = "rule-digest"      -> 7]
MCExactSections == {"exact-source"}

(* What the texts of the sections come to, and what each way to render adds to them. *)
TextTokens == [state |-> 2, f1 |-> 4, f2 |-> 4, none |-> 3, seed |-> 4,
               risks |-> 1, rules |-> 5, symbols |-> 2, digest |-> 3]
Rendered(added) ==
    [x \in MCSections \cup Orientation |->
        [content \in DOMAIN TextTokens |-> TextTokens[content] + added]]

MCNaiveTokens == Rendered(3)
MCSentTokens == [state \in SentStates |-> Rendered(IF state = "NEW" THEN 1 ELSE 2)]
MCOmissionTokens ==
    [x \in MCSections \cup Orientation |-> IF x = "task-retrieval" THEN 4 ELSE 3]
MCInvalidationTokens ==
    [state \in SentStates |-> [x \in MCSections \cup Orientation |->
        IF state = "NEW" THEN 2 ELSE 3]]
=============================================================================
