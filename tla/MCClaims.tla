------------------------------- MODULE MCClaims -------------------------------
(***************************************************************************)
(* A small repository for Claims: a source file in a clean tree, in the    *)
(* same commit with the source edited and the manifest of a package added, *)
(* and in its place a rule file in another commit.                         *)
(***************************************************************************)
EXTENDS Claims, TLC

CONSTANTS p1, p2   \* processes

Rule(polarity, topic) == [polarity |-> polarity, topic |-> topic]
Parsed(rules, symbols, entries) ==
    [rules |-> rules, symbols |-> symbols, dependencies |-> entries]
Symbol(name, confidence) ==
    [name |-> name, kind |-> "function", confidence |-> confidence,
     extractor |-> "typescript_ast", body |-> name, covered |-> TRUE]
Module == [Symbol("parse.ts", "high") EXCEPT !.kind = "module"]
Overload == [Symbol("parse", "high") EXCEPT !.body = None]

NeverLogSecrets == Rule("negative", {"logging", "secrets"})
AlwaysRunTests  == Rule("affirmative", {"tests", "merge"})

MCContents ==
    [rules    |-> Parsed({NeverLogSecrets, AlwaysRunTests}, {}, {}),
     code1    |-> Parsed({}, {Symbol("parse", "high"), Module}, {}),
     code2    |-> Parsed({}, {Symbol("parseAll", "high"), Symbol("guess", "low"), Overload}, {}),
     manifest |-> Parsed({}, {}, {[dependency |-> "left-pad"]})]

MCRefTypes ==
    ("AGENTS.md" :> "rule_file") @@ ("src/parse.ts" :> "repository_file")
        @@ ("packages/app/package.json" :> "config_file")

MCSourceKinds ==
    ("AGENTS.md" :> "rule") @@ ("src/parse.ts" :> "source")
        @@ ("packages/app/package.json" :> "package")

MCRoots ==
    [ref \in DOMAIN MCRefTypes |->
        IF ref = "packages/app/package.json" THEN "packages/app" ELSE None]

MCTrees ==
    [clean  |-> [branch |-> "main", commit |-> "c1", dirty |-> {},
                 files |-> "src/parse.ts" :> "code1"],
     edited |-> [branch |-> "main", commit |-> "c1",
                 dirty |-> {"src/parse.ts", "packages/app/package.json"},
                 files |-> ("src/parse.ts" :> "code2")
                             @@ ("packages/app/package.json" :> "manifest")],
     moved  |-> [branch |-> "main", commit |-> "c2", dirty |-> {},
                 files |-> "AGENTS.md" :> "rules"]]

Ask(session, env, named, selected) ==
    [session |-> session, env |-> env, named |-> named, selected |-> selected]

MCRequests ==
    {Ask("s1", None, {"src/parse.ts"}, {"src/parse.ts"}),
     Ask("s2", "staging", {"packages/app/package.json"},
         {"AGENTS.md", "packages/app/package.json"})}

Kind(what, passed, authority) == [what |-> what, passed |-> passed, authority |-> authority]

MCRunKinds ==
    {Kind("result", FALSE, "grape"), Kind("result", TRUE, "agent_reported"),
     Kind("candidate", TRUE, "agent_reported"), Kind("decision", TRUE, "agent_reported"),
     Kind("confirmation", TRUE, "agent_reported")}

MCForeignEdges ==
    {[type |-> "contradicts", by |-> "trusted_import"]}

\* Processes differ in nothing but their name.
Symmetry == Permutations(Processes)
=============================================================================
