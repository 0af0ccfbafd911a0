---------------------------- MODULE MCSnapshotStore ----------------------------
(***************************************************************************)
(* A small repository for SnapshotStore: two packages, each with a source  *)
(* file and a test, the first of which imports the second; the same commit *)
(* with the imported file edited, notes and a binary file added; and a     *)
(* branch on which nothing may be read, and which has a submodule.         *)
(***************************************************************************)
EXTENDS SnapshotStore

CONSTANTS p1, p2, s1, s2   \* processes and sessions

app == "libs/app/app.ts"
appTest == "libs/app/app.test.ts"
lib == "libs/lib/lib.ts"
libTest == "libs/lib/lib.test.ts"
config == "tsconfig.json"
rules == ".cursorrules"
notes == "notes.md"
todo == "todo.md"

Parsed(declares, imports, calls) ==
    [form |-> "text", declares |-> declares, exports |-> declares, imports |-> imports,
     reExports |-> {}, calls |-> calls, targets |-> <<>>, secret |-> FALSE, terms |-> declares]
Plain(form) == [Parsed({}, {}, {}) EXCEPT !.form = form]
Import(specifier, name) == [specifier |-> specifier, bindings |-> {name}]
Call(name, within) == [name |-> name, within |-> within]

MCContents ==
    [app     |-> [Parsed({"run"}, {Import("../lib", "parse")},
                         {Call("parse", "run"), Call("log", None)})
                  EXCEPT !.terms = {"run", "parse"}],
     appTest |-> Parsed({}, {Import("./app", "run")}, {Call("run", None)}),
     lib1    |-> [Parsed({"parse"}, {}, {}) EXCEPT !.reExports = {"@app"}],
     lib2    |-> Parsed({"parse", "log"}, {}, {}),
     libTest |-> Parsed({}, {Import("./lib", "parse")}, {}),
     config  |-> [Plain("text") EXCEPT !.targets = [alias \in {"@app"} |-> app]],
     rules   |-> Plain("text"),
     key     |-> [Plain("text") EXCEPT !.secret = TRUE],
     blob    |-> Plain("binary"),
     module  |-> Plain("directory")]

MCSourceKinds ==
    (app :> "source") @@ (lib :> "source") @@ (appTest :> "test") @@ (libTest :> "test")
        @@ (config :> "config") @@ (rules :> "rule") @@ (notes :> "doc") @@ (todo :> "doc")
        @@ (".env" :> "source") @@ ("logo" :> "source") @@ ("build" :> "source")
        @@ ("vendor" :> "source")
MCPaths == DOMAIN MCSourceKinds

MCCandidates ==
    ("../lib" :> <<"libs/lib", lib>>) @@ ("./lib" :> <<lib>>) @@ ("./app" :> <<app>>)
        @@ ("@app" :> <<>>)

MCTestPaths == {appTest, libTest}
MCPackageRoots ==
    [path \in MCPaths |-> IF path \in {app, appTest} THEN "libs/app"
                          ELSE IF path \in {lib, libTest} THEN "libs/lib" ELSE None]
MCLanguages == [path \in MCPaths |-> IF path = config THEN "json" ELSE "typescript"]
MCPathWeights ==
    [path \in MCPaths |-> IF path \in {lib, libTest} THEN [term \in {"lib"} |-> 2] ELSE <<>>]
MCNameTerms == [name \in {"run", "parse", "log"} |-> {name}]
MCPathOrder ==
    (".env" :> 1) @@ ("build" :> 2) @@ (appTest :> 3) @@ (app :> 4) @@ (libTest :> 5)
        @@ (lib :> 6) @@ ("logo" :> 7) @@ (notes :> 8) @@ (rules :> 9)
        @@ (todo :> 10) @@ (config :> 11) @@ ("vendor" :> 12)

Request(files, tests, terms, seedTerms) ==
    [terms |-> terms, seedTerms |-> seedTerms, files |-> files, tests |-> tests,
     mentioned |-> {}, excluded |-> {}, failures |-> {}, aboutTests |-> FALSE]

\* A task that one package and what it uses answer, as long as the notes it mentions are
\* not there; and one that names two tests, one more than their share, while a file that is
\* only linked to a failure is selected.  With all it mentions it names more files than fit.
MCRequests ==
    (s1 :> [Request({app}, {appTest}, {"parse"}, {})
            EXCEPT !.mentioned = {notes}, !.aboutTests = TRUE]) @@
    (s2 :> [Request({app, lib}, {appTest, libTest}, {"lib", "log"}, {"log"})
            EXCEPT !.mentioned = {notes, todo},
                   !.failures = {[tests |-> {}, linked |-> {config},
                                  spans |-> {[test |-> libTest, candidate |-> lib]}]}])

Status(index, worktree) == [index |-> index, worktree |-> worktree]

MainFiles ==
    (app :> "app") @@ (lib :> "lib1") @@ (appTest :> "appTest") @@ (libTest :> "libTest")
        @@ (config :> "config") @@ (rules :> "key") @@ (".env" :> "key")

MCTrees ==
    [main   |-> [branch |-> "main", commit |-> "c1", status |-> <<>>,
                 listed |-> DOMAIN MainFiles, files |-> MainFiles],
     edited |-> [branch |-> "main", commit |-> "c1",
                 listed |-> DOMAIN MainFiles \cup {notes, todo, "logo", "build"},
                 status |-> (lib :> Status("M", "M")) @@ (rules :> Status(" ", "M"))
                              @@ (config :> Status("D", " "))
                              @@ (notes :> Status("?", "?")) @@ (todo :> Status("?", "?"))
                              @@ ("logo" :> Status("?", "?")) @@ (".env" :> Status(" ", "M")),
                 files |-> [path \in DOMAIN MainFiles \ {config} |->
                               IF path = lib THEN "lib2"
                               ELSE IF path = rules THEN "rules" ELSE MainFiles[path]]
                             @@ (notes :> "rules") @@ (todo :> "rules")
                             @@ ("logo" :> "blob") @@ ("build" :> "blob")],
     closed |-> [branch |-> "docs", commit |-> "c2", status |-> <<>>,
                 listed |-> {".env", "vendor"},
                 files |-> (".env" :> "key") @@ ("vendor" :> "module")]]

\* Processes differ in nothing but their name.
Symmetry == Permutations(Processes)
=============================================================================
