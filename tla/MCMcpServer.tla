---------------------------- MODULE MCMcpServer ----------------------------
(***************************************************************************)
(* A small instance of McpServer: one named session, one agent that names  *)
(* none, two states of the repository with one file, and a line of every   *)
(* kind.  What can be recorded is a run: compiles list it like a file, and *)
(* in the session it was recorded for it changes what is retrieved.  No    *)
(* call names a token budget, so nothing is optional.                      *)
(***************************************************************************)
EXTENDS McpServer, MCRepository

CONSTANTS s1, a1

MCQueries == {"plain"}
MCNotes == {"run"}
MCWorktrees == {"base", "edited"}
MCServerSessions == {s1, <<a1, "plain">>}
MCFileDeps == {"src", "run"}

MCSnapshots == [tree \in MCWorktrees |->
    LET shape == IF tree = "base" THEN Base ELSE Edited IN
    [branch |-> shape.branch, commit |-> shape.commit, wt |-> shape.deps["wt"],
     files |-> [src |-> shape.sections["exact-source"].content]]]

FileOf(tree) == MCSnapshots[tree].files["src"]

Compile(tree, known, retrieval) ==
    LET shape == IF tree = "base" THEN Base ELSE Edited
        refs  == {"wt", "rel", "src"} \cup known IN
    [shape EXCEPT
       !.manifest = <<tree, known>>,
       !.deps = [ref \in refs |->
                   CASE ref = "src" -> FileOf(tree) [] ref = "run" -> "n1" [] OTHER -> @[ref]],
       !.sections = [BaseSections(FileOf(tree), retrieval)
                       EXCEPT !["task-retrieval"].kind = "required"]]

BasePlain == Compile("base", {}, "none")
BaseListed == Compile("base", {"run"}, "none")
BaseSteered == Compile("base", {"run"}, "seed")
EditedPlain == Compile("edited", {}, "none")
EditedListed == Compile("edited", {"run"}, "none")
EditedSteered == Compile("edited", {"run"}, "seed")

MCCompiled == [tree \in MCWorktrees |-> [s \in MCServerSessions |->
    [known \in SUBSET MCNotes |-> [q \in MCQueries |->
        IF tree = "base"
        THEN IF known = {} THEN BasePlain ELSE IF s = s1 THEN BaseSteered ELSE BaseListed
        ELSE IF known = {} THEN EditedPlain
             ELSE IF s = s1 THEN EditedSteered ELSE EditedListed]]]]
MCShapes ==
    {BasePlain, BaseListed, BaseSteered, EditedPlain, EditedListed, EditedSteered}
MCServerClocks == 1 .. MaxLines

Line(form, method, tool, args) ==
    [form |-> form, method |-> method, tool |-> tool, args |-> args]

Get(form, session, agent) ==
    Line(form, "tools/call", "grape_get_context",
         [session |-> session, agent |-> agent, query |-> "plain", reset |-> FALSE])

Plain(form, method) == Line(form, method, None, None)

MCLines == {Get("request", s1, None)}

MCOddLines ==
    {Get("notification", s1, None), Get("request", None, a1), Get("request", None, None),
     Line("request", "tools/call", "grape_record_command_result", None),
     Plain("request", "ping"), Plain("request", "tools/call"),
     Plain("request", "$/cancelRequest")}
    \cup {Plain(form, None) : form \in {"invalid", "garbage", "blank", "large"}}
=============================================================================
