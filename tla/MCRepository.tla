---------------------------- MODULE MCRepository ----------------------------
(***************************************************************************)
(* The small repository the instances compile: what five states of it      *)
(* compile to.  Every section refers to the worktree dependency ("wt") as  *)
(* all sections of a repository artifact do.  The task-retrieval section   *)
(* also refers to a test relationship ("rel"), which moves without the     *)
(* worktree, and its text also changes when a caller names another seed    *)
(* file, which moves no dependency at all.                                 *)
(***************************************************************************)
MCSections == {"repository-state", "exact-source", "task-retrieval"}

Section(content, refs, kind) == [content |-> content, refs |-> refs, kind |-> kind]

BaseSections(file, retrieval) ==
    [x \in MCSections |->
        CASE x = "repository-state" -> Section("state", {"wt"}, "pinned")
          [] x = "exact-source"     -> Section(file, {"wt"}, "required")
          [] x = "task-retrieval"   -> Section(retrieval, {"wt", "rel"}, "optional")]

Base == [branch |-> "main", commit |-> "c1", manifest |-> "m1",
         deps |-> [wt |-> "w1", rel |-> "r1"], sections |-> BaseSections("f1", "none")]

\* Another seed file was named: a content changes, no dependency does.
Seeded == [Base EXCEPT !.sections = BaseSections("f1", "seed")]

\* A test relationship moved: only one section depends on it.
Related == [Base EXCEPT !.manifest = "m2", !.deps = [wt |-> "w1", rel |-> "r2"]]

\* A file was edited: the worktree hash moves under every section.
Edited == [Base EXCEPT !.manifest = "m3", !.deps = [wt |-> "w2", rel |-> "r1"],
                       !.sections = BaseSections("f2", "none")]

\* Another branch with the same tree, where nothing was retrieved for the task.
OtherBranch ==
    [Base EXCEPT !.branch = "dev", !.commit = "c2", !.manifest = "m4",
                 !.sections = [x \in MCSections \ {"task-retrieval"} |->
                                 BaseSections("f1", "none")[x]]]
=============================================================================
