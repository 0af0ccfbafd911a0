-------------------------- MODULE MCCompileProcess --------------------------
(***************************************************************************)
(* Small instances of CompileProcess: one or two processes compiling for   *)
(* one session while the repository moves between the states of            *)
(* MCRepository.                                                           *)
(***************************************************************************)
EXTENDS Inspection, MCRepository

CONSTANTS s1, p1, p2

OneShapes == {Base, Seeded, Edited, OtherBranch}
TwoShapes == {Base, OtherBranch}
OneClocks == 1 .. 4
TwoClocks == 1 .. 3

\* Edited has the commit of Base: its worktree has changes.  Seeded was cut short.
MCCleanShapes == {Base, Seeded, OtherBranch}
MCPartialShapes == {Seeded}
=============================================================================
