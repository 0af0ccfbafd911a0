----------------------------- MODULE MCRetention -----------------------------
(***************************************************************************)
(* Small instances of Retention: one session that moves between branches   *)
(* and repeats itself, and one or two compactions at a time.               *)
(***************************************************************************)
EXTENDS Retention, MCRepository

CONSTANTS s1, c1, c2

RetentionShapes == {Base, OtherBranch}
RetentionClocks == 1 .. 3
=============================================================================
