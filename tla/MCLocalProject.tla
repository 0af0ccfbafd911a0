--------------------------- MODULE MCLocalProject ---------------------------
(***************************************************************************)
(* A small instance of LocalProject: two slots for commands, two           *)
(* migrations.                                                             *)
(***************************************************************************)
EXTENDS LocalProject

MCKinds == {"init", "compile", "read", "purge"}
=============================================================================
