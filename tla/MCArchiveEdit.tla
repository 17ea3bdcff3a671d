---------------------------- MODULE MCArchiveEdit ----------------------------
(* Small instances of ArchiveEdit: two operations on one archive. *)
EXTENDS ArchiveEdit, TLC

CONSTANTS v, w

MCActs == v :> {"add", "delete"} @@ w :> {"add", "merge", "split"}

MCConverts == v :> {"convert"} @@ w :> {"convert"}
=============================================================================
