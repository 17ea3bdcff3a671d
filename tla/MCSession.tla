------------------------------ MODULE MCSession ------------------------------
(***************************************************************************)
(* A small instance of Session: the archive has two versions of different  *)
(* content, and the calls are interchangeable.                             *)
(***************************************************************************)
EXTENDS Session, TLC

CONSTANTS v1, v2

MCVersions == {v1, v2}
MCContent == [v \in MCVersions |-> IF v = v2 THEN "y" ELSE "x"]

MCSymmetry == Permutations(Calls)
=============================================================================
