------------------------------ MODULE MCPanel ------------------------------
(***************************************************************************)
(* Small instances of Panel: the messages of a page are interchangeable.   *)
(***************************************************************************)
EXTENDS Panel, TLC

MCSymmetry == Permutations(Ops)
=============================================================================
