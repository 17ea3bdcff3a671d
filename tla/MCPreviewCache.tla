--------------------------- MODULE MCPreviewCache ---------------------------
(***************************************************************************)
(* Small instances of PreviewCache: archive a may be modified, which       *)
(* changes the previewed file, and b is a backup of the first version of a.*)
(***************************************************************************)
EXTENDS PreviewCache, TLC

CONSTANTS a, b, p, q

MCContents == {"x", "y"}

MCContent == [n \in Names |-> IF n[2] = 1 THEN "x" ELSE "y"]

MCModified == [r \in Archives |-> IF r = a THEN 2 ELSE 1]

MCUnmodified == [r \in Archives |-> 1]
\* Concurrent previews are interchangeable.
MCSymmetry == Permutations({p, q})
=============================================================================
