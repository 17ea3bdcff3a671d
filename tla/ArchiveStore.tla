----------------------------- MODULE ArchiveStore ----------------------------
(***************************************************************************)
(* What a user may expect of the operations that modify one archive: the   *)
(* archive changes only when an operation commits, and then as a whole;    *)
(* the result holds what the operation read plus its own edit.  Nothing    *)
(* makes two operations wait for each other: what one of them read may be  *)
(* out of date when it commits, and the commit then drops the edits made   *)
(* in between.  The archive disappears only when an operation ends by      *)
(* deleting it, or after more mishaps (failed file operations and crashes) *)
(* than are tolerated.                                                     *)
(***************************************************************************)
EXTENDS Naturals

CONSTANTS Writer, Tolerated, Absent

VARIABLES
  archive,   \* the edits in the archive, Absent when it does not exist
  base,      \* what each running operation has read, Absent otherwise
  mishaps    \* failed file operations and crashes

vars == <<archive, base, mishaps>>

Init == archive = {} /\ base = [w \in Writer |-> Absent] /\ mishaps = 0

Active(w) == base[w] # Absent
Ended(w) == base' = [base EXCEPT ![w] = Absent]
EndedOrNot(w) == Ended(w) \/ UNCHANGED base
OneOf(family) == \E some \in family : archive' = some

\* 7-Zip takes a missing archive for an empty one, also where a replacement that
\* has failed once is just about to put it back.
Read(w) ==
  /\ \/ base' = [base EXCEPT ![w] = IF archive = Absent THEN {} ELSE archive]
     \/ mishaps > 0 /\ base' = [base EXCEPT ![w] = {}]
  /\ UNCHANGED archive

End(w) == Ended(w) /\ UNCHANGED archive

Commit(w) == Active(w) /\ archive' = base[w] \cup {w} /\ EndedOrNot(w)

\* Conversion onto the archive itself: the same members in a new file.
Rewrite(w) == Active(w) /\ archive' = base[w] /\ UNCHANGED base

\* A rebuild that fails after its commit puts back what it had set aside.
Undo(w) == Active(w) /\ Ended(w) /\ OneOf(SUBSET (Writer \ {w}))

Erase(w) == Active(w) /\ Ended(w) /\ archive' = Absent

\* Too much has failed: the archive is gone, or an older one is what is left.
TooMuch == mishaps' > Tolerated /\ (archive' = Absent \/ OneOf(SUBSET Writer))
Lose(w) == Active(w) /\ TooMuch /\ EndedOrNot(w)

\* All operations stop at once.
Stop ==
  /\ base' = [w \in Writer |-> Absent]
  /\ UNCHANGED archive \/ TooMuch

Next ==
  /\ mishaps' \in {mishaps, mishaps + 1}
  /\ \/ Stop
     \/ \E w \in Writer :
          Read(w) \/ End(w) \/ Commit(w) \/ Rewrite(w) \/ Undo(w) \/ Erase(w) \/ Lose(w)
     \/ UNCHANGED <<archive, base>>

Spec == Init /\ [][Next]_vars
=============================================================================
