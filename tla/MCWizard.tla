------------------------------ MODULE MCWizard ------------------------------
(***************************************************************************)
(* The dialogs of the compress command; and the conditions under which the *)
(* theorems of PipelineProofs hold, evaluated on the operations of the     *)
(* extension.  They stand here because its run is the quickest.            *)
(***************************************************************************)
EXTENDS CompressWizard, Sequences

Ops == INSTANCE MCOperations

Promising(promise) == {p \in DOMAIN Ops!AllOps : promise \in Ops!AllOps[p].promises}

\* The programs are made of these steps.
ASSUME OperationsOfCode ==
  Ops!Nested(Ops!Code) /\ \A p \in DOMAIN Ops!AllOps : Ops!AllOps[p].steps \in Seq(Ops!Code)

\* What CancellationIsFinal, NothingIsLeftBehind and VirtualFilesAreKept ask of them.
ASSUME OperationsPassCancellation == Ops!PassesCancellation(Ops!Code)
ASSUME OperationsTidyUp ==
  /\ Ops!TidiesUp(Ops!Tidy)
  /\ \A p \in DOMAIN Ops!AllOps : Ops!TidyIn(Ops!AllOps[p].steps, Ops!Outermost, Ops!Tidy)
ASSUME OperationsKnowFiles ==
  /\ Ops!KnowsFiles(Ops!Known)
  /\ \A p \in Promising("copiesOut") : <<Ops!AllOps[p].steps, {}>> \in Ops!Known

\* What SuccessMeansWhole, FailureKeepsTheArchive and NoPartStaysBehind ask of them.
ASSUME OperationsTabled ==
  /\ Ops!Compositional(Ops!Ends)
  /\ \A p \in DOMAIN Ops!AllOps : <<Ops!AllOps[p].steps, Ops!Fresh>> \in DOMAIN Ops!Ends
ASSUME OperationsEndWell ==
  /\ \A p \in Promising("delivers") : Ops!Whole(Ops!EndsOf(p))
  /\ \A p \in Promising("keeps") \cup Promising("keepsIfFailed") : Ops!KeptIfFailed(Ops!EndsOf(p))
  /\ \A p \in Promising("keeps") : Ops!KeptIfCancelled(Ops!EndsOf(p))
  /\ \A p \in Promising("tidies") : Ops!NeverTorn(Ops!EndsOf(p))
=============================================================================
