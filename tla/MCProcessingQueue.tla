-------------------------- MODULE MCProcessingQueue --------------------------
(***************************************************************************)
(* Instances of the processing queue for TLC.                              *)
(***************************************************************************)
EXTENDS ProcessingQueue, TLC

CONSTANTS g1, g2

\* Two targets of one type can share a batch; of two types they cannot.
SameType == [g \in Target |-> UploadReconciliation]
TwoTypes == (g1 :> "document_parse") @@ (g2 :> UploadReconciliation)

\* The identities of rows and workers are interchangeable.
Identities ==
    Permutations(Task) \cup Permutations(Batch) \cup Permutations(Worker)
=============================================================================
