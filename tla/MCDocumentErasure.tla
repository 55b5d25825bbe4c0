-------------------------- MODULE MCDocumentErasure --------------------------
(***************************************************************************)
(* Instances of document erasure for TLC.                                  *)
(***************************************************************************)
EXTENDS DocumentErasure, TLC

CONSTANTS c1, c2, k1, k2

\* An applicant to two organizations, with a document in each.
TwoOwners == (k1 :> c1) @@ (k2 :> c2)

\* An applicant to one organization, with one document.
OneOwner == k1 :> c1

EveryCandidate == [r \in Request |-> Candidate]

\* Requests, workers and visitors are interchangeable.
Identities ==
    Permutations(Request) \cup Permutations(Worker) \cup Permutations(Visitor)
=============================================================================
