-------------------------- MODULE MCApplicationIntake --------------------------
(***************************************************************************)
(* Instances of the application intake for TLC.                            *)
(***************************************************************************)
EXTENDS ApplicationIntake, TLC

CONSTANTS s1, s2, o1, o2, d1

\* The applicant tries twice, once with a document and once without.
OneAndNone == s1 :> {d1} @@ s2 :> {}

\* Both operators replay the first receipt.
AskFirst == o1 :> s1 @@ o2 :> s1

\* One submission without documents, on which CompletedSurvivesReplay fails.
JustNone == s1 :> {}

=============================================================================
