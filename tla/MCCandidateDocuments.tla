----------------------- MODULE MCCandidateDocuments -----------------------
(***************************************************************************)
(* Instances of the candidate's documents for TLC.                         *)
(***************************************************************************)
EXTENDS CandidateDocuments

CONSTANTS cv, letter, extra, apply, upload

\* The application brings one document and a recruiter another one; there is
\* room for one of them.  Parse tasks are made for the application's only.
OneEach == [q \in {apply, upload} |-> IF q = apply THEN {cv} ELSE {extra}]
TwoForTheCv == [d \in {cv, extra} |-> IF d = cv THEN 2 ELSE 0]

\* An application of two documents.
CvAndLetter == [q \in {apply} |-> {cv, letter}]
OneForTheLetter == [d \in {cv, letter} |-> IF d = letter THEN 1 ELSE 0]
=============================================================================
