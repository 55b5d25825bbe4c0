--------------------- MODULE MCApplicationNotifications ---------------------
(***************************************************************************)
(* An instance of the application notifications for TLC.                   *)
(***************************************************************************)
EXTENDS ApplicationNotifications

CONSTANTS a1, a2, daily

\* Both applications belong to the digest of one recipient.
OneDigest == [a \in {a1, a2} |-> {daily}]

\* a1 was received before a2, and a digest names one.
FirstOne == [S \in SUBSET {a1, a2} |-> IF a1 \in S THEN {a1} ELSE S]
=============================================================================
