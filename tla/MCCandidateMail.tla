--------------------------- MODULE MCCandidateMail ---------------------------
(***************************************************************************)
(* The candidate mails with finite types for TLC.                          *)
(***************************************************************************)
EXTENDS CandidateMail
=============================================================================
