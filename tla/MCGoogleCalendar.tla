-------------------------- MODULE MCGoogleCalendar --------------------------
(***************************************************************************)
(* The Google Calendar connection with finite types for TLC.               *)
(***************************************************************************)
EXTENDS GoogleCalendar
=============================================================================
