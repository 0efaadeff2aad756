---------------------------- MODULE MCHistoryWalks ----------------------------
(* Each of the three walks over a short history.                             *)
EXTENDS HistoryWalks
=============================================================================
