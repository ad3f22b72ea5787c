------------------------------- MODULE Absence -------------------------------
(* What is not there: a missing file, an idle caller, no verdict yet.  One  *)
(* value for the modules of the dashboard's services.                       *)
CONSTANT None
=============================================================================
