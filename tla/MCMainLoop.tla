----------------------------- MODULE MCMainLoop -----------------------------
(* MainLoop for TLC: its constants are numbers and names.                  *)
EXTENDS MainLoop
=============================================================================
