----------------------------- MODULE MCMainLoop -----------------------------
(* MainLoop with a short event queue: two entries are enough for the other   *)
(* events to fill it and for a loop event to be refused.                     *)
EXTENDS MainLoop
=============================================================================
