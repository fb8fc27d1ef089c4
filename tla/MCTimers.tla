------------------------------ MODULE MCTimers ------------------------------
(* Timers with three posters, a queue of three calls and two callbacks.        *)
EXTENDS Timers, TLC

CONSTANTS p1, p2, p3, c1, c2, b1, b2

MCPosters == {p1, p2, p3}
MCCalls   == {c1, c2}
MCCbs     == {b1, b2}
=============================================================================
