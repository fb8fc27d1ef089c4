------------------------------ MODULE OneShot ------------------------------
(***************************************************************************)
(* What tim_set_timer promises the client: the callback last set, unless   *)
(* it is replaced or cancelled, is run, and one call of tim_set_timer      *)
(* makes it run once.                                                      *)
(***************************************************************************)
CONSTANT Cbs       (* the callbacks                                         *)

VARIABLES
  waiting,         (* the callback that is due to run, or "null"            *)
  run              (* the callback that is running, or "null"               *)

OneShotInit == waiting = "null" /\ run = "null"

Set(c) == waiting' = c /\ UNCHANGED run     \* c = "null" cancels

Expire == waiting # "null" /\ waiting' = "null" /\ run = "null" /\ run' = waiting

Return == run' = "null" /\ UNCHANGED waiting

OneShotNext == (\E c \in Cbs \union {"null"} : Set(c)) \/ Expire \/ Return

OneShotSpec == OneShotInit /\ [][OneShotNext]_<<waiting, run>>
=============================================================================
