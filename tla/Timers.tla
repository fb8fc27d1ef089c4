------------------------------- MODULE Timers -------------------------------
(***************************************************************************)
(* The esp_timer task: the timer worker and the client's timer are two of  *)
(* its alarms, so that jd_timer and jd_tim_worker run one after the other. *)
(***************************************************************************)
EXTENDS TimWorker

CONSTANT Cbs       (* see ClientTimer                                       *)

VARIABLES timer, timer_cb, alarm, fired, raced, run

Client == INSTANCE ClientTimer

clientVars == <<timer, timer_cb, alarm, fired, raced, run>>
allVars    == <<vars, clientVars>>

TypesOK == TypeOK /\ Client!TypeOK

AllInit == Init /\ Client!Init

\* The task is in one callback at a time.
OneCallback == worker = "idle" \/ (fired = "null" /\ run = "null")

AllNext ==
  /\ \/ Next /\ UNCHANGED clientVars
     \/ Client!Next /\ UNCHANGED vars
  /\ OneCallback'

\* Alarms are served in the order they are due, so that neither starves the other.
AllSpec == AllInit /\ [][AllNext]_allVars /\ Fairness /\ Client!Fairness

-----------------------------------------------------------------------------
\* What runs on an alarm is what that alarm was started for (hw-esp32.c:157-162).
NotEarly == Client!NotEarly

\* The callback last set is run, once, also while calls of the worker are served.
KeepsTimer == Client!KeepsTimer
=============================================================================
