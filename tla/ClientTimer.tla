---------------------------- MODULE ClientTimer ----------------------------
(***************************************************************************)
(* The client's one-shot timer: tim_set_timer and jd_timer of              *)
(* main/hw-esp32.c.  Both change timer_cb with interrupts disabled, but    *)
(* the alarm leaves esp_timer's list before jd_timer takes the lock, and   *)
(* the callback is called after the lock has been released: a call of      *)
(* tim_set_timer from the callback itself, or from any other context, may  *)
(* fall between these steps.                                               *)
(***************************************************************************)
CONSTANT Cbs       (* the callbacks the client sets                         *)

VARIABLES
  timer,      (* tim_init has created the timer                             *)
  timer_cb,   (* the callback, or "null"                                    *)
  alarm,      (* the callback the alarm was started for; "null": stopped    *)
  fired,      (* the same of the alarm jd_timer was called for              *)
  raced,      (* history: tim_set_timer was called since that alarm         *)
  run         (* the callback that is running, or "null"                    *)

vars == <<timer, timer_cb, alarm, fired, raced, run>>

TypeOK ==
  /\ timer \in BOOLEAN /\ raced \in BOOLEAN
  /\ {timer_cb, alarm, fired, run} \subseteq Cbs \union {"null"}
  /\ fired = "null" \/ run = "null"

Init ==
  /\ timer = FALSE /\ raced = FALSE
  /\ timer_cb = "null" /\ alarm = "null" /\ fired = "null" /\ run = "null"

tim_init ==
  /\ ~timer /\ timer' = TRUE
  /\ UNCHANGED <<timer_cb, alarm, fired, raced, run>>

\* Faulty variant: the alarm is not stopped, and so cannot be started again.
tim_set_timer_NoStop(c) ==
  /\ timer /\ timer_cb' = c
  /\ alarm' = IF alarm = "null" THEN c ELSE alarm
  /\ raced' = (fired # "null")
  /\ UNCHANGED <<timer, fired, run>>

\* Before tim_init a call does nothing.
tim_set_timer(c) ==
  /\ timer /\ timer_cb' = c
  /\ alarm' = c
  /\ raced' = (fired # "null")
  /\ UNCHANGED <<timer, fired, run>>

SetTimer == \E c \in Cbs \union {"null"} : tim_set_timer(c)

AlarmFires ==
  /\ alarm # "null" /\ alarm' = "null"
  /\ fired = "null" /\ run = "null" /\ fired' = alarm
  /\ UNCHANGED <<timer, timer_cb, raced, run>>

\* Faulty variant: timer_cb stays set.
TakeCallback_Keeps ==
  /\ fired # "null" /\ fired' = "null" /\ raced' = FALSE
  /\ run' = timer_cb
  /\ UNCHANGED <<timer, timer_cb, alarm>>

\* Under the lock; a callback that was cancelled in the meantime is not there.
TakeCallback ==
  /\ fired # "null" /\ fired' = "null" /\ raced' = FALSE
  /\ run' = timer_cb /\ timer_cb' = "null"
  /\ UNCHANGED <<timer, alarm>>

CallbackReturns ==
  /\ run # "null" /\ run' = "null"
  /\ UNCHANGED <<timer, timer_cb, alarm, fired, raced>>

jd_timer == TakeCallback \/ CallbackReturns

Next == tim_init \/ SetTimer \/ AlarmFires \/ jd_timer

\* The alarm and the timer task run.  (A client that restarts the timer for ever
\* keeps the alarm from firing; SetTimerStops asks for nothing then.)
Fairness == WF_vars(AlarmFires) /\ WF_vars(jd_timer)

-----------------------------------------------------------------------------
\* No callback runs on the alarm of another one: unless tim_set_timer is called
\* in the moment between the alarm and the lock of jd_timer, what runs is what the
\* alarm was started for, or nothing when such a moment has run it already
\* (hw-esp32.c:79-89, 157-162).
NotEarly ==
  [][fired # "null" /\ fired' = "null" /\ ~raced => run' \in {fired, "null"}]_vars

\* The callback last set runs, once, unless it is replaced or cancelled, also when
\* it is set in the callback itself or between the alarm and the lock.
Promised == INSTANCE OneShot WITH waiting <- timer_cb
SetTimerStops == []<><<SetTimer>>_vars \/ <>[](timer_cb = "null")
KeepsTimer == Promised!OneShotSpec /\ SetTimerStops
=============================================================================
