---------------------------- MODULE TimersProofs ----------------------------
(***************************************************************************)
(* The two alarms of the esp_timer task do not disturb one another: what   *)
(* is proved of the timer worker alone holds beside the client's timer,    *)
(* and that timer never runs a callback on the alarm of another one.       *)
(***************************************************************************)
EXTENDS Timers, TimWorkerProofs

\* The alarm pending, or the one jd_timer is called for, is that of the callback
\* that is set; or that callback has been run already.
AlarmMatches ==
  /\ alarm # "null" => timer_cb \in {alarm, "null"}
  /\ fired # "null" /\ ~raced => timer_cb \in {fired, "null"}

Inv == TypeOK /\ NoLostWakeup /\ Client!TypeOK /\ AlarmMatches

LEMMA AllInitHolds == ASSUME AllInit PROVE Inv
<1>1. TypeOK /\ NoLostWakeup
  BY InitHolds DEF AllInit
<1>2. Client!TypeOK /\ AlarmMatches
  BY DEF AllInit, Client!Init, Client!TypeOK, AlarmMatches
<1>. QED  BY <1>1, <1>2 DEF Inv

LEMMA ClientHolds ==
  ASSUME Client!TypeOK, AlarmMatches, Client!Next
  PROVE  Client!TypeOK' /\ AlarmMatches'
<1>1. CASE Client!tim_init
  BY <1>1 DEF Client!TypeOK, AlarmMatches, Client!tim_init
<1>2. CASE Client!SetTimer
  <2>. PICK c \in Cbs \union {"null"} : Client!tim_set_timer(c)
    BY <1>2 DEF Client!SetTimer
  <2>. QED  BY DEF Client!TypeOK, AlarmMatches, Client!tim_set_timer
<1>3. CASE Client!AlarmFires
  BY <1>3 DEF Client!TypeOK, AlarmMatches, Client!AlarmFires
<1>4. CASE Client!TakeCallback
  BY <1>4 DEF Client!TypeOK, AlarmMatches, Client!TakeCallback
<1>5. CASE Client!CallbackReturns
  BY <1>5 DEF Client!TypeOK, AlarmMatches, Client!CallbackReturns
<1>. QED  BY <1>1, <1>2, <1>3, <1>4, <1>5 DEF Client!Next, Client!jd_timer

LEMMA AllStepHolds == ASSUME Inv, [AllNext]_allVars PROVE Inv'
<1>1. CASE Next /\ UNCHANGED clientVars
  <2>1. TypeOK' /\ NoLostWakeup'
    BY <1>1, StepHolds DEF Inv
  <2>2. Client!TypeOK' /\ AlarmMatches'
    BY <1>1 DEF Inv, clientVars, Client!TypeOK, AlarmMatches
  <2>. QED  BY <2>1, <2>2 DEF Inv
<1>2. CASE Client!Next /\ UNCHANGED vars
  <2>1. TypeOK' /\ NoLostWakeup'
    BY <1>2, StepHolds DEF Inv
  <2>2. Client!TypeOK' /\ AlarmMatches'
    BY <1>2, ClientHolds DEF Inv
  <2>. QED  BY <2>1, <2>2 DEF Inv
<1>3. CASE UNCHANGED allVars
  BY <1>3, StepHolds DEF allVars, clientVars, Inv, Client!TypeOK, AlarmMatches
<1>. QED  BY <1>1, <1>2, <1>3 DEF AllNext

LEMMA Invariance == AllSpec => []Inv
<1>. QED  BY AllInitHolds, AllStepHolds, PTL DEF AllSpec

\* Both timers keep their types, for any posters, calls, callbacks and queue.
THEOREM TypesCorrect == AllSpec => []TypesOK
<1>1. Inv => TypesOK
  BY DEF Inv, TypesOK
<1>. QED  BY <1>1, Invariance, PTL

\* The client's timer costs the worker no wake-up (hw-esp32.c:79-117).
THEOREM WakeupKeptBeside == AllSpec => []NoLostWakeup
<1>1. Inv => NoLostWakeup
  BY DEF Inv
<1>. QED  BY <1>1, Invariance, PTL

\* What runs on an alarm is what that alarm was started for, or nothing
\* (hw-esp32.c:79-89, 157-162).
THEOREM NeverEarly == AllSpec => NotEarly
<1>1. Inv /\ [AllNext]_allVars =>
        [fired # "null" /\ fired' = "null" /\ ~raced => run' \in {fired, "null"}]_(Client!vars)
  <2>. SUFFICES ASSUME Inv, [AllNext]_allVars, fired # "null", fired' = "null", ~raced
                PROVE  run' \in {fired, "null"}
    OBVIOUS
  <2>1. Client!TakeCallback
    BY DEF AllNext, allVars, clientVars, Client!Next, Client!tim_init, Client!SetTimer,
           Client!tim_set_timer, Client!AlarmFires, Client!jd_timer, Client!CallbackReturns
  <2>. QED  BY <2>1 DEF Inv, AlarmMatches, Client!TakeCallback
<1>. QED  BY <1>1, Invariance, PTL DEF AllSpec, NotEarly, Client!NotEarly

\* The client's timer implements the safety part of OneShot: the callback set last
\* runs at most once, one at a time, and no other does.
THEOREM ClientRefines == AllSpec => Client!Promised!OneShotSpec
<1>1. AllInit => Client!Promised!OneShotInit
  BY DEF AllInit, Client!Init, Client!Promised!OneShotInit
<1>2. Inv /\ [AllNext]_allVars => [Client!Promised!OneShotNext]_<<timer_cb, run>>
  <2>. SUFFICES ASSUME Inv, [AllNext]_allVars
                PROVE  [Client!Promised!OneShotNext]_<<timer_cb, run>>
    OBVIOUS
  <2>1. CASE Client!Next /\ UNCHANGED vars
    BY <2>1 DEF Inv, Client!TypeOK, Client!Next, Client!tim_init, Client!SetTimer,
           Client!tim_set_timer, Client!AlarmFires, Client!jd_timer, Client!TakeCallback,
           Client!CallbackReturns, Client!Promised!OneShotNext, Client!Promised!Set,
           Client!Promised!Expire, Client!Promised!Return
  <2>2. CASE (Next /\ UNCHANGED clientVars) \/ UNCHANGED allVars
    BY <2>2 DEF allVars, clientVars
  <2>. QED  BY <2>1, <2>2 DEF AllNext
<1>. QED  BY <1>1, <1>2, Invariance, PTL DEF AllSpec, Client!Promised!OneShotSpec

\* While a callback is set, the alarm that will run it is pending, or jd_timer has been
\* called and has not come to it.
CallbackComing == timer_cb # "null" => alarm = timer_cb \/ fired # "null"

\* No callback the client has set is forgotten, also when it is set in a callback or
\* between an alarm and the lock of jd_timer: the safety core of SetTimerStops
\* (hw-esp32.c:79-89, 147-164).
THEOREM CallbackNotForgotten == AllSpec => []CallbackComing
<1>1. AllInit => CallbackComing
  BY DEF AllInit, Client!Init, CallbackComing
<1>2. CallbackComing /\ [AllNext]_allVars => CallbackComing'
  BY DEF CallbackComing, AllNext, allVars, clientVars, Client!Next, Client!tim_init,
         Client!SetTimer, Client!tim_set_timer, Client!AlarmFires, Client!jd_timer,
         Client!TakeCallback, Client!CallbackReturns
<1>. QED  BY <1>1, <1>2, PTL DEF AllSpec
=============================================================================
