-------------------------- MODULE TimWorkerProofs --------------------------
(***************************************************************************)
(* The timer worker loses no wake-up and implements the safety part of     *)
(* Deferred, for any number of posters and any length of the queue.        *)
(***************************************************************************)
EXTENDS TimWorker, TLAPS

LEMMA InitHolds == ASSUME Init PROVE TypeOK /\ NoLostWakeup
<1>1. queue \in Seq(Calls) /\ Len(queue) <= QueueLen
  BY QueueLenOK DEF Init
<1>2. armed \in BOOLEAN
  BY DEF Init
<1>3. poster \in [Posters -> {"out", "stop", "start"}] /\ worker \in {"idle", "loop", "run"}
  BY DEF Init
<1>4. NoLostWakeup
  BY DEF Init, NoLostWakeup
<1>. QED  BY <1>1, <1>2, <1>3, <1>4 DEF TypeOK

\* A poster adds a call at the end and owes the timer a restart from then on.
LEMMA PosterHolds ==
  ASSUME TypeOK, NoLostWakeup, NEW p \in Posters, tim_worker_run(p)
  PROVE  TypeOK' /\ NoLostWakeup'
<1>1. CASE \E c \in Calls : worker_run(p, c)
  <2>. PICK c \in Calls : worker_run(p, c)
    BY <1>1
  <2>1. TypeOK'
    BY QueueLenOK DEF TypeOK, worker_run, Goto
  <2>2. poster'[p] # "out"
    BY DEF TypeOK, worker_run, Goto
  <2>. QED  BY <2>1, <2>2 DEF NoLostWakeup
<1>2. CASE StopTimer(p)
  <2>1. TypeOK'
    BY <1>2 DEF TypeOK, StopTimer, Goto
  <2>2. poster'[p] # "out"
    BY <1>2 DEF TypeOK, StopTimer, Goto
  <2>. QED  BY <2>1, <2>2 DEF NoLostWakeup
<1>3. CASE StartTimer(p)
  BY <1>3 DEF TypeOK, NoLostWakeup, StartTimer, Goto
<1>. QED  BY <1>1, <1>2, <1>3 DEF tim_worker_run

\* The callback goes idle only when it finds the queue empty.
LEMMA TimerTaskHolds ==
  ASSUME TypeOK, NoLostWakeup, TimerTask
  PROVE  TypeOK' /\ NoLostWakeup'
<1>1. CASE jd_tim_worker
  BY <1>1 DEF TypeOK, NoLostWakeup, jd_tim_worker
<1>2. CASE ReceiveCall
  BY <1>2, QueueLenOK DEF TypeOK, NoLostWakeup, ReceiveCall
<1>3. CASE CallReturns
  BY <1>3 DEF TypeOK, NoLostWakeup, CallReturns
<1>4. CASE QueueEmpty
  BY <1>4 DEF TypeOK, NoLostWakeup, QueueEmpty
<1>. QED  BY <1>1, <1>2, <1>3, <1>4 DEF TimerTask, worker_do_work

LEMMA StepHolds ==
  ASSUME TypeOK, NoLostWakeup, [Next]_vars
  PROVE  TypeOK' /\ NoLostWakeup'
<1>1. CASE UNCHANGED vars
  BY <1>1 DEF TypeOK, NoLostWakeup, vars
<1>. QED  BY <1>1, PosterHolds, TimerTaskHolds DEF Next

\* The queue holds calls and never more than it was created for.
THEOREM TypeCorrect == Spec => []TypeOK
<1>1. Init => TypeOK /\ NoLostWakeup
  BY InitHolds
<1>2. (TypeOK /\ NoLostWakeup) /\ [Next]_vars => (TypeOK /\ NoLostWakeup)'
  BY StepHolds
<1>. QED  BY <1>1, <1>2, PTL DEF Spec

\* A call in the queue always has an alarm, a running callback or a poster on
\* its way to the alarm: tim_worker_run loses no wake-up.
THEOREM WakeupKept == Spec => []NoLostWakeup
<1>1. Init => TypeOK /\ NoLostWakeup
  BY InitHolds
<1>2. (TypeOK /\ NoLostWakeup) /\ [Next]_vars => (TypeOK /\ NoLostWakeup)'
  BY StepHolds
<1>. QED  BY <1>1, <1>2, PTL DEF Spec

-----------------------------------------------------------------------------
LEMMA StepRefines ==
  ASSUME TypeOK, [Next]_vars
  PROVE  [Promised!DeferredNext]_queue
<1>1. CASE \E p \in Posters : tim_worker_run(p)
  <2>. PICK p \in Posters : tim_worker_run(p)
    BY <1>1
  <2>1. CASE \E c \in Calls : worker_run(p, c)
    BY <2>1 DEF worker_run, Promised!DeferredNext, Promised!Accept
  <2>2. CASE StopTimer(p) \/ StartTimer(p)
    BY <2>2 DEF StopTimer, StartTimer
  <2>. QED  BY <2>1, <2>2 DEF tim_worker_run
<1>2. CASE TimerTask
  BY <1>2 DEF TimerTask, worker_do_work, jd_tim_worker, ReceiveCall, CallReturns, QueueEmpty,
              Promised!DeferredNext, Promised!Run
<1>3. CASE UNCHANGED vars
  BY <1>3 DEF vars
<1>. QED  BY <1>1, <1>2, <1>3 DEF Next

\* Every call accepted is run at most once and in order, and a call is refused
\* only when the queue is full.
THEOREM Refinement == Spec => Promised!Safety
<1>1. Init => Promised!DeferredInit
  BY DEF Init, Promised!DeferredInit
<1>2. TypeOK /\ [Next]_vars => [Promised!DeferredNext]_queue
  BY StepRefines
<1>. QED  BY <1>1, <1>2, TypeCorrect, PTL DEF Spec, Promised!Safety
=============================================================================
