----------------------------- MODULE TimWorker -----------------------------
(***************************************************************************)
(* The timer worker: tim_worker_run of main/hw-esp32.c on the queue of     *)
(* main/worker.c.  A poster (the main task, an interrupt, a callback of    *)
(* the timer task itself) puts the call in the queue, then stops and       *)
(* restarts the one-shot timer_worker; the timer's callback empties the    *)
(* queue.  Posters preempt one another and the callback anywhere between   *)
(* the steps below.                                                        *)
(***************************************************************************)
EXTENDS Naturals, Sequences

CONSTANTS
  Posters,    (* the contexts that call tim_worker_run                      *)
  Calls,      (* the (fn, arg) pairs they pass                              *)
  QueueLen    (* entries of the queue: 20 in worker_alloc                   *)

ASSUME QueueLenOK == QueueLen \in Nat \ {0}

VARIABLES
  queue,      (* w->queue                                                   *)
  armed,      (* timer_worker is started                                    *)
  poster,     (* where each poster is in tim_worker_run                     *)
  worker      (* where the callback of timer_worker is                      *)

vars == <<queue, armed, poster, worker>>

TypeOK ==
  /\ queue \in Seq(Calls) /\ Len(queue) <= QueueLen
  /\ armed \in BOOLEAN
  /\ poster \in [Posters -> {"out", "stop", "start"}]
  /\ worker \in {"idle", "loop", "run"}

Init ==
  /\ queue = <<>>
  /\ armed = FALSE
  /\ poster = [p \in Posters |-> "out"]
  /\ worker = "idle"

Goto(p, from, to) == poster[p] = from /\ poster' = [poster EXCEPT ![p] = to]

\* Faulty variant: a queue one entry longer than the one created.
worker_run_Overfull(p, c) ==
  /\ Goto(p, "out", "stop")
  /\ Len(queue) <= QueueLen
  /\ queue' = Append(queue, c)
  /\ UNCHANGED <<armed, worker>>

\* worker_run accepts the call; a full queue makes tim_worker_run return -1,
\* which changes nothing.
worker_run(p, c) ==
  /\ Goto(p, "out", "stop")
  /\ Len(queue) < QueueLen
  /\ queue' = Append(queue, c)
  /\ UNCHANGED <<armed, worker>>

\* Faulty variant: the timer is stopped and not restarted.
StopTimer_NoRestart(p) ==
  /\ Goto(p, "stop", "out")
  /\ armed' = FALSE
  /\ UNCHANGED <<queue, worker>>

\* esp_timer_stop: the alarm another poster may just have set is lost.
StopTimer(p) ==
  /\ Goto(p, "stop", "start")
  /\ armed' = FALSE
  /\ UNCHANGED <<queue, worker>>

\* esp_timer_start_once fails when the timer runs already, which is as good.
StartTimer(p) ==
  /\ Goto(p, "start", "out")
  /\ armed' = TRUE
  /\ UNCHANGED <<queue, worker>>

tim_worker_run(p) ==
  \/ \E c \in Calls : worker_run(p, c)
  \/ StopTimer(p)
  \/ StartTimer(p)

\* The alarm is taken off the list before its callback, jd_tim_worker, runs.
jd_tim_worker ==
  /\ worker = "idle" /\ worker' = "loop"
  /\ armed /\ armed' = FALSE
  /\ UNCHANGED <<queue, poster>>

\* The loop of worker_do_work; w->fn is never set for this worker.
ReceiveCall ==
  /\ worker = "loop" /\ worker' = "run"
  /\ queue # <<>> /\ queue' = Tail(queue)
  /\ UNCHANGED <<armed, poster>>

CallReturns ==
  /\ worker = "run" /\ worker' = "loop"
  /\ UNCHANGED <<queue, armed, poster>>

\* Faulty variant: one call for each alarm.
QueueEmpty_AfterOne ==
  /\ worker = "loop" /\ worker' = "idle"
  /\ UNCHANGED <<queue, armed, poster>>

QueueEmpty ==
  /\ worker = "loop" /\ worker' = "idle"
  /\ queue = <<>>
  /\ UNCHANGED <<queue, armed, poster>>

worker_do_work == ReceiveCall \/ CallReturns \/ QueueEmpty

TimerTask == jd_tim_worker \/ worker_do_work

Next == (\E p \in Posters : tim_worker_run(p)) \/ TimerTask

Spec == Init /\ [][Next]_vars

\* A poster inside tim_worker_run finishes it, and the timer task runs.
Fairness ==
  /\ \A p \in Posters : WF_vars(StopTimer(p) \/ StartTimer(p))
  /\ WF_vars(TimerTask)

FairSpec == Spec /\ Fairness

-----------------------------------------------------------------------------
\* No wake-up is lost: while calls wait, the timer is armed, or its callback
\* has yet to find the queue empty, or a poster is about to arm the timer.
NoLostWakeup ==
  queue # <<>> =>
    \/ armed
    \/ worker # "idle"
    \/ \E p \in Posters : poster[p] # "out"

\* What the callers rely on: every call accepted is run, once and in order.
Promised == INSTANCE Deferred WITH pending <- queue
KeepsPromise == Promised!Promise
=============================================================================
