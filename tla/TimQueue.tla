------------------------------ MODULE TimQueue ------------------------------
(***************************************************************************)
(* The timer task as its users see it: Spi, LedStrip and Usb put calls in  *)
(* one queue and the timer task runs them, oldest first.  TimWorker shows  *)
(* that the queue and the one-shot timer of main/hw-esp32.c do this.  A    *)
(* user ignores what tim_worker_run returns, so that a call refused by a   *)
(* full queue is lost.                                                     *)
(***************************************************************************)
EXTENDS Integers, Sequences

CONSTANT QueueLen    (* entries of the queue: 20 in worker_alloc            *)

ASSUME QueueLenOK == QueueLen \in Nat \ {0}

VARIABLES
  queue,       (* the calls accepted and not taken yet, oldest first        *)
  tim,         (* the call the timer task is in, or "idle"                  *)
  failed       (* the assertion or driver call that stopped the firmware    *)

shared == <<queue, tim, failed>>

SharedInit == queue = <<>> /\ tim = "idle" /\ failed = "none"

\* The timer task has a much higher priority than the main task: the main task
\* moves only while the timer task has nothing to do, or has not been told yet.
MainRuns == failed = "none" /\ tim = "idle"

TimIn(S) == failed = "none" /\ tim \in S

\* Faulty variant: one entry less than was asked for.
Post_OneLess(call) ==
  queue' = IF Len(queue) < QueueLen - 1 THEN Append(queue, call) ELSE queue

Post(call) == queue' = IF Len(queue) < QueueLen THEN Append(queue, call) ELSE queue

Waiting(call) == \E k \in DOMAIN queue : queue[k] = call

\* The timer task takes the oldest call.
Take(call) ==
  /\ TimIn({"idle"})
  /\ queue # <<>> /\ call = Head(queue) /\ queue' = Tail(queue)
=============================================================================
