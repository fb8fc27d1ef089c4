------------------------------ MODULE Deferred ------------------------------
(***************************************************************************)
(* What tim_worker_run promises its callers, in any context: a call it     *)
(* accepts is run by the timer task exactly once, in the order of          *)
(* acceptance; a call is refused only when QueueLen calls wait already.    *)
(***************************************************************************)
EXTENDS Naturals, Sequences

CONSTANTS
  Calls,      (* the (fn, arg) pairs                                        *)
  QueueLen    (* entries of the queue: 20 in worker_alloc                   *)

VARIABLE pending   (* the calls accepted and not run yet, oldest first      *)

DeferredInit == pending = <<>>

Accept(c) == Len(pending) < QueueLen /\ pending' = Append(pending, c)

Run == pending # <<>> /\ pending' = Tail(pending)

DeferredNext == (\E c \in Calls : Accept(c)) \/ Run

Safety == DeferredInit /\ [][DeferredNext]_pending

Promise == Safety /\ WF_pending(Run)
=============================================================================
