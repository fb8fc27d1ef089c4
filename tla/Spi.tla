-------------------------------- MODULE Spi --------------------------------
(***************************************************************************)
(* The SPI master of main/spi.c.  One static transaction, trans, and one   *)
(* flag, spi_in_use, serve every caller.  Short transfers are polled and   *)
(* long ones queued to the driver, whose interrupt hands the completion to *)
(* the timer worker; done functions run in the timer task and may start    *)
(* the next transfer there ("this can in fact be invoked from done_fn()",  *)
(* spi.c:101), preempting the main task between any two steps below.       *)
(***************************************************************************)
EXTENDS TimQueue

CONSTANTS
  Ids,        (* done functions, one for each transfer under way            *)
  Callers     (* the tasks that start transfers: "main", or also "tim"      *)

Contexts == {"main", "tim"}
Kinds    == {"zero", "poll", "dma"}   (* 0, at most 4, or more bytes        *)

SpiConstantsOK == Callers \subseteq Contexts /\ Ids \cap {"null", "idle", "spi_done"} = {}

VARIABLES
  spi,         (* the device handle is not NULL                             *)
  spi_in_use,
  user,        (* trans.user                                                *)
  xfer,        (* where each context is in jd_spi_xfer or jd_spi_init       *)
  queued,      (* transactions the SPI driver has queued                    *)
  results,     (* finished ones whose result has not been fetched           *)
  owed         (* history: calls due to each done function                  *)

vars == <<spi, spi_in_use, user, xfer, queued, results, owed, shared>>

Out == [pc |-> "out", id |-> "null", kind |-> "zero"]

TypeOK ==
  /\ spi \in BOOLEAN /\ spi_in_use \in BOOLEAN
  /\ user \in Ids \union {"null"}
  /\ \A t \in Contexts : xfer[t].pc \in {"out", "go", "poll", "sync", "mark", "queue", "init", "add"}
  /\ queued \in 0..1 /\ results \in 0..1
  /\ owed \in [Ids -> 0..1]

Init ==
  /\ spi = FALSE /\ spi_in_use = FALSE
  /\ user = "null"
  /\ xfer = [t \in Contexts |-> Out]
  /\ queued = 0 /\ results = 0
  /\ owed = [i \in Ids |-> 0]
  /\ SharedInit

-----------------------------------------------------------------------------
Runs(t) == IF t = "main" THEN MainRuns ELSE TimIn(Ids)

Free(i) == owed[i] = 0 /\ \A t \in Contexts : xfer[t].id # i

Step(t, from, to) ==
  /\ Runs(t) /\ xfer[t].pc = from
  /\ xfer' = [xfer EXCEPT ![t] = IF to = "out" THEN Out ELSE [@ EXCEPT !.pc = to]]

Owe(i)  == owed' = [owed EXCEPT ![i] = @ + 1]

\* Faulty variant: jd_spi_is_ready does not look at spi_in_use.
Call_NotReady(t, i, kind) ==
  /\ Runs(t) /\ xfer[t].pc = "out" /\ t \in Callers /\ Free(i)
  /\ spi
  /\ xfer' = [xfer EXCEPT ![t] = [pc |-> IF kind = "zero" THEN "sync" ELSE "go",
                                  id |-> i, kind |-> kind]]
  /\ UNCHANGED <<spi, spi_in_use, user, queued, results, owed, shared>>

\* jd_spi_xfer up to its checks; a refused call changes nothing.
Call(t, i, kind) ==
  /\ Runs(t) /\ xfer[t].pc = "out" /\ t \in Callers /\ Free(i)
  /\ spi /\ ~spi_in_use
  /\ xfer' = [xfer EXCEPT ![t] = [pc |-> IF kind = "zero" THEN "sync" ELSE "go",
                                  id |-> i, kind |-> kind]]
  /\ UNCHANGED <<spi, spi_in_use, user, queued, results, owed, shared>>

FillTrans(t) ==
  /\ Step(t, "go", IF xfer[t].kind = "poll" THEN "poll" ELSE "mark")
  /\ user' = IF xfer[t].kind = "poll" THEN "null" ELSE xfer[t].id
  /\ UNCHANGED <<spi, spi_in_use, queued, results, owed, shared>>

\* spi_device_polling_transmit: its post_cb finds no user and returns.  It fails
\* while queued transactions are under way, and may fail otherwise.
PollTransmit(t) ==
  /\ \/ queued = 0 /\ Step(t, "poll", "sync")
     \/ Step(t, "poll", "out")
  /\ UNCHANGED <<spi, spi_in_use, user, queued, results, owed, shared>>

\* Faulty variant: sync_ok forgets the done function.
SyncOk_NoCall(t) ==
  /\ Step(t, "sync", "out")
  /\ Owe(xfer[t].id)
  /\ UNCHANGED <<spi, spi_in_use, user, queued, results, shared>>

SyncOk(t) ==
  /\ Step(t, "sync", "out")
  /\ Post(xfer[t].id) /\ Owe(xfer[t].id)
  /\ UNCHANGED <<spi, spi_in_use, user, queued, results, tim, failed>>

MarkInUse(t) ==
  /\ Step(t, "mark", "queue")
  /\ spi_in_use' = TRUE
  /\ UNCHANGED <<spi, user, queued, results, owed, shared>>

QueueTrans(t) ==
  /\ Step(t, "queue", "out")
  /\ queued + results < 2
  /\ queued' = queued + 1
  /\ Owe(xfer[t].id)
  /\ UNCHANGED <<spi, spi_in_use, user, results, shared>>

QueueTransFails(t) ==
  /\ Step(t, "queue", "out")
  /\ spi_in_use' = FALSE
  /\ UNCHANGED <<spi, user, queued, results, owed, shared>>

jd_spi_xfer(t) ==
  \/ \E i \in Ids, kind \in Kinds : Call(t, i, kind)
  \/ FillTrans(t)
  \/ PollTransmit(t)
  \/ SyncOk(t)
  \/ MarkInUse(t)
  \/ QueueTrans(t)
  \/ QueueTransFails(t)

-----------------------------------------------------------------------------
(* jd_spi_init, called by the main task: the old device goes, the new one  *)
(* comes, or one of the two driver calls fails.                            *)
InitCall ==
  /\ Runs("main") /\ xfer["main"].pc = "out"
  /\ ~spi_in_use
  /\ xfer' = [xfer EXCEPT !["main"].pc = "init"]
  /\ UNCHANGED <<spi, spi_in_use, user, queued, results, owed, shared>>

RemoveDevice ==
  /\ Step("main", "init", "add")
  /\ spi' = FALSE
  /\ UNCHANGED <<spi_in_use, user, queued, results, owed, shared>>

AddDevice ==
  /\ Step("main", "add", "out")
  /\ spi' \in BOOLEAN
  /\ UNCHANGED <<spi_in_use, user, queued, results, owed, shared>>

jd_spi_init == InitCall \/ RemoveDevice \/ AddDevice

-----------------------------------------------------------------------------
\* The interrupt at the end of a queued transaction.
jd_spi_done_cb ==
  /\ failed = "none" /\ queued > 0
  /\ queued' = queued - 1 /\ results' = results + 1
  /\ IF user = "null"
     THEN UNCHANGED <<queue, failed>>
     ELSE Post("spi_done") /\ failed' = IF spi_in_use THEN "none" ELSE "in_use"
  /\ UNCHANGED <<spi, spi_in_use, user, xfer, owed, tim>>

Complete(i) == tim' = i /\ owed' = [owed EXCEPT ![i] = @ - 1]

Asserts ==
  failed' = (CASE ~spi_in_use   -> "in_use"
               [] results = 0   -> "result"
               [] user = "null" -> "null_fn"
               [] OTHER         -> "none")

\* Faulty variant: spi_device_get_trans_result forgotten.
DoneOutsideIsr_NotFetched ==
  /\ Take("spi_done") /\ Asserts
  /\ IF failed' = "none" THEN spi_in_use' = FALSE /\ Complete(user)
                        ELSE UNCHANGED <<spi_in_use, tim, owed>>
  /\ UNCHANGED <<spi, user, xfer, queued, results>>

\* jd_spi_done_cb_outside_isr, up to the call of the done function.
DoneOutsideIsr ==
  /\ Take("spi_done") /\ Asserts
  /\ IF failed' = "none" THEN results' = results - 1 /\ spi_in_use' = FALSE /\ Complete(user)
                        ELSE UNCHANGED <<results, spi_in_use, tim, owed>>
  /\ UNCHANGED <<spi, user, xfer, queued>>

call_fn ==
  /\ \E i \in Ids : Take(i) /\ Complete(i)
  /\ UNCHANGED <<spi, spi_in_use, user, xfer, queued, results, failed>>

FnReturns ==
  /\ TimIn(Ids) /\ xfer["tim"].pc = "out"
  /\ tim' = "idle"
  /\ UNCHANGED <<spi, spi_in_use, user, xfer, queued, results, owed, queue, failed>>

TimerTask == DoneOutsideIsr \/ call_fn \/ FnReturns

Next == (\E t \in Contexts : jd_spi_xfer(t)) \/ jd_spi_init \/ jd_spi_done_cb \/ TimerTask

Spec == Init /\ [][Next]_vars

\* The driver finishes what it queued, the timer task runs, a call returns.
Fairness ==
  /\ WF_vars(jd_spi_done_cb)
  /\ WF_vars(TimerTask)
  /\ \A t \in Contexts :
       WF_vars(FillTrans(t) \/ PollTransmit(t) \/ SyncOk(t) \/ MarkInUse(t) \/ QueueTrans(t)
               \/ QueueTransFails(t))

FairSpec == Spec /\ Fairness

-----------------------------------------------------------------------------
\* The assertion of jd_spi_done_cb and jd_spi_done_cb_outside_isr alone: a
\* transfer that completes finds spi_in_use set, also when transfers are started
\* from done functions, as the comment in jd_spi_xfer allows (spi.c:22, 36, 101).
InUseAsserted == failed # "in_use"

\* Neither trans nor the device is touched while the driver still uses it.
TransInUse == queued + results > 0
=============================================================================
