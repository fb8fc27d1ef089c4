---------------------------- MODULE TimUsersProofs ----------------------------
(***************************************************************************)
(* The users of the timer worker do not disturb one another: for any number *)
(* of transfers, any queue length and any cutting up of the strip's data,  *)
(* what a transfer uses is its own until its done function is called, and  *)
(* that happens once.                                                      *)
(*                                                                         *)
(* SpiInv and LedInv say where a transfer can be, for each kind; the lemmas *)
(* about the queue say what posting and taking a call changes, and for the *)
(* console the proof of UsbProofs is used as it stands.                    *)
(***************************************************************************)
EXTENDS TimUsers, FiniteSetTheorems, SequenceTheorems, TLAPS

Console == INSTANCE UsbProofs WITH target <- chip

\* The calls in the queue; fill_queue alone may be there twice.
Queued == {queue[k] : k \in DOMAIN queue}

QueuedOnce ==
  \A a, b \in DOMAIN queue : queue[a] = queue[b] /\ queue[a] # "fill_queue" => a = b

\* The main task's transfer, the only one there is.
SpiCall == xfer["main"]

\* spi_in_use is set from just before the transaction is queued until just after
\* its result is fetched, and whose transaction it is has one call due, which is not
\* in the queue.
SpiFlow ==
  /\ xfer["tim"].pc = "out"
  /\ SpiCall.pc \in {"go", "poll", "sync", "mark", "init", "add"} => ~spi_in_use
  /\ SpiCall.pc \in {"go", "poll", "sync", "mark", "queue"} =>
       SpiCall.id \in SpiIds /\ spi_owed[SpiCall.id] = 0
  /\ SpiCall.pc \in {"mark", "queue"} => user = SpiCall.id
  /\ SpiCall.pc = "queue" => spi_in_use /\ queued = 0 /\ results = 0
  /\ ~spi_in_use => queued = 0 /\ results = 0

SpiDue ==
  /\ queued + results > 0 =>
       queued + results = 1 /\ user \in SpiIds /\ spi_owed[user] = 1 /\ user \notin Queued
  /\ "spi_done" \in Queued => results = 1
  /\ \A i \in SpiIds \intersect Queued : spi_owed[i] = 1

LedAtRest == ~sending /\ "led_done" \notin Queued /\ tim \notin {"led_disabled", "led_free"}

\* A transfer is in one place at a time: with the main task, with the channel, in
\* the queue or with the timer task; and the channel is enabled on the first three.
LedFlow ==
  /\ send.pc # "out" => send.id \in LedIds /\ led_owed[send.id] = 0 /\ led_chan = "on" /\ LedAtRest
  /\ send.pc = "mark" => ~led_in_use
  /\ send.pc = "transmit" => led_in_use /\ led_done_fn = send.id
  /\ send.pc = "out" /\ led_chan = "on" => led_in_use
  /\ sending => "led_done" \notin Queued
  /\ sending \/ "led_done" \in Queued =>
       led_in_use /\ led_chan = "on" /\ tim \notin {"led_disabled", "led_free"}
  /\ tim = "led_disabled" => led_in_use /\ led_chan # "on"

LedDue == ~LedAtRest => led_done_fn \in LedIds /\ led_owed[led_done_fn] = 1

\* The encoder never leaves the data short, and puts the reset code out once.
EncoderFlow ==
  /\ enc.state = 0 /\ ~enc.complete => enc.data < DataLen /\ enc.resets = 0
  /\ enc.state = 1 => enc.data = DataLen /\ enc.resets = 0 /\ ~enc.complete
  /\ enc.complete => enc.data = DataLen /\ enc.resets = 1

\* The types, for the provers.
SpiTypes ==
  /\ spi \in BOOLEAN /\ spi_in_use \in BOOLEAN
  /\ user \in SpiIds \union {"null"}
  /\ xfer \in [{"main", "tim"} ->
                 [pc : {"out", "go", "poll", "sync", "mark", "queue", "init", "add"},
                  id : SpiIds \union {"null"}, kind : {"zero", "poll", "dma"}]]
  /\ queued \in 0..1 /\ results \in 0..1
  /\ spi_owed \in [SpiIds -> 0..1]

LedTypes ==
  /\ led_chan \in {"none", "off", "on"}
  /\ target \in Targets \union {"null"}
  /\ led_in_use \in BOOLEAN /\ sending \in BOOLEAN
  /\ led_done_fn \in LedIds \union {"null"}
  /\ send \in [pc : {"out", "mark", "transmit"}, id : LedIds \union {"null"}]
  /\ led_owed \in [LedIds -> 0..1]

EncoderTypes ==
  /\ enc \in [state : 0..1, data : 0..DataLen, resets : 0..1, complete : BOOLEAN]
  /\ mem \in 0..MemLen

QueueOK == queue \in Seq(Calls) /\ Len(queue) <= QueueLen /\ QueuedOnce

SpiInv == SpiTypes /\ SpiFlow /\ SpiDue
LedInv == LedTypes /\ LedFlow /\ LedDue
EncoderInv == EncoderTypes /\ EncoderFlow
UsbInv == Usb!TypeOK

TimOK == tim \in SpiIds \union LedIds \union {"idle", "led_disabled", "led_free", "fill_queue"}

Inv ==
  /\ QueueOK /\ TimOK /\ failed = "none"
  /\ SpiInv /\ LedInv /\ EncoderInv /\ UsbInv

-----------------------------------------------------------------------------
(* The queue.                                                              *)
LEMMA QueuedIn ==
  ASSUME QueueOK
  PROVE  /\ \A k \in 1..Len(queue) : queue[k] \in Queued
         /\ \A c \in Queued : \E k \in 1..Len(queue) : queue[k] = c
         /\ DOMAIN queue = 1..Len(queue) /\ Len(queue) \in Nat
BY DEF QueueOK, Queued

LEMMA WaitingQueued == \A c : Waiting(c) <=> c \in Queued
BY DEF Waiting, Queued

\* A call posted is at the end of the queue, or lost because the queue is full.
LEMMA Posted ==
  ASSUME QueueOK, NEW c \in Calls, c \notin Queued \/ c = "fill_queue", Post(c)
  PROVE  QueueOK' /\ Queued \subseteq Queued' /\ Queued' \subseteq Queued \union {c}
<1>1. CASE Len(queue) < QueueLen
  <2>1. queue' = Append(queue, c)
    BY <1>1 DEF Post
  <2>2. /\ queue' \in Seq(Calls) /\ Len(queue') = Len(queue) + 1 /\ Len(queue') <= QueueLen
        /\ \A k \in 1..Len(queue) : queue'[k] = queue[k]
        /\ queue'[Len(queue) + 1] = c
    BY <1>1, <2>1, QueueLenOK DEF QueueOK
  <2>3. DOMAIN queue' = 1..(Len(queue) + 1)
    BY <2>2
  <2>4. QueuedOnce'
    <3>1. SUFFICES ASSUME NEW a \in 1..(Len(queue) + 1), NEW b \in 1..(Len(queue) + 1),
                          queue'[a] = queue'[b], queue'[a] # "fill_queue"
                   PROVE  a = b
      BY <2>3 DEF QueuedOnce
    <3>2. CASE a <= Len(queue) /\ b <= Len(queue)
      BY <2>2, <3>1, <3>2, QueuedIn DEF QueueOK, QueuedOnce
    <3>3. CASE a <= Len(queue) /\ b = Len(queue) + 1
      BY <2>2, <3>1, <3>3, QueuedIn
    <3>4. CASE b <= Len(queue) /\ a = Len(queue) + 1
      BY <2>2, <3>1, <3>4, QueuedIn
    <3>. QED  BY <3>2, <3>3, <3>4, QueuedIn
  <2>5. Queued \subseteq Queued'
    BY <2>2, <2>3, QueuedIn DEF Queued
  <2>6. Queued' \subseteq Queued \union {c}
    <3>1. \A k \in 1..(Len(queue) + 1) : queue'[k] \in Queued \union {c}
      BY <2>2, QueuedIn
    <3>. QED  BY <2>3, <3>1 DEF Queued
  <2>. QED  BY <2>2, <2>4, <2>5, <2>6 DEF QueueOK
<1>2. CASE ~(Len(queue) < QueueLen)
  BY <1>2 DEF Post, QueueOK, QueuedOnce, Queued
<1>. QED  BY <1>1, <1>2

\* A call taken is in the queue no more.
LEMMA Taken ==
  ASSUME QueueOK, NEW c, Take(c)
  PROVE  /\ c \in Queued /\ tim = "idle" /\ failed = "none"
         /\ QueueOK' /\ Queued' \subseteq Queued /\ Queued \subseteq Queued' \union {c}
         /\ c # "fill_queue" => c \notin Queued'
<1>1. queue # <<>> /\ c = queue[1] /\ queue' = Tail(queue) /\ Len(queue) >= 1
  BY DEF Take, QueueOK
<1>2. /\ queue' \in Seq(Calls) /\ Len(queue') = Len(queue) - 1
      /\ \A k \in 1..(Len(queue) - 1) : queue'[k] = queue[k + 1]
  BY <1>1, HeadTailProperties DEF QueueOK
<1>3. DOMAIN queue' = 1..(Len(queue) - 1)
  BY <1>2
<1>4. QueuedOnce'
  <2>1. SUFFICES ASSUME NEW a \in 1..(Len(queue) - 1), NEW b \in 1..(Len(queue) - 1),
                        queue'[a] = queue'[b], queue'[a] # "fill_queue"
                 PROVE  a = b
    BY <1>3 DEF QueuedOnce
  <2>2. a + 1 \in 1..Len(queue) /\ b + 1 \in 1..Len(queue)
    BY QueuedIn
  <2>3. a + 1 = b + 1
    BY SMTT(20), <1>2, <2>1, <2>2, QueuedIn DEF QueueOK, QueuedOnce
  <2>. QED  BY <2>3
<1>5. Queued' \subseteq Queued
  <2>1. \A k \in 1..(Len(queue) - 1) : queue'[k] \in Queued
    BY <1>2, QueuedIn
  <2>. QED  BY <1>3, <2>1 DEF Queued
<1>6. Queued \subseteq Queued' \union {c}
  <2>1. ASSUME NEW k \in 1..Len(queue)  PROVE queue[k] \in Queued' \union {c}
    <3>1. CASE k = 1
      BY <1>1, <3>1
    <3>2. CASE k # 1
      <4>1. k - 1 \in 1..(Len(queue) - 1) /\ queue'[k - 1] = queue[k]
        BY <1>2, <3>2, QueuedIn
      <4>. QED  BY <1>3, <4>1 DEF Queued
    <3>. QED  BY <3>1, <3>2
  <2>. QED  BY <2>1, QueuedIn
<1>7. c # "fill_queue" => c \notin Queued'
  <2>1. SUFFICES ASSUME c # "fill_queue", NEW k \in 1..(Len(queue) - 1), queue'[k] = c
                 PROVE  FALSE
    BY <1>3 DEF Queued
  <2>2. k + 1 \in 1..Len(queue) /\ 1 \in 1..Len(queue) /\ queue[k + 1] = queue[1]
    BY <1>1, <1>2, <2>1, QueuedIn
  <2>3. k + 1 = 1
    BY <1>1, <2>1, <2>2, QueuedIn DEF QueueOK, QueuedOnce
  <2>. QED  BY <2>3
<1>8. c \in Queued
  BY <1>1, QueuedIn
<1>9. tim = "idle" /\ failed = "none"
  BY DEF Take, TimIn
<1>10. QueueOK'
  <2>1. Len(queue') <= QueueLen
    BY <1>2, QueuedIn, QueueLenOK DEF QueueOK
  <2>. QED  BY ONLY <1>2, <1>4, <2>1 DEF QueueOK
<1>. QED  BY <1>5, <1>6, <1>7, <1>8, <1>9, <1>10

LEMMA QueueKept == ASSUME QueueOK, UNCHANGED queue PROVE QueueOK' /\ Queued' = Queued
BY DEF QueueOK, QueuedOnce, Queued

-----------------------------------------------------------------------------
(* The SPI master.                                                         *)
LEMMA Names ==
  /\ SpiIds \subseteq Calls /\ {"spi_done", "led_done", "fill_queue"} \subseteq Calls
  /\ "spi_done" \notin SpiIds /\ "led_done" \notin SpiIds /\ "fill_queue" \notin SpiIds
  /\ "idle" \notin SpiIds /\ "led_disabled" \notin SpiIds /\ "led_free" \notin SpiIds
  /\ "idle" \notin LedIds /\ "led_disabled" \notin LedIds /\ "led_free" \notin LedIds
  /\ "null" \notin SpiIds /\ "null" \notin LedIds /\ "fill_queue" \notin LedIds
  /\ SpiIds \intersect LedIds = {}
BY ConstantsOK DEF Calls

\* Only the main task starts transfers.
LEMMA MainTransfers ==
  ASSUME SpiFlow, NEW t \in Spi!Contexts, Spi!jd_spi_xfer(t)
  PROVE  t = "main"
<1>. SUFFICES ASSUME t = "tim"  PROVE FALSE
  BY DEF Spi!Contexts
<1>1. xfer["tim"].pc = "out"
  BY DEF SpiFlow
<1>. QED
  BY <1>1 DEF Spi!jd_spi_xfer, Spi!Call, Spi!FillTrans, Spi!PollTransmit, Spi!SyncOk,
       Spi!MarkInUse, Spi!QueueTrans, Spi!QueueTransFails, Spi!Step

\* The steps of jd_spi_xfer and jd_spi_init that call nobody.
LEMMA SpiCallStep ==
  ASSUME QueueOK, SpiInv, queue' = queue,
         \/ \E i \in SpiIds, kind \in Spi!Kinds : Spi!Call("main", i, kind)
         \/ Spi!FillTrans("main") \/ Spi!PollTransmit("main") \/ Spi!MarkInUse("main")
         \/ Spi!QueueTransFails("main") \/ Spi!jd_spi_init
  PROVE  SpiInv'
<1>. USE Names, QueueKept DEF SpiInv, SpiTypes, SpiFlow, SpiDue, SpiCall, Spi!Step, Spi!Out
<1>1. ASSUME NEW i \in SpiIds, NEW kind \in Spi!Kinds, Spi!Call("main", i, kind)  PROVE SpiInv'
  BY <1>1 DEF Spi!Call, Spi!Free, Spi!Contexts, Spi!Kinds
<1>2. CASE Spi!FillTrans("main")
  BY <1>2 DEF Spi!FillTrans
<1>3. CASE Spi!PollTransmit("main")
  BY <1>3 DEF Spi!PollTransmit
<1>4. CASE Spi!MarkInUse("main")
  BY <1>4 DEF Spi!MarkInUse
<1>5. CASE Spi!QueueTransFails("main")
  BY <1>5 DEF Spi!QueueTransFails
<1>6. CASE Spi!InitCall
  BY <1>6 DEF Spi!InitCall
<1>7. CASE Spi!RemoveDevice
  BY <1>7 DEF Spi!RemoveDevice
<1>8. CASE Spi!AddDevice
  BY <1>8 DEF Spi!AddDevice
<1>. QED  BY <1>1, <1>2, <1>3, <1>4, <1>5, <1>6, <1>7, <1>8 DEF Spi!jd_spi_init

\* A short transfer is complete: its done function is posted, and was not before.
LEMMA SyncOkStep ==
  ASSUME QueueOK, SpiInv, Spi!SyncOk("main")
  PROVE  /\ SpiInv' /\ QueueOK'
         /\ \E i \in SpiIds : spi_owed[i] = 0 /\ spi_owed' = [spi_owed EXCEPT ![i] = 1]
<1>. DEFINE i == SpiCall.id
<1>1. i \in SpiIds /\ spi_owed[i] = 0 /\ i \notin Queued
  BY DEF Spi!SyncOk, Spi!Step, SpiInv, SpiTypes, SpiFlow, SpiDue, SpiCall
<1>2. Post(i) /\ spi_owed' = [spi_owed EXCEPT ![i] = @ + 1]
  BY DEF Spi!SyncOk, Spi!Post, Post, Spi!Owe, SpiCall
<1>3. QueueOK' /\ Queued \subseteq Queued' /\ Queued' \subseteq Queued \union {i}
  BY <1>1, <1>2, Posted, Names
<1>owe. spi_owed' = [spi_owed EXCEPT ![i] = 1]
  BY <1>1, <1>2
<1>4. /\ spi_owed' \in [SpiIds -> 0..1]
      /\ \A j \in SpiIds : spi_owed'[j] = IF j = i THEN 1 ELSE spi_owed[j]
  BY <1>1, <1>2 DEF SpiInv, SpiTypes
<1>5. UNCHANGED <<spi, spi_in_use, user, queued, results>> /\ ~spi_in_use
  BY DEF Spi!SyncOk, Spi!Step, SpiInv, SpiFlow, SpiCall
<1>6. xfer' = [xfer EXCEPT !["main"] = Spi!Out] /\ SpiCall.pc = "sync"
  BY DEF Spi!SyncOk, Spi!Step, SpiCall
<1>. HIDE DEF i
<1>7. SpiInv'
  BY <1>1, <1>3, <1>4, <1>5, <1>6, Names DEF SpiInv, SpiTypes, SpiFlow, SpiDue, SpiCall, Spi!Out
<1>. QED  BY <1>1, <1>owe, <1>3, <1>7

\* A long transfer is with the driver.
LEMMA QueueTransStep ==
  ASSUME QueueOK, SpiInv, Spi!QueueTrans("main")
  PROVE  /\ SpiInv' /\ QueueOK'
         /\ \E i \in SpiIds : spi_owed[i] = 0 /\ spi_owed' = [spi_owed EXCEPT ![i] = 1]
<1>1. QueueOK' /\ Queued' = Queued
  BY QueueKept DEF Spi!QueueTrans, Spi!shared
<1>2. /\ SpiCall.pc = "queue" /\ user \in SpiIds /\ user = SpiCall.id /\ spi_owed[user] = 0
      /\ user \notin Queued /\ queued = 0 /\ results = 0 /\ spi_in_use
  BY DEF Spi!QueueTrans, Spi!Step, SpiInv, SpiTypes, SpiFlow, SpiDue, SpiCall
<1>owe. spi_owed' = [spi_owed EXCEPT ![user] = 1]
  BY <1>2 DEF Spi!QueueTrans, Spi!Owe, SpiCall
<1>3. /\ spi_owed' \in [SpiIds -> 0..1]
      /\ \A j \in SpiIds : spi_owed'[j] = IF j = user THEN 1 ELSE spi_owed[j]
  BY <1>2 DEF Spi!QueueTrans, Spi!Owe, SpiInv, SpiTypes, SpiCall
<1>4. /\ UNCHANGED <<spi, spi_in_use, user, results>> /\ queued' = 1
      /\ xfer' = [xfer EXCEPT !["main"] = Spi!Out]
  BY <1>2 DEF Spi!QueueTrans, Spi!Step
<1>5. SpiInv'
  BY <1>1, <1>2, <1>3, <1>4, Names DEF SpiInv, SpiTypes, SpiFlow, SpiDue, SpiCall, Spi!Out
<1>. QED  BY <1>1, <1>2, <1>owe, <1>5

\* Its end is posted to the timer worker: with spi_in_use set, and once.
LEMMA SpiDoneStep ==
  ASSUME QueueOK, SpiInv, Spi!jd_spi_done_cb
  PROVE  SpiInv' /\ QueueOK' /\ failed' = "none"
<1>1. /\ queued = 1 /\ results = 0 /\ spi_in_use /\ user \in SpiIds /\ "spi_done" \notin Queued
      /\ SpiCall.pc = "out"
  BY DEF Spi!jd_spi_done_cb, SpiInv, SpiTypes, SpiFlow, SpiDue, SpiCall
<1>2. Post("spi_done") /\ failed' = "none"
  BY <1>1, Names DEF Spi!jd_spi_done_cb, Spi!Post, Post
<1>3. QueueOK' /\ Queued \subseteq Queued' /\ Queued' \subseteq Queued \union {"spi_done"}
  BY <1>1, <1>2, Posted, Names
<1>4. UNCHANGED <<spi, spi_in_use, user, xfer, spi_owed>> /\ queued' = 0 /\ results' = 1
  BY <1>1 DEF Spi!jd_spi_done_cb
<1>. QED
  BY <1>1, <1>2, <1>3, <1>4, Names DEF SpiInv, SpiTypes, SpiFlow, SpiDue, SpiCall

\* jd_spi_done_cb_outside_isr finds what it asserts, and the next transfer may start.
LEMMA SpiOutsideStep ==
  ASSUME QueueOK, SpiInv, Spi!DoneOutsideIsr
  PROVE  /\ SpiInv' /\ QueueOK' /\ failed' = "none"
         /\ user \in SpiIds /\ spi_owed[user] = 1 /\ spi_owed' = [spi_owed EXCEPT ![user] = 0]
         /\ tim' = user
<1>1. Take("spi_done")
  BY DEF Spi!DoneOutsideIsr, Spi!Take, Spi!TimIn, Take, TimIn
<1>2. /\ "spi_done" \in Queued /\ QueueOK' /\ Queued' \subseteq Queued /\ "spi_done" \notin Queued'
      /\ failed = "none"
  BY <1>1, Taken
<1>3. /\ results = 1 /\ queued = 0 /\ spi_in_use /\ user \in SpiIds /\ spi_owed[user] = 1
      /\ user \notin Queued /\ SpiCall.pc = "out"
  BY <1>2 DEF SpiInv, SpiTypes, SpiFlow, SpiDue, SpiCall
<1>4. failed' = "none"
  BY <1>3, Names DEF Spi!DoneOutsideIsr, Spi!Asserts
<1>5. /\ UNCHANGED <<spi, user, xfer, queued>> /\ results' = 0 /\ spi_in_use' = FALSE
      /\ tim' = user /\ spi_owed' = [spi_owed EXCEPT ![user] = @ - 1]
  BY <1>3, <1>4 DEF Spi!DoneOutsideIsr, Spi!Complete
<1>6. /\ spi_owed' = [spi_owed EXCEPT ![user] = 0] /\ spi_owed' \in [SpiIds -> 0..1]
      /\ \A j \in SpiIds : spi_owed'[j] = IF j = user THEN 0 ELSE spi_owed[j]
  BY <1>3, <1>5 DEF SpiInv, SpiTypes
<1>7. SpiInv'
  <2>1. SpiTypes'
    BY <1>3, <1>5, <1>6 DEF SpiInv, SpiTypes
  <2>2. SpiFlow'
    BY <1>3, <1>5, <1>6 DEF SpiInv, SpiFlow, SpiCall
  <2>3. SpiDue'
    BY <1>2, <1>3, <1>5, <1>6 DEF SpiInv, SpiDue
  <2>. QED  BY <2>1, <2>2, <2>3 DEF SpiInv
<1>. QED  BY <1>2, <1>3, <1>4, <1>5, <1>6, <1>7

\* The done function of a short transfer.
LEMMA SpiFnStep ==
  ASSUME QueueOK, SpiInv, NEW i \in SpiIds, Spi!Take(i), Spi!Complete(i),
         UNCHANGED <<spi, spi_in_use, user, xfer, queued, results>>
  PROVE  /\ SpiInv' /\ QueueOK'
         /\ spi_owed[i] = 1 /\ spi_owed' = [spi_owed EXCEPT ![i] = 0]
<1>1. Take(i)
  BY DEF Spi!Take, Spi!TimIn, Take, TimIn
<1>2. i \in Queued /\ QueueOK' /\ Queued' \subseteq Queued /\ i \notin Queued'
  BY <1>1, Taken, Names
<1>3. spi_owed[i] = 1 /\ (queued + results > 0 => user # i)
  BY <1>2 DEF SpiInv, SpiDue
<1>4. spi_owed' = [spi_owed EXCEPT ![i] = @ - 1]
  BY DEF Spi!Complete
<1>5. /\ spi_owed' = [spi_owed EXCEPT ![i] = 0] /\ spi_owed' \in [SpiIds -> 0..1]
      /\ \A j \in SpiIds : spi_owed'[j] = IF j = i THEN 0 ELSE spi_owed[j]
  BY <1>3, <1>4 DEF SpiInv, SpiTypes
<1>6. SpiInv'
  BY <1>2, <1>3, <1>5, Names DEF SpiInv, SpiTypes, SpiFlow, SpiDue, SpiCall
<1>. QED  BY <1>2, <1>3, <1>5, <1>6

-----------------------------------------------------------------------------
(* The LED strip.                                                          *)
LEMMA ConfigureStep ==
  ASSUME QueueOK, LedInv, NEW i \in LedIds, NEW t \in Targets, Led!Configure(i, t)
  PROVE  LedInv' /\ QueueOK' /\ failed' = "none" /\ LedAtRest
<1>1. LedAtRest /\ led_chan # "on"
  BY Names DEF Led!Configure, Led!MainRuns, LedInv, LedTypes, LedFlow, LedAtRest
<1>2. QueueOK' /\ Queued' = Queued /\ tim' = tim /\ failed' = "none"
  BY <1>1, QueueKept DEF Led!Configure, Led!SetUp
<1>3. /\ send' = [pc |-> "mark", id |-> i] /\ target' = t /\ led_chan' = "on"
      /\ UNCHANGED <<led_in_use, led_done_fn, sending, led_owed>>
      /\ ~led_in_use /\ led_owed[i] = 0
  BY DEF Led!Configure, Led!SetUp
<1>4. LedInv'
  BY <1>1, <1>2, <1>3 DEF LedInv, LedTypes, LedFlow, LedDue, LedAtRest
<1>. QED  BY <1>1, <1>2, <1>4

LEMMA LedMarkStep ==
  ASSUME QueueOK, LedInv, Led!MarkInUse
  PROVE  LedInv' /\ QueueOK' /\ LedAtRest
<1>1. QueueOK' /\ Queued' = Queued /\ tim' = tim
  BY QueueKept DEF Led!MarkInUse, Led!shared
<1>2. /\ LedAtRest /\ send.pc = "mark" /\ send.id \in LedIds /\ led_owed[send.id] = 0
      /\ led_chan = "on"
  BY DEF Led!MarkInUse, LedInv, LedTypes, LedFlow
<1>3. /\ send' = [send EXCEPT !.pc = "transmit"] /\ led_in_use' = TRUE /\ led_done_fn' = send.id
      /\ UNCHANGED <<led_chan, target, sending, led_owed>>
  BY DEF Led!MarkInUse
<1>4. LedInv'
  BY <1>1, <1>2, <1>3 DEF LedInv, LedTypes, LedFlow, LedDue, LedAtRest
<1>. QED  BY <1>1, <1>2, <1>4

LEMMA TransmitStep ==
  ASSUME QueueOK, LedInv, Led!Transmit
  PROVE  /\ LedInv' /\ QueueOK' /\ failed' = "none"
         /\ send.id \in LedIds /\ led_owed[send.id] = 0
         /\ led_owed' = [led_owed EXCEPT ![send.id] = 1]
<1>1. QueueOK' /\ Queued' = Queued /\ tim' = tim
  BY QueueKept DEF Led!Transmit
<1>2. /\ LedAtRest /\ send.pc = "transmit" /\ send.id \in LedIds /\ led_owed[send.id] = 0
      /\ led_chan = "on" /\ led_in_use /\ led_done_fn = send.id
  BY DEF Led!Transmit, LedInv, LedTypes, LedFlow
<1>3. /\ send' = Led!Out /\ sending' = TRUE /\ failed' = "none"
      /\ led_owed' = [led_owed EXCEPT ![send.id] = @ + 1]
      /\ UNCHANGED <<led_chan, target, led_in_use, led_done_fn>>
  BY <1>2 DEF Led!Transmit
<1>4. /\ led_owed' = [led_owed EXCEPT ![send.id] = 1] /\ led_owed' \in [LedIds -> 0..1]
      /\ led_owed'[send.id] = 1
  BY <1>2, <1>3 DEF LedInv, LedTypes
<1>5. LedInv'
  BY <1>1, <1>2, <1>3, <1>4 DEF LedInv, LedTypes, LedFlow, LedDue, LedAtRest, Led!Out
<1>. QED  BY <1>1, <1>2, <1>3, <1>4, <1>5

\* The end of a transfer is posted to the timer worker: with led_in_use set, and once.
LEMMA LedDoneStep ==
  ASSUME QueueOK, LedInv, Led!led_strip_done
  PROVE  LedInv' /\ QueueOK' /\ failed' = "none"
<1>1. /\ sending /\ "led_done" \notin Queued /\ led_in_use /\ led_chan = "on"
      /\ tim \notin {"led_disabled", "led_free"} /\ ~LedAtRest /\ send.pc = "out"
  BY DEF Led!led_strip_done, LedInv, LedTypes, LedFlow, LedAtRest
<1>2. Post("led_done") /\ failed' = "none"
  BY <1>1 DEF Led!led_strip_done, Led!Post, Post
<1>3. QueueOK' /\ Queued' \subseteq Queued \union {"led_done"}
  BY <1>1, <1>2, Posted, Names
<1>4. /\ UNCHANGED <<led_chan, target, led_in_use, led_done_fn, send, led_owed, tim>>
      /\ sending' = FALSE
  BY DEF Led!led_strip_done
<1>5. LedInv'
  BY <1>1, <1>3, <1>4 DEF LedInv, LedTypes, LedFlow, LedDue, LedAtRest
<1>. QED  BY <1>2, <1>3, <1>5

\* led_strip_done_outside_isr disables a channel that is enabled.
LEMMA DisableStep ==
  ASSUME QueueOK, LedInv, Led!DisableChannel
  PROVE  LedInv' /\ QueueOK' /\ failed' = "none"
<1>1. Take("led_done")
  BY DEF Led!DisableChannel, Led!Take, Led!TimIn, Take, TimIn
<1>2. "led_done" \in Queued /\ QueueOK' /\ "led_done" \notin Queued'
  BY <1>1, Taken
<1>3. led_in_use /\ led_chan = "on" /\ ~sending /\ send.pc = "out" /\ ~LedAtRest
  BY <1>2 DEF LedInv, LedTypes, LedFlow, LedAtRest
<1>4. /\ UNCHANGED <<target, led_in_use, led_done_fn, send, sending, led_owed>>
      /\ led_chan' = "off" /\ tim' = "led_disabled" /\ failed' = "none"
  BY <1>3 DEF Led!DisableChannel
<1>5. LedInv'
  BY <1>2, <1>3, <1>4 DEF LedInv, LedTypes, LedFlow, LedDue, LedAtRest
<1>. QED  BY <1>2, <1>4, <1>5

LEMMA ReleaseStep == ASSUME QueueOK, LedInv, Led!Release PROVE LedInv' /\ QueueOK'
<1>1. QueueOK' /\ Queued' = Queued
  BY QueueKept DEF Led!Release
<1>2. /\ tim = "led_disabled" /\ tim' = "led_free" /\ led_in_use' = FALSE
      /\ UNCHANGED <<led_chan, target, led_done_fn, send, sending, led_owed>>
  BY DEF Led!Release, Led!TimIn
<1>3. led_chan # "on" /\ ~sending /\ "led_done" \notin Queued /\ send.pc = "out" /\ ~LedAtRest
  BY <1>2 DEF LedInv, LedTypes, LedFlow, LedAtRest
<1>4. LedInv'
  BY <1>1, <1>2, <1>3 DEF LedInv, LedTypes, LedFlow, LedDue, LedAtRest
<1>. QED  BY <1>1, <1>4

\* The done function is called with a call due to it.
LEMMA CallDoneStep ==
  ASSUME QueueOK, LedInv, Led!CallDoneFn
  PROVE  /\ LedInv' /\ QueueOK'
         /\ led_done_fn \in LedIds /\ led_owed[led_done_fn] = 1
         /\ led_owed' = [led_owed EXCEPT ![led_done_fn] = 0]
         /\ tim' = led_done_fn
<1>1. QueueOK' /\ Queued' = Queued
  BY QueueKept DEF Led!CallDoneFn
<1>2. /\ tim = "led_free" /\ tim' = led_done_fn
      /\ led_owed' = [led_owed EXCEPT ![led_done_fn] = @ - 1]
      /\ UNCHANGED <<led_chan, target, led_in_use, led_done_fn, send, sending>>
  BY DEF Led!CallDoneFn, Led!TimIn
<1>3. /\ ~sending /\ "led_done" \notin Queued /\ send.pc = "out"
      /\ led_done_fn \in LedIds /\ led_owed[led_done_fn] = 1
  BY <1>2 DEF LedInv, LedTypes, LedFlow, LedDue, LedAtRest
<1>4. /\ led_owed' = [led_owed EXCEPT ![led_done_fn] = 0] /\ led_owed' \in [LedIds -> 0..1]
  BY <1>2, <1>3 DEF LedInv, LedTypes
<1>5. LedInv'
  BY <1>1, <1>2, <1>3, <1>4, Names DEF LedInv, LedTypes, LedFlow, LedDue, LedAtRest
<1>. QED  BY <1>1, <1>2, <1>3, <1>4, <1>5

\* The encoder.  Each call is given room for at least one symbol, fills the memory to
\* MemLen at most, and leaves the data short only to go on from there.
LEMMA RefillStep ==
  ASSUME EncoderInv, NEW left \in 0..(MemLen - 1),
         NEW e, e = enc \/ e = Led!EncoderReset, ~e.complete,
         Led!Refill(e, left)
  PROVE  EncoderInv'
<1>. USE ConstantsOK DEF Led!LedConstantsOK
<1>. DEFINE free == MemLen - left
            rest == IF e.state = 0 THEN DataLen - e.data ELSE 0
<1>0. MemLen \in Nat \ {0} /\ DataLen \in Nat \ {0}
  OBVIOUS
<1>1. /\ e \in [state : 0..1, data : 0..DataLen, resets : 0..1, complete : BOOLEAN]
      /\ e.state = 0 => e.data < DataLen /\ e.resets = 0
      /\ e.state = 1 => e.data = DataLen /\ e.resets = 0
  <2>1. CASE e = enc
    BY <2>1 DEF EncoderInv, EncoderTypes, EncoderFlow
  <2>2. CASE e = Led!EncoderReset
    <3>1. e = [state |-> 0, data |-> 0, resets |-> 0, complete |-> FALSE]
      BY <2>2 DEF Led!EncoderReset
    <3>2. /\ 0 \in 0..1 /\ 0 \in 0..DataLen /\ FALSE \in BOOLEAN
      BY <1>0
    <3>3. e \in [state : 0..1, data : 0..DataLen, resets : 0..1, complete : BOOLEAN]
      BY Zenon, <3>1, <3>2
    <3>4. e.state = 0 /\ e.data = 0 /\ e.resets = 0
      BY <3>1
    <3>. QED  BY <1>0, <3>3, <3>4
  <2>. QED  BY <2>1, <2>2
<1>2. free \in 1..MemLen /\ rest \in 0..DataLen
  BY <1>0, <1>1
<1>3. enc' = Led!Encode(e, free) /\ mem' = left + Led!Produced(e, enc')
  BY DEF Led!Refill
<1>. HIDE DEF free
<1>4. CASE e.state = 0 /\ rest >= free
  <2>1. enc' = [e EXCEPT !.data = @ + free, !.state = IF rest = free THEN 1 ELSE 0]
    BY <1>3, <1>4 DEF Led!Encode
  <2>2. /\ enc'.data = e.data + free /\ enc'.state = (IF rest = free THEN 1 ELSE 0)
        /\ enc'.resets = 0 /\ ~enc'.complete
        /\ enc' \in [state : 0..1, data : 0..DataLen, resets : 0..1, complete : BOOLEAN]
    <3>1. /\ e.data + free \in 0..DataLen
          /\ (IF rest = free THEN 1 ELSE 0) \in 0..1
      BY <1>0, <1>1, <1>2, <1>4
    <3>2. DOMAIN e = {"state", "data", "resets", "complete"}
      BY <1>1
    <3>3. /\ enc'.data = e.data + free /\ enc'.state = (IF rest = free THEN 1 ELSE 0)
          /\ enc'.resets = e.resets /\ enc'.complete = e.complete
      BY <2>1, <3>2
    <3>4. enc' \in [state : 0..1, data : 0..DataLen, resets : 0..1, complete : BOOLEAN]
      BY ONLY <1>1, <2>1, <3>1
    <3>. QED  BY <1>1, <1>4, <3>3, <3>4
  <2>3. mem' = MemLen
    BY <1>0, <1>1, <1>2, <1>3, <1>4, <2>2 DEF Led!Produced, free
  <2>. QED  BY <1>0, <1>1, <1>2, <1>4, <2>2, <2>3 DEF EncoderInv, EncoderTypes, EncoderFlow
<1>5. CASE ~(e.state = 0 /\ rest >= free)
  <2>1. enc' = [state |-> 0, data |-> e.data + rest, resets |-> e.resets + 1, complete |-> TRUE]
    BY <1>3, <1>5 DEF Led!Encode
  <2>2. e.data + rest = DataLen /\ e.resets = 0 /\ rest + 1 <= free
    BY <1>0, <1>1, <1>2, <1>5
  <2>3. mem' = left + rest + 1
    BY <1>0, <1>1, <1>2, <1>3, <2>1, <2>2 DEF Led!Produced
  <2>4. mem' \in 0..MemLen
    BY <1>0, <1>1, <1>2, <2>2, <2>3 DEF free
  <2>5. enc' = [state |-> 0, data |-> DataLen, resets |-> 1, complete |-> TRUE]
    <3>1. e.resets + 1 = 1
      BY <2>2
    <3>. QED  BY Zenon, <2>1, <2>2, <3>1
  <2>. QED  BY <1>0, <2>4, <2>5 DEF EncoderInv, EncoderTypes, EncoderFlow
<1>. QED  BY <1>4, <1>5

LEMMA EncoderStep == ASSUME EncoderInv, Led!Next PROVE EncoderInv'
<1>1. CASE Led!Transmit
  <2>1. Led!Refill(Led!EncoderReset, 0) /\ 0 \in 0..(MemLen - 1) /\ ~Led!EncoderReset.complete
    BY <1>1, ConstantsOK DEF Led!Transmit, Led!LedConstantsOK, Led!EncoderReset
  <2>. QED  BY <2>1, RefillStep
<1>2. CASE Led!SendSymbol
  <2>1. mem \in 1..MemLen /\ MemLen \in Nat
    BY <1>2, ConstantsOK DEF Led!SendSymbol, EncoderInv, EncoderTypes, Led!LedConstantsOK
  <2>2. CASE mem' \in 0..MemLen /\ UNCHANGED enc
    BY <2>2 DEF EncoderInv, EncoderTypes, EncoderFlow
  <2>3. CASE ~enc.complete /\ Led!Refill(enc, mem - 1)
    BY <2>1, <2>3, RefillStep
  <2>. QED  BY <1>2, <2>1, <2>2, <2>3 DEF Led!SendSymbol
<1>3. CASE ~(Led!Transmit \/ Led!SendSymbol)
  <2>1. UNCHANGED <<enc, mem>>
    BY <1>3 DEF Led!Next, Led!devs_led_strip_send, Led!Configure, Led!MarkInUse,
           Led!led_strip_done, Led!led_strip_done_outside_isr, Led!DisableChannel, Led!Release,
           Led!CallDoneFn, Led!FnReturns, Led!rmt
  <2>. QED  BY <2>1 DEF EncoderInv, EncoderTypes, EncoderFlow
<1>. QED  BY <1>1, <1>2, <1>3

-----------------------------------------------------------------------------
(* Each user leaves the others' part alone.                                *)
\* Posting or taking a call moves no other call.
LEMMA OtherCalls ==
  ASSUME QueueOK, NEW c, NEW d, d # c, Post(c) \/ Take(c) \/ UNCHANGED queue
  PROVE  d \in Queued' <=> d \in Queued
<1>1. CASE Post(c) /\ Len(queue) < QueueLen
  <2>1. queue' = Append(queue, c)
    BY <1>1 DEF Post
  <2>2. /\ DOMAIN queue' = 1..(Len(queue) + 1) /\ queue'[Len(queue) + 1] = c
        /\ \A k \in 1..Len(queue) : queue'[k] = queue[k]
    BY <2>1 DEF QueueOK
  <2>3. \A k \in DOMAIN queue' : queue'[k] = c \/ (k \in DOMAIN queue /\ queue'[k] = queue[k])
    BY <2>2, QueuedIn
  <2>4. \A k \in DOMAIN queue : k \in DOMAIN queue' /\ queue'[k] = queue[k]
    BY <2>2, QueuedIn
  <2>. QED  BY <2>3, <2>4 DEF Queued
<1>2. CASE (Post(c) /\ ~(Len(queue) < QueueLen)) \/ UNCHANGED queue
  BY <1>2 DEF Post, Queued
<1>3. CASE Take(c)
  BY <1>3, Taken
<1>. QED  BY <1>1, <1>2, <1>3

LEMMA SpiKept ==
  ASSUME SpiInv, UNCHANGED spiVars,
         \A c \in SpiIds \union {"spi_done"} : c \in Queued' <=> c \in Queued
  PROVE  SpiInv'
BY DEF SpiInv, SpiTypes, SpiFlow, SpiDue, SpiCall, spiVars

LEMMA LedKept ==
  ASSUME LedInv, UNCHANGED ledVars, "led_done" \in Queued' <=> "led_done" \in Queued,
         \A t \in {"led_disabled", "led_free"} : tim' = t <=> tim = t
  PROVE  LedInv'
BY DEF LedInv, LedTypes, LedFlow, LedDue, LedAtRest, ledVars

LEMMA EncoderKept == ASSUME EncoderInv, UNCHANGED ledVars PROVE EncoderInv'
BY DEF EncoderInv, EncoderTypes, EncoderFlow, ledVars

LEMMA UsbKept == ASSUME UsbInv, UNCHANGED usbVars PROVE UsbInv'
BY DEF UsbInv, Usb!TypeOK, Usb!Chips, Usb!Callers, Usb!Room, Usb!Packets, usbVars

LEMMA SpiLeaves ==
  ASSUME QueueOK, SpiInv, Spi!Next
  PROVE  /\ \A c \in {"led_done", "fill_queue"} : c \in Queued' <=> c \in Queued
         /\ tim = "fill_queue" => tim' = tim
         /\ \A t \in {"led_disabled", "led_free"} : tim' = t <=> tim = t
         /\ TimOK => TimOK'
<1>1. \E c \in SpiIds \union {"spi_done"} : Post(c) \/ Take(c) \/ UNCHANGED queue
  <2>1. ASSUME NEW t \in Spi!Contexts, Spi!jd_spi_xfer(t)
        PROVE  (Post(SpiCall.id) /\ SpiCall.id \in SpiIds) \/ UNCHANGED queue
    <3>1. t = "main"
      BY <2>1, MainTransfers DEF SpiInv
    <3>2. CASE Spi!SyncOk("main")
      BY <3>2 DEF Spi!SyncOk, Spi!Step, Spi!Post, Post, SpiCall, SpiInv, SpiFlow
    <3>. QED
      BY <2>1, <3>1, <3>2 DEF Spi!jd_spi_xfer, Spi!Call, Spi!FillTrans, Spi!PollTransmit,
           Spi!MarkInUse, Spi!QueueTrans, Spi!QueueTransFails, Spi!shared
  <2>2. CASE Spi!jd_spi_init
    BY <2>2 DEF Spi!jd_spi_init, Spi!InitCall, Spi!RemoveDevice, Spi!AddDevice, Spi!shared
  <2>3. CASE Spi!jd_spi_done_cb
    BY <2>3 DEF Spi!jd_spi_done_cb, Spi!Post, Post
  <2>4. CASE Spi!TimerTask
    BY <2>4 DEF Spi!TimerTask, Spi!DoneOutsideIsr, Spi!call_fn, Spi!FnReturns, Spi!Take,
           Spi!TimIn, Take, TimIn
  <2>. QED  BY <2>1, <2>2, <2>3, <2>4 DEF Spi!Next
<1>2. \A c \in {"led_done", "fill_queue"} : c \in Queued' <=> c \in Queued
  BY <1>1, OtherCalls, Names
<1>3. \/ tim' = tim
      \/ tim = "idle" /\ tim' \in SpiIds
      \/ tim \in SpiIds /\ tim' = "idle"
  <2>1. CASE Spi!DoneOutsideIsr
    BY <2>1, SpiOutsideStep, Taken DEF Spi!DoneOutsideIsr, Spi!Take, Spi!TimIn
  <2>2. CASE ~Spi!DoneOutsideIsr
    BY <2>2 DEF Spi!Next, Spi!jd_spi_xfer, Spi!Call, Spi!FillTrans, Spi!PollTransmit,
         Spi!SyncOk, Spi!MarkInUse, Spi!QueueTrans, Spi!QueueTransFails, Spi!shared,
         Spi!jd_spi_init, Spi!InitCall, Spi!RemoveDevice, Spi!AddDevice, Spi!jd_spi_done_cb,
         Spi!TimerTask, Spi!call_fn, Spi!FnReturns, Spi!Take, Spi!TimIn, Spi!Complete
  <2>. QED  BY <2>1, <2>2
<1>. QED  BY <1>2, <1>3, Names DEF TimOK

LEMMA LedLeaves ==
  ASSUME QueueOK, LedInv, Led!Next
  PROVE  /\ \A c \in SpiIds \union {"spi_done", "fill_queue"} : c \in Queued' <=> c \in Queued
         /\ tim = "fill_queue" => tim' = tim
         /\ TimOK => TimOK'
<1>1. Post("led_done") \/ Take("led_done") \/ UNCHANGED queue
  BY DEF Led!Next, Led!devs_led_strip_send, Led!Configure, Led!MarkInUse, Led!Transmit,
       Led!SendSymbol, Led!led_strip_done, Led!led_strip_done_outside_isr, Led!DisableChannel,
       Led!Release, Led!CallDoneFn, Led!FnReturns, Led!shared, Led!Post, Led!Take, Led!TimIn,
       Post, Take, TimIn
<1>2. \A c \in SpiIds \union {"spi_done", "fill_queue"} : c \in Queued' <=> c \in Queued
  BY <1>1, OtherCalls, Names
<1>3. \/ tim' = tim
      \/ tim # "fill_queue" /\ tim' \in LedIds \union {"led_disabled", "led_free", "idle"}
  <2>1. CASE Led!CallDoneFn
    BY <2>1, CallDoneStep DEF Led!CallDoneFn, Led!TimIn
  <2>2. CASE ~Led!CallDoneFn
    BY <2>2, Names DEF Led!Next, Led!devs_led_strip_send, Led!Configure, Led!MarkInUse,
         Led!Transmit, Led!SendSymbol, Led!led_strip_done, Led!led_strip_done_outside_isr,
         Led!DisableChannel, Led!Release, Led!FnReturns, Led!shared, Led!Take, Led!TimIn
  <2>. QED  BY <2>1, <2>2
<1>. QED  BY <1>2, <1>3 DEF TimOK

LEMMA UsbLeaves ==
  ASSUME QueueOK, UsbInv, [Usb!Next]_Usb!vars
  PROVE  /\ \A c \in SpiIds \union {"spi_done", "led_done"} : c \in Queued' <=> c \in Queued
         /\ \A t \in {"led_disabled", "led_free"} : tim' = t <=> tim = t
         /\ QueueOK' /\ failed' = failed
         /\ TimOK => TimOK'
<1>1. /\ Post("fill_queue") \/ Take("fill_queue") \/ UNCHANGED queue
      /\ failed' = failed
      /\ \/ tim' = tim
         \/ tim = "idle" /\ tim' = "fill_queue"
         \/ tim = "fill_queue" /\ tim' = "idle"
  BY DEF Usb!Next, Usb!Write, Usb!ScheduleSteps, Usb!TestScheduled, Usb!SetScheduled,
       Usb!RunFillQueue, Usb!fill_queue, Usb!StartFilling, Usb!FillOne, Usb!StopFilling,
       Usb!PacketSent, Usb!PullReady, Usb!jd_usb_process, Usb!StartProcess, Usb!read_fifo,
       Usb!CountFifo, Usb!ReadFifo, Usb!PushInput, Usb!Isr, Usb!usb_serial_jtag_isr_handler,
       Usb!uart_isr, Usb!FifoSends, Usb!UartEmpty, Usb!HostSends, Usb!on_cdc_rx, Usb!vars,
       Usb!tinyusb, Usb!shared, Usb!Post, Usb!Take, Usb!TimIn, Post, Take, TimIn
<1>2. \A c \in SpiIds \union {"spi_done", "led_done"} : c \in Queued' <=> c \in Queued
  BY <1>1, OtherCalls, Names
<1>3. QueueOK'
  BY <1>1, Posted, Taken, QueueKept, Names
<1>. QED  BY <1>1, <1>2, <1>3 DEF TimOK

\* The console's own types, from its proof.
LEMMA UsbStep == ASSUME UsbInv, Usb!Next PROVE UsbInv'
<1>. USE DEF Console!Chips, Usb!Chips, Console!Callers, Usb!Callers, Console!Room, Usb!Room,
      Console!Packets, Usb!Packets, Console!Garbage, Usb!Garbage
<1>1. Console!TypeOK <=> Usb!TypeOK
  BY DEF Console!TypeOK, Usb!TypeOK
<1>2. Console!Next
  BY DEF Usb!Next, Usb!Write, Usb!ScheduleSteps, Usb!TestScheduled, Usb!SetScheduled,
       Usb!RunFillQueue, Usb!fill_queue, Usb!StartFilling, Usb!FillOne, Usb!StopFilling,
       Usb!PacketSent, Usb!PullReady, Usb!jd_usb_process, Usb!StartProcess, Usb!read_fifo,
       Usb!CountFifo, Usb!ReadFifo, Usb!PushInput, Usb!Isr, Usb!usb_serial_jtag_isr_handler,
       Usb!uart_isr, Usb!FifoSends, Usb!UartEmpty, Usb!HostSends, Usb!on_cdc_rx, Usb!Goto,
       Usb!fill_buffer, Usb!Refill, Usb!ReadAll,
       Usb!tinyusb, Usb!irq, Usb!input, Usb!shared, Usb!Post, Usb!Take, Usb!TimIn,
       Console!Next, Console!Write, Console!ScheduleSteps, Console!TestScheduled,
       Console!SetScheduled, Console!RunFillQueue, Console!fill_queue, Console!StartFilling,
       Console!FillOne, Console!StopFilling, Console!PacketSent, Console!PullReady,
       Console!jd_usb_process, Console!StartProcess, Console!read_fifo, Console!CountFifo,
       Console!ReadFifo, Console!PushInput, Console!Isr, Console!usb_serial_jtag_isr_handler,
       Console!uart_isr, Console!FifoSends, Console!UartEmpty, Console!HostSends,
       Console!on_cdc_rx, Console!Goto, Console!fill_buffer, Console!Refill, Console!ReadAll,
       Console!tinyusb, Console!irq, Console!input, Console!shared, Console!Post, Console!Take,
       Console!TimIn
<1>3. Console!BoundsOK /\ Console!QueueLenOK
  BY ConstantsOK, QueueLenOK DEF Usb!BoundsOK, Console!BoundsOK, Console!QueueLenOK
<1>4. Console!TypeOK'
  BY <1>1, <1>2, <1>3, Console!TypeStep DEF UsbInv
<1>. QED  BY <1>4 DEF UsbInv, Console!TypeOK, Usb!TypeOK

-----------------------------------------------------------------------------
(* One step of each user, and the invariant.                               *)
LEMMA SpiStep ==
  ASSUME Inv, Spi!Next
  PROVE  /\ SpiInv' /\ QueueOK' /\ failed' = "none"
         /\ \/ UNCHANGED spi_owed
            \/ \E i \in SpiIds : spi_owed[i] = 0 /\ spi_owed' = [spi_owed EXCEPT ![i] = 1]
            \/ \E i \in SpiIds : spi_owed[i] = 1 /\ spi_owed' = [spi_owed EXCEPT ![i] = 0]
<1>. USE DEF Inv
<1>1. ASSUME NEW t \in Spi!Contexts, Spi!jd_spi_xfer(t), ~Spi!SyncOk(t), ~Spi!QueueTrans(t)
      PROVE  SpiInv' /\ QueueOK' /\ failed' = "none" /\ UNCHANGED spi_owed
  <2>1. t = "main"
    BY <1>1, MainTransfers DEF SpiInv
  <2>2. /\ \/ \E i \in SpiIds, kind \in Spi!Kinds : Spi!Call("main", i, kind)
           \/ Spi!FillTrans("main") \/ Spi!PollTransmit("main") \/ Spi!MarkInUse("main")
           \/ Spi!QueueTransFails("main")
    BY <1>1, <2>1 DEF Spi!jd_spi_xfer
  <2>3. UNCHANGED <<queue, failed, spi_owed>>
    BY <2>2 DEF Spi!Call, Spi!FillTrans, Spi!PollTransmit, Spi!MarkInUse, Spi!QueueTransFails,
         Spi!shared
  <2>. QED  BY <2>2, <2>3, SpiCallStep, QueueKept
<1>2. CASE Spi!jd_spi_init
  <2>1. UNCHANGED <<queue, failed, spi_owed>>
    BY <1>2 DEF Spi!jd_spi_init, Spi!InitCall, Spi!RemoveDevice, Spi!AddDevice, Spi!shared
  <2>. QED  BY <1>2, <2>1, SpiCallStep, QueueKept
<1>3. ASSUME NEW t \in Spi!Contexts, Spi!SyncOk(t)
      PROVE  /\ SpiInv' /\ QueueOK' /\ failed' = "none"
             /\ \E i \in SpiIds : spi_owed[i] = 0 /\ spi_owed' = [spi_owed EXCEPT ![i] = 1]
  <2>1. t = "main"
    BY <1>3, MainTransfers DEF SpiInv, Spi!jd_spi_xfer
  <2>. QED  BY <1>3, <2>1, SyncOkStep DEF Spi!SyncOk
<1>4. ASSUME NEW t \in Spi!Contexts, Spi!QueueTrans(t)
      PROVE  /\ SpiInv' /\ QueueOK' /\ failed' = "none"
             /\ \E i \in SpiIds : spi_owed[i] = 0 /\ spi_owed' = [spi_owed EXCEPT ![i] = 1]
  <2>1. t = "main"
    BY <1>4, MainTransfers DEF SpiInv, Spi!jd_spi_xfer
  <2>. QED  BY <1>4, <2>1, QueueTransStep DEF Spi!QueueTrans, Spi!shared
<1>5. CASE Spi!jd_spi_done_cb
  BY <1>5, SpiDoneStep DEF Spi!jd_spi_done_cb
<1>6. CASE Spi!DoneOutsideIsr
  BY <1>6, SpiOutsideStep
<1>7. CASE Spi!call_fn
  BY <1>7, SpiFnStep DEF Spi!call_fn
<1>8. CASE Spi!FnReturns
  <2>1. UNCHANGED <<queue, failed, spiVars>>
    BY <1>8 DEF Spi!FnReturns, spiVars
  <2>. QED  BY <2>1, SpiKept, QueueKept DEF spiVars
<1>. QED
  BY <1>1, <1>2, <1>3, <1>4, <1>5, <1>6, <1>7, <1>8 DEF Spi!Next, Spi!TimerTask

LEMMA LedStep ==
  ASSUME Inv, Led!Next
  PROVE  /\ LedInv' /\ QueueOK' /\ failed' = "none"
         /\ \/ UNCHANGED led_owed
            \/ \E i \in LedIds : led_owed[i] = 0 /\ led_owed' = [led_owed EXCEPT ![i] = 1]
            \/ \E i \in LedIds : led_owed[i] = 1 /\ led_owed' = [led_owed EXCEPT ![i] = 0]
<1>. USE DEF Inv
<1>1. ASSUME NEW i \in LedIds, NEW t \in Targets, Led!Configure(i, t)
      PROVE  LedInv' /\ QueueOK' /\ failed' = "none" /\ UNCHANGED led_owed
  BY <1>1, ConfigureStep DEF Led!Configure
<1>2. CASE Led!MarkInUse
  BY <1>2, LedMarkStep DEF Led!MarkInUse, Led!shared
<1>3. CASE Led!Transmit
  BY <1>3, TransmitStep
<1>4. CASE Led!SendSymbol
  <2>1. /\ UNCHANGED <<queue, tim, failed, led_owed>>
        /\ UNCHANGED <<led_chan, target, led_in_use, led_done_fn, send, sending>>
    BY <1>4 DEF Led!SendSymbol, Led!shared
  <2>. QED  BY <2>1, QueueKept DEF LedInv, LedTypes, LedFlow, LedDue, LedAtRest
<1>5. CASE Led!led_strip_done
  BY <1>5, LedDoneStep DEF Led!led_strip_done
<1>6. CASE Led!DisableChannel
  BY <1>6, DisableStep DEF Led!DisableChannel
<1>7. CASE Led!Release
  BY <1>7, ReleaseStep DEF Led!Release
<1>8. CASE Led!CallDoneFn
  BY <1>8, CallDoneStep DEF Led!CallDoneFn
<1>9. CASE Led!FnReturns
  <2>1. /\ UNCHANGED <<queue, failed, ledVars>>
        /\ \A t \in {"led_disabled", "led_free"} : tim' # t /\ tim # t
    BY <1>9, Names DEF Led!FnReturns, Led!TimIn, Led!rmt, ledVars
  <2>. QED  BY <2>1, LedKept, QueueKept DEF ledVars
<1>. QED
  BY <1>1, <1>2, <1>3, <1>4, <1>5, <1>6, <1>7, <1>8, <1>9
  DEF Led!Next, Led!devs_led_strip_send, Led!led_strip_done_outside_isr

LEMMA InitHolds == ASSUME Init PROVE Inv
<1>. USE DEF Init, Spi!Init, Led!Init, Usb!Init, Spi!SharedInit, Led!SharedInit, Usb!SharedInit
<1>1. Queued = {} /\ QueueOK /\ TimOK /\ failed = "none"
  BY QueueLenOK DEF Queued, QueueOK, QueuedOnce, TimOK
<1>2. SpiInv
  <2>1. SpiTypes
    <3>1. spi \in BOOLEAN /\ spi_in_use \in BOOLEAN
      BY Zenon
    <3>2. /\ user \in SpiIds \union {"null"} /\ queued \in 0..1 /\ results \in 0..1
          /\ spi_owed \in [SpiIds -> 0..1]
      OBVIOUS
    <3>3. xfer \in [{"main", "tim"} ->
                      [pc : {"out", "go", "poll", "sync", "mark", "queue", "init", "add"},
                       id : SpiIds \union {"null"}, kind : {"zero", "poll", "dma"}]]
      BY DEF Spi!Out, Spi!Contexts
    <3>. QED  BY ONLY <3>1, <3>2, <3>3 DEF SpiTypes
  <2>2. SpiFlow
    BY DEF SpiFlow, SpiCall, Spi!Out, Spi!Contexts
  <2>3. SpiDue
    BY <1>1 DEF SpiDue
  <2>. QED  BY <2>1, <2>2, <2>3 DEF SpiInv
<1>3. LedInv
  <2>1. LedTypes
    <3>1. led_in_use \in BOOLEAN /\ sending \in BOOLEAN
      BY Zenon
    <3>2. /\ led_chan \in {"none", "off", "on"} /\ target \in Targets \union {"null"}
          /\ led_done_fn \in LedIds \union {"null"} /\ led_owed \in [LedIds -> 0..1]
      OBVIOUS
    <3>3. send \in [pc : {"out", "mark", "transmit"}, id : LedIds \union {"null"}]
      BY DEF Led!Out
    <3>. QED  BY ONLY <3>1, <3>2, <3>3 DEF LedTypes
  <2>2. LedFlow /\ LedDue
    BY <1>1 DEF LedFlow, LedDue, LedAtRest, Led!Out
  <2>. QED  BY <2>1, <2>2 DEF LedInv
<1>4. EncoderInv
  <2>1. DataLen \in Nat \ {0} /\ MemLen \in Nat
    BY ConstantsOK DEF Led!LedConstantsOK
  <2>. QED  BY <2>1 DEF EncoderInv, EncoderTypes, EncoderFlow, Led!EncoderReset
<1>5. UsbInv
  <2>. USE ConstantsOK DEF Usb!BoundsOK, Usb!Chips, Usb!Callers, Usb!Packets
  <2>1. Usb!Room = 2
    BY DEF Usb!Room
  <2>2. /\ fq_scheduled \in BOOLEAN /\ raw \in BOOLEAN /\ ena \in BOOLEAN
        /\ raced \in BOOLEAN
    BY Zenon
  <2>3. pull \in [Usb!Callers -> {"out", "ready", "set", "run", "count", "read", "push"}]
    OBVIOUS
  <2>4. /\ chip \in {"tinyusb", "jtag", "uart"}
        /\ written \in 0..MaxWrites /\ out \in 0..MaxWrites /\ out + tx <= written
        /\ tx \in 0..2 /\ arrived \in 0..MaxReads /\ rx \in Seq(1..MaxReads) /\ Len(rx) <= 2
        /\ count \in 0..2 /\ {buf, got} \subseteq Seq(0..MaxReads)
    OBVIOUS
  <2>. QED  BY ONLY <2>1, <2>2, <2>3, <2>4 DEF UsbInv, Usb!TypeOK, Usb!Chips, Usb!Packets
<1>. QED  BY <1>1, <1>2, <1>3, <1>4, <1>5 DEF Inv

LEMMA NextKeeps == ASSUME Inv, [Next]_vars PROVE Inv'
<1>1. CASE Spi!Next /\ UNCHANGED <<ledVars, usbVars>>
  <2>1. SpiInv' /\ QueueOK' /\ failed' = "none"
    BY <1>1, SpiStep
  <2>2. LedInv' /\ TimOK'
    BY <1>1, SpiLeaves, LedKept DEF Inv
  <2>3. EncoderInv' /\ UsbInv'
    BY <1>1, EncoderKept, UsbKept DEF Inv
  <2>. QED  BY <2>1, <2>2, <2>3 DEF Inv
<1>2. CASE Led!Next /\ UNCHANGED <<spiVars, usbVars>>
  <2>1. LedInv' /\ QueueOK' /\ failed' = "none"
    BY <1>2, LedStep
  <2>2. SpiInv' /\ TimOK'
    BY <1>2, LedLeaves, SpiKept DEF Inv
  <2>3. EncoderInv' /\ UsbInv'
    BY <1>2, EncoderStep, UsbKept DEF Inv
  <2>. QED  BY <2>1, <2>2, <2>3 DEF Inv
<1>3. CASE Usb!Next /\ UNCHANGED <<spiVars, ledVars>>
  <2>1. QueueOK' /\ failed' = "none" /\ TimOK'
    BY <1>3, UsbLeaves DEF Inv
  <2>2. SpiInv' /\ LedInv' /\ EncoderInv'
    BY <1>3, UsbLeaves, SpiKept, LedKept, EncoderKept DEF Inv
  <2>3. UsbInv'
    BY <1>3, UsbStep DEF Inv
  <2>. QED  BY <2>1, <2>2, <2>3 DEF Inv
<1>4. CASE UNCHANGED vars
  <2>1. UNCHANGED <<queue, tim, failed, spiVars, ledVars, usbVars>>
    BY <1>4 DEF vars, shared
  <2>2. QueueOK' /\ Queued' = Queued
    BY <2>1, QueueKept DEF Inv
  <2>. QED  BY <2>1, <2>2, SpiKept, LedKept, EncoderKept, UsbKept DEF Inv, TimOK
<1>. QED  BY <1>1, <1>2, <1>3, <1>4 DEF Next

LEMMA Invariance == Spec => []Inv
<1>1. Init => Inv
  BY InitHolds
<1>2. Inv /\ [Next]_vars => Inv'
  BY NextKeeps
<1>. QED  BY <1>1, <1>2, PTL DEF Spec

-----------------------------------------------------------------------------
\* The queue holds what its users post, the timer task is in one of their calls, and
\* every variable of theirs is where its type says (spi.c, ledstrip.c,
\* led_strip_encoder.c and usb.c over the worker's queue).
THEOREM TypeCorrect == Spec => []TypeOK
<1>1. Inv => TypeOK
  <2>. SUFFICES ASSUME Inv  PROVE TypeOK
    OBVIOUS
  <2>1. Spi!TypeOK
    BY DEF Inv, SpiInv, SpiTypes, Spi!TypeOK, Spi!Contexts
  <2>2. Led!TypeOK
    BY DEF Inv, LedInv, LedTypes, EncoderInv, EncoderTypes, Led!TypeOK
  <2>. QED  BY <2>1, <2>2 DEF Inv, QueueOK, TimOK, UsbInv, TypeOK
<1>. QED  BY <1>1, Invariance, PTL

\* No assertion of the completion callbacks fails and the RMT driver refuses no call,
\* whatever the order of the users' calls and however full the queue
\* (spi.c:22, 25, 36; ledstrip.c:69, 76, 81-98).
THEOREM AssertionsHold == Spec => []AssertsHold
<1>. QED  BY Invariance, PTL DEF Inv, AssertsHold

\* The strip gets the data whole and one reset code after it, for any length of the
\* data and of the channel's memory (led_strip_encoder.c:29-50).
THEOREM FramesWhole == Spec => []FrameWhole
<1>1. Inv => FrameWhole
  BY DEF Inv, EncoderInv, EncoderFlow, FrameWhole, Led!FrameWhole
<1>. QED  BY <1>1, Invariance, PTL

\* The static transaction and its device, and the strip's done function, pin and
\* script, are not touched from the start of a transfer to the call of its done
\* function (spi.c:27-29, 41-46, 104-133; ledstrip.c:68-72, 83-101).
THEOREM TransfersUndisturbed == Spec => InUseUntouched
<1>1. Inv /\ [Next]_vars =>
        [/\ Spi!TransInUse => UNCHANGED <<user, spi>>
         /\ Led!TransferInUse => UNCHANGED <<led_done_fn, target>>]_vars
  <2>. SUFFICES ASSUME Inv, Next
                PROVE  /\ Spi!TransInUse => UNCHANGED <<user, spi>>
                       /\ Led!TransferInUse => UNCHANGED <<led_done_fn, target>>
    OBVIOUS
  <2>1. ASSUME Spi!TransInUse, Spi!Next  PROVE UNCHANGED <<user, spi>>
    <3>1. SpiCall.pc = "out"
      BY <2>1 DEF Spi!TransInUse, Inv, SpiInv, SpiTypes, SpiFlow, SpiCall
    <3>2. ASSUME NEW t \in Spi!Contexts, Spi!jd_spi_xfer(t)  PROVE UNCHANGED <<user, spi>>
      <4>1. t = "main"
        BY <3>2, MainTransfers DEF Inv, SpiInv
      <4>. QED
        BY <3>1, <3>2, <4>1 DEF Spi!jd_spi_xfer, Spi!Call, Spi!FillTrans, Spi!PollTransmit,
             Spi!SyncOk, Spi!MarkInUse, Spi!QueueTrans, Spi!QueueTransFails, Spi!Step, SpiCall
    <3>3. CASE ~ \E t \in Spi!Contexts : Spi!jd_spi_xfer(t)
      BY <2>1, <3>1, <3>3 DEF Spi!Next, Spi!jd_spi_init, Spi!InitCall, Spi!RemoveDevice,
           Spi!AddDevice, Spi!Step, Spi!jd_spi_done_cb, Spi!TimerTask, Spi!DoneOutsideIsr,
           Spi!call_fn, Spi!FnReturns, SpiCall
    <3>. QED  BY <3>2, <3>3
  <2>2. Led!TransferInUse <=> ~LedAtRest
    BY DEF Led!TransferInUse, Led!Waiting, LedAtRest, Queued
  <2>3. ASSUME ~LedAtRest, Led!Next  PROVE UNCHANGED <<led_done_fn, target>>
    BY <2>3, ConfigureStep, LedMarkStep DEF Inv, Led!Next, Led!devs_led_strip_send,
         Led!Transmit, Led!SendSymbol, Led!led_strip_done, Led!led_strip_done_outside_isr,
         Led!DisableChannel, Led!Release, Led!CallDoneFn, Led!FnReturns
  <2>4. CASE Spi!Next /\ UNCHANGED ledVars
    BY <2>1, <2>4 DEF ledVars
  <2>5. CASE Led!Next /\ UNCHANGED spiVars
    BY <2>2, <2>3, <2>5 DEF spiVars
  <2>6. CASE UNCHANGED <<spiVars, ledVars>>
    BY <2>6 DEF spiVars, ledVars
  <2>. QED  BY <2>4, <2>5, <2>6 DEF Next
<1>. QED  BY <1>1, Invariance, PTL DEF Spec, InUseUntouched

\* No done function is called twice or without a transfer accepted for it: the
\* detailed modules together implement the safety of AsyncXfer (spi.c:27-37, 119-138;
\* ledstrip.c:68-79, 100-102).
THEOREM NeverCalledTwice == Spec => Xfer!AsyncSafety
<1>. DEFINE owes ==
       [i \in SpiIds \union LedIds |-> IF i \in SpiIds THEN spi_owed[i] ELSE led_owed[i]]
<1>1. Init => Xfer!AsyncInit
  BY DEF Init, Spi!Init, Led!Init, Xfer!AsyncInit
<1>2. Inv /\ [Next]_vars => [Xfer!AsyncNext]_owes
  <2>. SUFFICES ASSUME Inv, [Next]_vars  PROVE [Xfer!AsyncNext]_owes
    OBVIOUS
  <2>1. spi_owed \in [SpiIds -> 0..1] /\ led_owed \in [LedIds -> 0..1]
    BY DEF Inv, SpiInv, SpiTypes, LedInv, LedTypes
  <2>2. ASSUME UNCHANGED <<spi_owed, led_owed>>  PROVE owes' = owes
    BY <2>2
  <2>3. ASSUME NEW i \in SpiIds, NEW v, spi_owed' = [spi_owed EXCEPT ![i] = v], UNCHANGED led_owed
        PROVE  owes[i] = spi_owed[i] /\ owes' = [owes EXCEPT ![i] = v]
    BY <2>1, <2>3
  <2>4. ASSUME NEW i \in LedIds, NEW v, led_owed' = [led_owed EXCEPT ![i] = v], UNCHANGED spi_owed
        PROVE  owes[i] = led_owed[i] /\ owes' = [owes EXCEPT ![i] = v]
    BY <2>1, <2>4, Names
  <2>5. CASE Spi!Next /\ UNCHANGED ledVars
    BY <2>2, <2>3, <2>5, SpiStep DEF ledVars, Xfer!AsyncNext, Xfer!Accepted, Xfer!Completed
  <2>6. CASE Led!Next /\ UNCHANGED spiVars
    BY ZenonT(30), <2>2, <2>4, <2>6, LedStep DEF spiVars, Xfer!AsyncNext, Xfer!Accepted,
         Xfer!Completed
  <2>7. CASE UNCHANGED <<spi_owed, led_owed>>
    BY <2>2, <2>7
  <2>. QED  BY <2>5, <2>6, <2>7 DEF Next, vars, spiVars, ledVars
<1>. QED  BY <1>1, <1>2, Invariance, PTL DEF Spec, Xfer!AsyncSafety

-----------------------------------------------------------------------------
(***************************************************************************)
(* The queue as its users see it is the one TimWorker provides, and room.  *)
(***************************************************************************)
Worker == INSTANCE Deferred WITH pending <- queue

\* Every step takes the oldest call, or posts one, or leaves the queue alone.
LEMMA QueueMoves ==
  ASSUME Inv, [Next]_vars
  PROVE  \/ UNCHANGED queue
         \/ \E c \in Calls : Post(c) \/ Take(c)
<1>1. CASE Spi!Next
  <2>1. ASSUME NEW t \in Spi!Contexts, Spi!jd_spi_xfer(t)
        PROVE  (Post(SpiCall.id) /\ SpiCall.id \in SpiIds) \/ UNCHANGED queue
    <3>1. t = "main"
      BY <2>1, MainTransfers DEF Inv, SpiInv
    <3>2. CASE Spi!SyncOk("main")
      BY <3>2 DEF Spi!SyncOk, Spi!Step, Spi!Post, Post, SpiCall, Inv, SpiInv, SpiFlow
    <3>. QED
      BY <2>1, <3>1, <3>2 DEF Spi!jd_spi_xfer, Spi!Call, Spi!FillTrans, Spi!PollTransmit,
           Spi!MarkInUse, Spi!QueueTrans, Spi!QueueTransFails, Spi!shared
  <2>2. CASE Spi!jd_spi_init
    BY <2>2 DEF Spi!jd_spi_init, Spi!InitCall, Spi!RemoveDevice, Spi!AddDevice, Spi!shared
  <2>3. CASE Spi!jd_spi_done_cb
    BY <2>3, Names DEF Spi!jd_spi_done_cb, Spi!Post, Post
  <2>4. CASE Spi!TimerTask
    BY <2>4, Names DEF Spi!TimerTask, Spi!DoneOutsideIsr, Spi!call_fn, Spi!FnReturns, Spi!Take,
           Spi!TimIn, Take, TimIn
  <2>. QED  BY <1>1, <2>1, <2>2, <2>3, <2>4, Names DEF Spi!Next
<1>2. CASE Led!Next
  BY <1>2, Names DEF Led!Next, Led!devs_led_strip_send, Led!Configure, Led!MarkInUse, Led!Transmit,
       Led!SendSymbol, Led!led_strip_done, Led!led_strip_done_outside_isr, Led!DisableChannel,
       Led!Release, Led!CallDoneFn, Led!FnReturns, Led!shared, Led!Post, Led!Take, Led!TimIn,
       Post, Take, TimIn
<1>3. CASE Usb!Next
  BY <1>3, Names
     DEF Usb!Next, Usb!Write, Usb!ScheduleSteps, Usb!TestScheduled, Usb!SetScheduled,
       Usb!RunFillQueue, Usb!fill_queue, Usb!StartFilling, Usb!FillOne, Usb!StopFilling,
       Usb!PacketSent, Usb!PullReady, Usb!jd_usb_process, Usb!StartProcess, Usb!read_fifo,
       Usb!CountFifo, Usb!ReadFifo, Usb!PushInput, Usb!Isr, Usb!usb_serial_jtag_isr_handler,
       Usb!uart_isr, Usb!FifoSends, Usb!UartEmpty, Usb!HostSends, Usb!on_cdc_rx,
       Usb!tinyusb, Usb!shared, Usb!Post, Usb!Take, Usb!TimIn, Post, Take, TimIn
<1>4. CASE UNCHANGED vars
  BY <1>4 DEF vars, shared
<1>. QED  BY <1>1, <1>2, <1>3, <1>4 DEF Next

\* What the users do with the queue is what the timer worker is proved to provide
\* (Deferred, which TimWorker implements), and nothing else: calls are accepted while
\* there is room, in order, and run once (hw-esp32.c:140-190; spi.c, ledstrip.c, usb.c).
THEOREM QueueServed == Spec => Worker!Safety
<1>1. Init => Worker!DeferredInit
  BY DEF Init, Spi!Init, Spi!SharedInit, Worker!DeferredInit
<1>2. Inv /\ [Next]_vars => [Worker!DeferredNext]_queue
  <2>. SUFFICES ASSUME Inv, [Next]_vars, ~UNCHANGED queue PROVE Worker!DeferredNext
    OBVIOUS
  <2>. PICK c \in Calls : Post(c) \/ Take(c)
    BY QueueMoves
  <2>1. CASE Post(c)
    BY <2>1 DEF Post, Worker!DeferredNext, Worker!Accept
  <2>2. CASE Take(c)
    BY <2>2 DEF Take, Worker!DeferredNext, Worker!Run
  <2>. QED  BY <2>1, <2>2
<1>. QED  BY <1>1, <1>2, Invariance, PTL DEF Spec, Worker!Safety

\* The calls of SPI and LED strip that can wait at one time are one for each transfer
\* of the SPI master and one for the strip; fill_queue may wait any number of times.
Fills == {k \in DOMAIN queue : queue[k] = "fill_queue"}

RoomForAll == Cardinality(Fills) + Cardinality(SpiIds) + 1 <= QueueLen

\* As many calls wait as the positions of fill_queue and the other calls.
LEMMA QueueCount ==
  ASSUME QueueOK
  PROVE  /\ IsFiniteSet(Queued \ {"fill_queue"}) /\ IsFiniteSet(Fills)
         /\ Len(queue) = Cardinality(Fills) + Cardinality(Queued \ {"fill_queue"})
<1> DEFINE rest == (1..Len(queue)) \ Fills
           f == [k \in rest |-> queue[k]]
<1>1. DOMAIN queue = 1..Len(queue) /\ Len(queue) \in Nat
  BY QueuedIn
<1>2. IsFiniteSet(1..Len(queue)) /\ Cardinality(1..Len(queue)) = Len(queue)
  <2>1. /\ IsFiniteSet(1..Len(queue))
        /\ Cardinality(1..Len(queue)) = IF 1 > Len(queue) THEN 0 ELSE Len(queue) - 1 + 1
    BY <1>1, FS_Interval
  <2>. QED  BY <1>1, <2>1
<1>3. Fills \subseteq 1..Len(queue)
  BY <1>1 DEF Fills
<1>4. IsFiniteSet(Fills) /\ IsFiniteSet(rest)
  BY <1>2, <1>3, FS_Subset, FS_Difference
<1>5. Len(queue) = Cardinality(Fills) + Cardinality(rest)
  <2>1. Fills \cup rest = 1..Len(queue) /\ Fills \cap rest = {}
    BY <1>3
  <2>2. Cardinality(Fills \cup rest) = Cardinality(Fills) + Cardinality(rest) - Cardinality({})
    BY <1>4, <2>1, FS_Union
  <2>3. Cardinality({}) = 0 /\ Cardinality(Fills) \in Nat /\ Cardinality(rest) \in Nat
    BY <1>4, FS_EmptySet, FS_CardinalityType
  <2>4. Cardinality(Fills \cup rest) = Len(queue) /\ Cardinality(Fills \cap rest) = 0
    BY <1>2, <2>1, <2>3
  <2>. HIDE DEF rest
  <2>. QED  BY ONLY <2>2, <2>3, <2>4, <2>1
<1>6. f \in Bijection(rest, Queued \ {"fill_queue"})
  <2>1. \A k \in rest : f[k] \in Queued \ {"fill_queue"}
    BY <1>1, QueuedIn DEF Fills
  <2>2. \A c \in Queued \ {"fill_queue"} : \E k \in rest : f[k] = c
    <3>1. SUFFICES ASSUME NEW c \in Queued, c # "fill_queue" PROVE \E k \in rest : f[k] = c
      OBVIOUS
    <3>2. PICK k \in 1..Len(queue) : queue[k] = c
      BY QueuedIn
    <3>. QED  BY <3>1, <3>2 DEF Fills
  <2>3. \A a, b \in rest : f[a] = f[b] => a = b
    BY <1>1 DEF QueueOK, QueuedOnce, Fills
  <2>4. f \in Injection(rest, Queued \ {"fill_queue"})
    BY <2>1, <2>3 DEF Injection, IsInjective
  <2>5. f \in Surjection(rest, Queued \ {"fill_queue"})
    BY <2>1, <2>2 DEF Surjection
  <2>. QED  BY <2>4, <2>5 DEF Bijection
<1>7. /\ Cardinality(rest) = Cardinality(Queued \ {"fill_queue"})
      /\ IsFiniteSet(Queued \ {"fill_queue"})
  BY <1>4, <1>6, FS_Bijection DEF ExistsBijection
<1>. QED  BY <1>4, <1>5, <1>7

\* Calls of SPI and LED strip, with the end of the SPI transfer and its done function
\* not both among them, are at most one for each SPI transfer and one for the strip.
LEMMA CallBound ==
  ASSUME IsFiniteSet(SpiIds), NEW S, IsFiniteSet(S), S \subseteq Calls \ {"fill_queue"},
         "spi_done" \in S => user \in SpiIds /\ user \notin S
  PROVE  Cardinality(S) <= Cardinality(SpiIds) + 1
<1> DEFINE all == SpiIds \union {"led_done"}
           most == (all \ {user}) \union {"spi_done"}
<1>1. IsFiniteSet(all) /\ Cardinality(all) = Cardinality(SpiIds) + 1
  BY Names, FS_AddElement
<1>2. CASE "spi_done" \in S
  <2>1. user \in all /\ Cardinality(SpiIds) \in Nat /\ S \subseteq most
    BY <1>2, FS_CardinalityType DEF Calls
  <2>2. "spi_done" \notin all \ {user}
    BY Names
  <2>. HIDE DEF all
  <2>3. IsFiniteSet(all \ {user}) /\ Cardinality(all \ {user}) = Cardinality(all) - 1
    BY <1>1, <2>1, FS_RemoveElement
  <2>4. IsFiniteSet(most) /\ Cardinality(most) = Cardinality(all \ {user}) + 1
    BY <2>2, <2>3, FS_AddElement
  <2>5. Cardinality(most) = Cardinality(SpiIds) + 1
    BY <1>1, <2>1, <2>3, <2>4
  <2>. QED  BY <2>1, <2>4, <2>5, FS_Subset
<1>3. CASE "spi_done" \notin S
  <2>1. S \subseteq all
    BY <1>3 DEF Calls
  <2>. QED  BY <1>1, <2>1, FS_Subset
<1>. QED  BY <1>2, <1>3

\* A call that is not in the queue, of a transfer that has no other call there, finds room.
LEMMA RoomFor ==
  ASSUME QueueOK, RoomForAll, IsFiniteSet(SpiIds), NEW c \in Calls, c \notin Queued,
         c # "fill_queue",
         "spi_done" \in Queued \union {c} => user \in SpiIds /\ user \notin Queued \union {c}
  PROVE  Len(queue) < QueueLen
<1> DEFINE others == Queued \ {"fill_queue"}
           more == others \union {c}
<1>1. more \subseteq Calls \ {"fill_queue"}
  BY QueuedIn DEF QueueOK, Queued
<1>2. IsFiniteSet(others) /\ Len(queue) = Cardinality(Fills) + Cardinality(others)
      /\ IsFiniteSet(Fills)
  BY QueueCount
<1>3. IsFiniteSet(more) /\ Cardinality(more) = Cardinality(others) + 1
  BY <1>2, FS_AddElement
<1>4. Cardinality(more) <= Cardinality(SpiIds) + 1
  BY <1>1, <1>3, CallBound, Names
<1>5. /\ Cardinality(others) \in Nat /\ Cardinality(Fills) \in Nat /\ Cardinality(SpiIds) \in Nat
      /\ QueueLen \in Nat
  BY <1>2, FS_CardinalityType, QueueLenOK
<1>. HIDE DEF others, more
<1>. QED  BY <1>2, <1>3, <1>4, <1>5 DEF RoomForAll

\* Without the console's calls the queue is not full, so that a full one holds one.
ConsoleRoom == IsFiniteSet(SpiIds) /\ Cardinality(SpiIds) + 1 < QueueLen

LEMMA FullHasFill ==
  ASSUME Inv, ConsoleRoom, ~(Len(queue) < QueueLen)
  PROVE  "fill_queue" \in Queued
<1> DEFINE others == Queued \ {"fill_queue"}
<1>1. others \subseteq Calls \ {"fill_queue"}
  BY QueuedIn DEF Inv, QueueOK, Queued
<1>2. IsFiniteSet(others) /\ Len(queue) = Cardinality(Fills) + Cardinality(others)
      /\ IsFiniteSet(Fills)
  BY QueueCount DEF Inv
<1>3. "spi_done" \in others => user \in SpiIds /\ user \notin others
  BY DEF Inv, SpiInv, SpiTypes, SpiDue
<1>4. Cardinality(others) <= Cardinality(SpiIds) + 1
  BY <1>1, <1>2, <1>3, CallBound DEF ConsoleRoom
<1>5. /\ Cardinality(others) \in Nat /\ Cardinality(Fills) \in Nat /\ Cardinality(SpiIds) \in Nat
      /\ QueueLen \in Nat
  BY <1>2, FS_CardinalityType, QueueLenOK DEF ConsoleRoom
<1>6. Cardinality(Fills) # 0
  <2>. HIDE DEF others
  <2>. QED  BY <1>2, <1>4, <1>5 DEF ConsoleRoom
<1>7. Fills # {}
  BY <1>6, FS_EmptySet
<1>. QED  BY <1>7 DEF Fills, Queued

LEMMA PostedWithRoom ==
  ASSUME QueueOK, NEW c \in Calls, Post(c), Len(queue) < QueueLen
  PROVE  c \in Queued' /\ Queued \subseteq Queued'
<1>1. queue' = Append(queue, c)
  BY DEF Post
<1>2. /\ DOMAIN queue' = 1..(Len(queue) + 1) /\ queue'[Len(queue) + 1] = c
      /\ \A k \in 1..Len(queue) : queue'[k] = queue[k]
  BY <1>1 DEF QueueOK
<1>. QED  BY <1>2, QueuedIn DEF Queued

\* While a done function is due, what will lead to its call is there: the call itself,
\* the transfer with its driver, or its end in the queue or with the timer task.
SpiComing ==
  \A i \in SpiIds : spi_owed[i] = 1 =>
    \/ i \in Queued
    \/ user = i /\ (queued = 1 \/ (results = 1 /\ "spi_done" \in Queued))

LedComing ==
  /\ \A i \in LedIds : led_owed[i] = 1 => led_done_fn = i /\ ~LedAtRest
  /\ sending => mem > 0 \/ enc.complete

LEMMA SpiComes ==
  ASSUME Inv, RoomForAll, IsFiniteSet(SpiIds), SpiComing, Spi!Next
  PROVE  SpiComing'
<1>. USE DEF Inv
<1>1. ASSUME NEW t \in Spi!Contexts, Spi!jd_spi_xfer(t)  PROVE SpiComing'
  <2>1. t = "main"
    BY <1>1, MainTransfers DEF SpiInv
  <2>2. CASE Spi!SyncOk("main")
    <3>. DEFINE i == SpiCall.id
    <3>1. /\ i \in SpiIds /\ i \notin Queued /\ "spi_done" \notin Queued
          /\ queued = 0 /\ results = 0
      BY <2>2 DEF Spi!SyncOk, Spi!Step, SpiInv, SpiTypes, SpiFlow, SpiDue, SpiCall
    <3>2. Post(i) /\ spi_owed' = [spi_owed EXCEPT ![i] = @ + 1]
      BY <2>2 DEF Spi!SyncOk, Spi!Post, Post, Spi!Owe, SpiCall
    <3>. HIDE DEF i
    <3>3. i \in Queued' /\ Queued \subseteq Queued'
      BY <3>1, <3>2, RoomFor, PostedWithRoom, Names
    <3>4. \A j \in SpiIds : j # i => spi_owed'[j] = spi_owed[j]
      BY <3>1, <3>2 DEF SpiInv, SpiTypes
    <3>. QED  BY <3>1, <3>3, <3>4 DEF SpiComing
  <2>3. CASE Spi!QueueTrans("main")
    <3>1. SpiCall.pc = "queue"
      BY <2>3 DEF Spi!QueueTrans, Spi!Step, SpiCall
    <3>2. user \in SpiIds /\ user = SpiCall.id /\ queued = 0 /\ results = 0
      BY <3>1 DEF SpiInv, SpiFlow
    <3>3. queued' = 1 /\ UNCHANGED <<user, queue>>
      BY <2>3, <3>2 DEF Spi!QueueTrans, Spi!shared
    <3>4. spi_owed' = [spi_owed EXCEPT ![user] = @ + 1]
      BY <2>3, <3>2 DEF Spi!QueueTrans, Spi!Owe, SpiCall
    <3>5. \A j \in SpiIds : j # user => spi_owed'[j] = spi_owed[j]
      BY <3>2, <3>4 DEF SpiInv, SpiTypes
    <3>. QED  BY <3>2, <3>3, <3>5, QueueKept DEF SpiComing
  <2>4. CASE ~Spi!SyncOk("main") /\ ~Spi!QueueTrans("main")
    <3>1. UNCHANGED <<queue, queued, results, spi_owed>>
      BY <1>1, <2>1, <2>4 DEF Spi!jd_spi_xfer, Spi!Call, Spi!FillTrans, Spi!PollTransmit,
           Spi!MarkInUse, Spi!QueueTransFails, Spi!shared
    <3>2. UNCHANGED user \/ (queued = 0 /\ results = 0)
      BY <1>1, <2>1, <2>4 DEF Spi!jd_spi_xfer, Spi!Call, Spi!FillTrans, Spi!PollTransmit,
           Spi!MarkInUse, Spi!QueueTransFails, Spi!Step, SpiInv, SpiFlow, SpiCall
    <3>. QED  BY <3>1, <3>2, QueueKept DEF SpiComing
  <2>. QED  BY <2>2, <2>3, <2>4
<1>2. CASE Spi!jd_spi_init
  <2>1. UNCHANGED <<queue, user, queued, results, spi_owed>>
    BY <1>2 DEF Spi!jd_spi_init, Spi!InitCall, Spi!RemoveDevice, Spi!AddDevice, Spi!shared
  <2>. QED  BY <2>1, QueueKept DEF SpiComing
<1>3. CASE Spi!jd_spi_done_cb
  <2>1. /\ queued = 1 /\ results = 0 /\ user \in SpiIds /\ user \notin Queued
        /\ "spi_done" \notin Queued
    BY <1>3 DEF Spi!jd_spi_done_cb, SpiInv, SpiTypes, SpiFlow, SpiDue
  <2>2. Post("spi_done") /\ UNCHANGED <<user, spi_owed>> /\ results' = 1
    BY <1>3, <2>1, Names DEF Spi!jd_spi_done_cb, Spi!Post, Post
  <2>3. "spi_done" \in Queued' /\ Queued \subseteq Queued'
    BY <2>1, <2>2, RoomFor, PostedWithRoom, Names
  <2>. QED  BY <2>1, <2>2, <2>3 DEF SpiComing
<1>4. CASE Spi!DoneOutsideIsr
  <2>1. Take("spi_done") /\ user \in SpiIds /\ spi_owed' = [spi_owed EXCEPT ![user] = 0]
    BY <1>4, SpiOutsideStep DEF Spi!DoneOutsideIsr, Spi!Take, Spi!TimIn, Take, TimIn
  <2>2. Queued \subseteq Queued' \union {"spi_done"}
    BY <2>1, Taken
  <2>3. \A j \in SpiIds : IF j = user THEN spi_owed'[j] = 0 ELSE spi_owed'[j] = spi_owed[j]
    BY <2>1 DEF SpiInv, SpiTypes
  <2>. QED  BY <2>1, <2>2, <2>3, Names DEF SpiComing
<1>5. CASE Spi!call_fn
  <2>1. PICK i \in SpiIds : Spi!Take(i) /\ Spi!Complete(i)
    BY <1>5 DEF Spi!call_fn
  <2>2. Take(i) /\ UNCHANGED <<spi, spi_in_use, user, xfer, queued, results>>
    BY <1>5, <2>1 DEF Spi!call_fn, Spi!Take, Spi!TimIn, Take, TimIn
  <2>3. spi_owed' = [spi_owed EXCEPT ![i] = 0]
    BY <2>1, <2>2, SpiFnStep
  <2>4. Queued \subseteq Queued' \union {i}
    BY <2>2, Taken
  <2>5. \A j \in SpiIds : IF j = i THEN spi_owed'[j] = 0 ELSE spi_owed'[j] = spi_owed[j]
    BY <2>3 DEF SpiInv, SpiTypes
  <2>. QED  BY <2>2, <2>4, <2>5, Names DEF SpiComing
<1>6. CASE Spi!FnReturns
  <2>1. UNCHANGED <<queue, user, queued, results, spi_owed>>
    BY <1>6 DEF Spi!FnReturns
  <2>. QED  BY <2>1, QueueKept DEF SpiComing
<1>. QED  BY <1>1, <1>2, <1>3, <1>4, <1>5, <1>6 DEF Spi!Next, Spi!TimerTask

EncStates == [state : 0..1, data : 0..DataLen, resets : 0..1, complete : BOOLEAN]

\* The encoder never leaves the RMT driver's memory empty with the transfer unfinished.
LEMMA RefillServes ==
  ASSUME NEW e \in EncStates, ~e.complete, NEW left \in 0..(MemLen - 1), Led!Refill(e, left)
  PROVE  mem' > 0 \/ enc'.complete
<1>. DEFINE free == MemLen - left
<1>1. MemLen \in Nat /\ DataLen \in Nat /\ free \in Nat /\ free > 0 /\ left + free = MemLen
  BY ConstantsOK DEF Led!LedConstantsOK
<1>2. enc' = Led!Encode(e, free) /\ mem' = left + Led!Produced(e, enc')
  BY DEF Led!Refill
<1>. HIDE DEF free
<1>3. CASE e.state = 0 /\ DataLen - e.data >= free
  <2>1. enc' = [e EXCEPT !.data = @ + free, !.state = IF DataLen - e.data = free THEN 1 ELSE 0]
    BY <1>2, <1>3 DEF Led!Encode
  <2>2. enc'.data = e.data + free /\ enc'.resets = e.resets
    BY <2>1 DEF EncStates
  <2>3. e.data \in Nat /\ e.resets \in Nat
    BY DEF EncStates
  <2>4. mem' = left + (enc'.data + enc'.resets - e.data - e.resets)
    BY <1>2 DEF Led!Produced
  <2>. QED  BY <1>1, <2>2, <2>3, <2>4
<1>4. CASE ~(e.state = 0 /\ DataLen - e.data >= free)
  <2>1. \E d : enc' = [state |-> 0, data |-> d, resets |-> e.resets + 1, complete |-> TRUE]
    <3>1. CASE e.state = 0
      BY <1>2, <1>4, <3>1 DEF Led!Encode
    <3>2. CASE e.state # 0
      BY <1>2, <3>2 DEF Led!Encode
    <3>. QED  BY <3>1, <3>2
  <2>. QED  BY <2>1
<1>. QED  BY <1>3, <1>4

LEMMA LedComes ==
  ASSUME Inv, RoomForAll, IsFiniteSet(SpiIds), LedComing, Led!Next
  PROVE  LedComing'
<1>. USE DEF Inv
<1>1. CASE Led!Transmit
  <2>1. /\ send.id \in LedIds /\ led_done_fn = send.id /\ LedAtRest /\ sending' = TRUE
        /\ led_done_fn' = led_done_fn
    BY <1>1 DEF Led!Transmit, LedInv, LedTypes, LedFlow
  <2>2. \A j \in LedIds : j # send.id => led_owed'[j] = 0
    <3>1. led_owed' = [led_owed EXCEPT ![send.id] = 1]
      BY <1>1, TransmitStep
    <3>. QED  BY <2>1, <3>1 DEF LedComing, LedInv, LedTypes
  <2>3. mem' > 0 \/ enc'.complete
    <3>1. /\ Led!Refill(Led!EncoderReset, 0) /\ 0 \in 0..(MemLen - 1)
          /\ ~Led!EncoderReset.complete
      BY <1>1, ConstantsOK DEF Led!Transmit, Led!LedConstantsOK, Led!EncoderReset
    <3>2. Led!EncoderReset \in EncStates
      BY ConstantsOK DEF Led!EncoderReset, EncStates, Led!LedConstantsOK
    <3>. QED  BY <3>1, <3>2, RefillServes
  <2>. QED  BY <2>1, <2>2, <2>3 DEF LedComing, LedAtRest
<1>2. CASE Led!led_strip_done
  <2>1. "led_done" \notin Queued
    BY <1>2 DEF Led!led_strip_done, LedInv, LedFlow
  <2>2. Post("led_done") /\ UNCHANGED <<led_done_fn, led_owed>> /\ sending /\ sending' = FALSE
    BY <1>2 DEF Led!led_strip_done, Led!Post, Post
  <2>3. "spi_done" \in Queued => user \in SpiIds /\ user \notin Queued
    BY DEF SpiInv, SpiTypes, SpiDue
  <2>4. "led_done" \in Queued'
    BY <2>1, <2>2, <2>3, RoomFor, PostedWithRoom, Names
  <2>. QED  BY <2>2, <2>4 DEF LedComing, LedAtRest
<1>3. CASE Led!DisableChannel
  BY <1>3 DEF Led!DisableChannel, LedComing, LedAtRest, Led!rmt
<1>4. CASE Led!Release
  BY <1>4, QueueKept DEF Led!Release, LedComing, LedAtRest, Led!rmt
<1>5. CASE Led!CallDoneFn
  <2>1. \A j \in LedIds : led_owed'[j] = 0
    BY <1>5, CallDoneStep DEF LedInv, LedTypes, LedComing
  <2>2. ~sending'
    BY <1>5 DEF Led!CallDoneFn, Led!TimIn, LedInv, LedFlow
  <2>. QED  BY <2>1, <2>2 DEF LedComing
<1>6. CASE Led!SendSymbol
  <2>1. UNCHANGED <<queue, tim, led_done_fn, sending, led_owed>> /\ sending
    BY <1>6 DEF Led!SendSymbol, Led!shared
  <2>2. mem' > 0 \/ enc'.complete
    <3>1. mem \in 1..MemLen /\ MemLen \in Nat
      BY <1>6, ConstantsOK DEF Led!SendSymbol, EncoderInv, EncoderTypes, Led!LedConstantsOK
    <3>2. CASE (mem' = mem - 1 /\ mem > 1) \/ (enc.complete /\ UNCHANGED enc)
      BY <3>1, <3>2
    <3>3. CASE ~enc.complete /\ Led!Refill(enc, mem - 1)
      BY <3>1, <3>3, RefillServes DEF EncoderInv, EncoderTypes, EncStates
    <3>. QED  BY <1>6, <3>2, <3>3 DEF Led!SendSymbol
  <2>. QED  BY <2>1, <2>2, QueueKept DEF LedComing, LedAtRest
<1>7. ASSUME NEW i \in LedIds, NEW t \in Targets, Led!Configure(i, t)  PROVE LedComing'
  BY <1>7, QueueKept DEF Led!Configure, LedComing, LedAtRest, Led!rmt
<1>8. CASE Led!MarkInUse
  BY <1>8, QueueKept, LedMarkStep DEF Led!MarkInUse, Led!shared, LedComing, LedAtRest, Led!rmt
<1>9. CASE Led!FnReturns
  BY <1>9, QueueKept, Names DEF Led!FnReturns, Led!TimIn, LedComing, LedAtRest, Led!rmt
<1>. QED
  BY <1>1, <1>2, <1>3, <1>4, <1>5, <1>6, <1>7, <1>8, <1>9
  DEF Led!Next, Led!devs_led_strip_send, Led!led_strip_done_outside_isr

LEMMA SpiComesKept ==
  ASSUME SpiComing, UNCHANGED spiVars,
         \A c \in SpiIds \union {"spi_done"} : c \in Queued' <=> c \in Queued
  PROVE  SpiComing'
BY DEF SpiComing, spiVars

LEMMA LedComesKept ==
  ASSUME LedComing, UNCHANGED ledVars, "led_done" \in Queued' <=> "led_done" \in Queued,
         \A t \in {"led_disabled", "led_free"} : tim' = t <=> tim = t
  PROVE  LedComing'
BY DEF LedComing, LedAtRest, ledVars

Coming == SpiComing /\ LedComing

\* No done function is forgotten: where the queue has room for every transfer beside
\* what the console has put there, the end of a transfer is never refused, although
\* no user looks at what tim_worker_run returns (spi.c:29, 107; ledstrip.c:36).
THEOREM DoneIsComing == ASSUME IsFiniteSet(SpiIds) PROVE Spec /\ []RoomForAll => []Coming
<1>1. Init => Coming
  BY DEF Init, Spi!Init, Led!Init, Coming, SpiComing, LedComing
<1>2. Inv /\ RoomForAll /\ Coming /\ [Next]_vars => Coming'
  <2>. SUFFICES ASSUME Inv, RoomForAll, Coming, [Next]_vars  PROVE Coming'
    OBVIOUS
  <2>. USE DEF Coming
  <2>1. CASE Spi!Next /\ UNCHANGED <<ledVars, usbVars>>
    BY <2>1, SpiComes, SpiLeaves, LedComesKept DEF Inv
  <2>2. CASE Led!Next /\ UNCHANGED <<spiVars, usbVars>>
    BY <2>2, LedComes, LedLeaves, SpiComesKept DEF Inv
  <2>3. CASE Usb!Next /\ UNCHANGED <<spiVars, ledVars>>
    BY <2>3, UsbLeaves, SpiComesKept, LedComesKept DEF Inv
  <2>4. CASE UNCHANGED vars
    <3>1. UNCHANGED <<queue, tim, spiVars, ledVars>>
      BY <2>4 DEF vars, shared
    <3>. QED  BY <3>1, QueueKept, SpiComesKept, LedComesKept DEF Inv
  <2>. QED  BY <2>1, <2>2, <2>3, <2>4 DEF Next
<1>. QED  BY <1>1, <1>2, Invariance, PTL DEF Spec

-----------------------------------------------------------------------------
(* The console.  Its call may be refused, but then another one waits.      *)
FlagHasCall ==
  fq_scheduled => "fill_queue" \in Queued \/ \E c \in Usb!Callers : pull[c] = "run"

ConsoleInv == chip = "tinyusb" /\ FlagHasCall /\ Usb!NothingStuck

LEMMA FillWaits == ASSUME Inv, ConsoleRoom, Post("fill_queue") PROVE "fill_queue" \in Queued'
<1>1. CASE Len(queue) < QueueLen
  BY <1>1, PostedWithRoom, Names DEF Inv
<1>2. CASE ~(Len(queue) < QueueLen)
  BY <1>2, FullHasFill, Posted, Names DEF Inv
<1>. QED  BY <1>1, <1>2

LEMMA ConsoleStep ==
  ASSUME Inv, ConsoleRoom, ConsoleInv, Usb!Next
  PROVE  ConsoleInv'
<1>. USE DEF Usb!Callers, Usb!Goto
<1>1. chip' = chip
  BY DEF Usb!Next, Usb!Write, Usb!ScheduleSteps, Usb!TestScheduled, Usb!SetScheduled,
       Usb!RunFillQueue, Usb!fill_queue, Usb!StartFilling, Usb!FillOne, Usb!StopFilling,
       Usb!PacketSent, Usb!PullReady, Usb!jd_usb_process, Usb!StartProcess, Usb!read_fifo,
       Usb!CountFifo, Usb!ReadFifo, Usb!PushInput, Usb!Isr, Usb!usb_serial_jtag_isr_handler,
       Usb!uart_isr, Usb!FifoSends, Usb!UartEmpty, Usb!HostSends, Usb!on_cdc_rx
<1>2. /\ chip = "tinyusb"
      /\ pull \in [Usb!Callers -> {"out", "ready", "set", "run", "count", "read", "push"}]
      /\ tx \in Nat /\ out \in Nat
  BY ConstantsOK DEF ConsoleInv, Inv, UsbInv, Usb!TypeOK, Usb!Room, Usb!BoundsOK
<1>3. Usb!NothingStuck <=>
        (out > 0 /\ tx = 0 =>
           \/ \E c \in Usb!Callers : pull[c] # "out"
           \/ "fill_queue" \in Queued \/ tim = "fill_queue"
           \/ raw /\ ena)
  BY DEF Usb!NothingStuck, Usb!Waiting, Queued
<1>4. Usb!NothingStuck' <=>
        (out' > 0 /\ tx' = 0 =>
           \/ \E c \in Usb!Callers : pull'[c] # "out"
           \/ "fill_queue" \in Queued' \/ tim' = "fill_queue"
           \/ raw' /\ ena')
  BY DEF Usb!NothingStuck, Usb!Waiting, Queued
<1>5. CASE Usb!Write \/ Usb!PacketSent
  <2>1. UNCHANGED <<queue, fq_scheduled>>
    BY <1>5 DEF Usb!Write, Usb!PacketSent, Usb!tinyusb, Usb!shared
  <2>2. \E c \in Usb!Callers : pull[c] = "out" /\ pull' = [pull EXCEPT ![c] = "ready"]
    BY <1>5 DEF Usb!Write, Usb!PacketSent
  <2>3. \A c \in Usb!Callers : pull[c] = "run" => pull'[c] = "run"
    BY <1>2, <2>2
  <2>4. \E c \in Usb!Callers : pull'[c] # "out"
    BY <1>2, <2>2
  <2>. QED  BY <1>1, <1>4, <2>1, <2>3, <2>4, QueueKept DEF ConsoleInv, FlagHasCall, Inv
<1>6. ASSUME NEW c \in Usb!Callers, Usb!TestScheduled(c)  PROVE ConsoleInv'
  <2>1. UNCHANGED <<queue, fq_scheduled, out, tx, tim>>
    BY <1>6 DEF Usb!TestScheduled, Usb!tinyusb, Usb!shared
  <2>2. pull[c] = "ready" /\ pull' = [pull EXCEPT ![c] = IF fq_scheduled THEN "out" ELSE "set"]
    BY <1>6 DEF Usb!TestScheduled
  <2>3. \A d \in Usb!Callers : pull[d] = "run" => pull'[d] = "run"
    BY <1>2, <2>2
  <2>4. fq_scheduled \/ pull'[c] # "out"
    BY <1>2, <2>2
  <2>5. \A d \in Usb!Callers : pull[d] = "run" => pull'[d] # "out"
    BY <2>3
  <2>. QED  BY <1>1, <1>4, <2>1, <2>3, <2>4, <2>5, QueueKept DEF ConsoleInv, FlagHasCall, Inv
<1>7. ASSUME NEW c \in Usb!Callers, Usb!SetScheduled(c)  PROVE ConsoleInv'
  <2>1. pull'[c] = "run"
    BY <1>2, <1>7 DEF Usb!SetScheduled
  <2>. QED  BY <1>1, <1>4, <2>1 DEF ConsoleInv, FlagHasCall
<1>8. ASSUME NEW c \in Usb!Callers, Usb!RunFillQueue(c)  PROVE ConsoleInv'
  <2>1. "fill_queue" \in Queued'
    BY <1>8, FillWaits DEF Usb!RunFillQueue, Usb!Post, Post
  <2>. QED  BY <1>1, <1>4, <2>1 DEF ConsoleInv, FlagHasCall
<1>9. CASE Usb!StartFilling
  BY <1>1, <1>4, <1>9 DEF Usb!StartFilling, ConsoleInv, FlagHasCall
<1>10. CASE Usb!FillOne
  <2>1. UNCHANGED <<queue, fq_scheduled, pull>> /\ tx' = tx + 1
    BY <1>10 DEF Usb!FillOne, Usb!tinyusb, Usb!shared
  <2>. QED  BY <1>1, <1>2, <1>4, <2>1, QueueKept DEF ConsoleInv, FlagHasCall, Inv
<1>11. CASE Usb!StopFilling
  <2>1. UNCHANGED <<queue, fq_scheduled, pull, tx, out>> /\ (tx = Usb!Room \/ out = 0)
    BY <1>11 DEF Usb!StopFilling
  <2>2. Usb!Room = 2
    BY <1>2 DEF Usb!Room
  <2>. QED  BY <1>1, <1>2, <1>4, <2>1, <2>2, QueueKept DEF ConsoleInv, FlagHasCall, Inv
<1>12. CASE Usb!read_fifo
  <2>1. UNCHANGED <<queue, fq_scheduled>> /\ pull["main"] \in {"count", "read", "push"}
    BY <1>12 DEF Usb!read_fifo, Usb!CountFifo, Usb!ReadFifo, Usb!PushInput, Usb!tinyusb, Usb!shared
  <2>2. \E to \in {"ready", "read", "push", "count"} : pull' = [pull EXCEPT !["main"] = to]
    BY <1>12 DEF Usb!read_fifo, Usb!CountFifo, Usb!ReadFifo, Usb!PushInput
  <2>3. \A d \in Usb!Callers : pull[d] = "run" => pull'[d] = "run"
    BY <1>2, <2>1, <2>2
  <2>4. pull'["main"] # "out"
    BY <1>2, <2>2
  <2>. QED  BY <1>1, <1>4, <2>1, <2>3, <2>4, QueueKept DEF ConsoleInv, FlagHasCall, Inv
<1>13. CASE Usb!HostSends \/ Usb!on_cdc_rx
  <2>1. UNCHANGED <<queue, fq_scheduled, pull, out, tx, tim, raw, ena>>
    BY <1>13 DEF Usb!HostSends, Usb!on_cdc_rx, Usb!tinyusb, Usb!shared, Usb!irq
  <2>. QED  BY <1>1, <1>3, <1>4, <2>1, QueueKept DEF ConsoleInv, FlagHasCall, Inv
<1>14. CASE Usb!PullReady \/ Usb!StartProcess \/ Usb!Isr \/ Usb!FifoSends \/ Usb!UartEmpty
  BY <1>2, <1>14 DEF Usb!PullReady, Usb!StartProcess, Usb!Isr, Usb!usb_serial_jtag_isr_handler,
       Usb!uart_isr, Usb!FifoSends, Usb!UartEmpty
<1>. QED
  BY <1>5, <1>6, <1>7, <1>8, <1>9, <1>10, <1>11, <1>12, <1>13, <1>14
  DEF Usb!Next, Usb!ScheduleSteps, Usb!fill_queue, Usb!jd_usb_process

LEMMA ConsoleKept ==
  ASSUME ConsoleInv, UNCHANGED usbVars, "fill_queue" \in Queued' <=> "fill_queue" \in Queued,
         tim = "fill_queue" => tim' = tim
  PROVE  ConsoleInv'
BY DEF ConsoleInv, FlagHasCall, Usb!NothingStuck, Usb!Waiting, Queued, usbVars

\* No output of the client is forgotten, although all users share the queue and
\* fill_queue may be refused: where the queue is longer than what SPI and LED strip can
\* have waiting, it is full only with a call of fill_queue in it.  The safety core of
\* ConsoleDrains (usb.c:40-62; worker.c:20-34).
THEOREM ConsoleNotForgotten == ASSUME ConsoleRoom PROVE Spec => []Usb!NothingStuck
<1>1. Init => ConsoleInv
  BY DEF Init, Usb!Init, ConsoleInv, FlagHasCall, Usb!NothingStuck
<1>2. Inv /\ ConsoleInv /\ [Next]_vars => ConsoleInv'
  <2>. SUFFICES ASSUME Inv, ConsoleInv, [Next]_vars  PROVE ConsoleInv'
    OBVIOUS
  <2>1. CASE Spi!Next /\ UNCHANGED <<ledVars, usbVars>>
    BY <2>1, SpiLeaves, ConsoleKept DEF Inv
  <2>2. CASE Led!Next /\ UNCHANGED <<spiVars, usbVars>>
    BY <2>2, LedLeaves, ConsoleKept DEF Inv
  <2>3. CASE Usb!Next /\ UNCHANGED <<spiVars, ledVars>>
    BY <2>3, ConsoleStep
  <2>4. CASE UNCHANGED vars
    <3>1. UNCHANGED <<queue, tim, usbVars>>
      BY <2>4 DEF vars, shared
    <3>. QED  BY <3>1, QueueKept, ConsoleKept DEF Inv
  <2>. QED  BY <2>1, <2>2, <2>3, <2>4 DEF Next
<1>3. ConsoleInv => Usb!NothingStuck
  BY DEF ConsoleInv
<1>. QED  BY <1>1, <1>2, <1>3, Invariance, PTL DEF Spec
=============================================================================
