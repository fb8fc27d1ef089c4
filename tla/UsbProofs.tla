------------------------------ MODULE UsbProofs ------------------------------
(***************************************************************************)
(* The console neither forgets a packet of the client nor damages what the *)
(* host sends, on each kind of chip and for any amount of traffic.         *)
(***************************************************************************)
EXTENDS Usb, SequenceTheorems, TLAPS

\* The queue of the timer worker holds calls of fill_queue alone.
WorkerOK ==
  /\ queue \in Seq({"fill_queue"}) /\ Len(queue) <= QueueLen
  /\ tim \in {"idle", "fill_queue"} /\ failed = "none"

\* What each kind of chip uses of the rest.
ChipOK ==
  /\ target = "tinyusb" => pull["main"] \in {"out", "ready", "set", "run"}
  /\ target # "tinyusb" =>
       /\ pull["main"] \in {"out", "ready", "count", "read", "push"} /\ pull["usb"] = "out"
       /\ ~fq_scheduled /\ queue = <<>> /\ tim = "idle"

\* fq_scheduled announces a call of fill_queue that has not started.
FlagHasCall == fq_scheduled => Waiting("fill_queue") \/ \E c \in Callers : pull[c] = "run"

\* With a packet to fetch the interrupt is enabled, and raised once the hardware
\* has nothing left; with a full buffer it is enabled already.
IrqArmed ==
  target # "tinyusb" =>
    /\ tx = Room => ena
    /\ out > 0 => pull["main"] # "out" \/ (ena /\ (tx = 0 => raw))

\* The main task holds input only between ReadFifo and PushInput, and counts no
\* more than there is.
MainHolds ==
  /\ buf # <<>> => pull["main"] = "push"
  /\ ~raced /\ pull["main"] = "read" => count <= Len(rx)

\* The types in groups, for the provers.
CountsOK ==
  /\ written \in 0..MaxWrites /\ out \in 0..MaxWrites /\ out + tx <= written
  /\ tx \in 0..Room /\ arrived \in Packets

PullOK ==
  /\ target \in Chips
  /\ pull \in [Callers -> {"out", "ready", "set", "run", "count", "read", "push"}]

FlagsOK ==
  fq_scheduled \in BOOLEAN /\ raw \in BOOLEAN /\ ena \in BOOLEAN /\ raced \in BOOLEAN

InputOK ==
  /\ rx \in Seq(1..MaxReads) /\ Len(rx) <= Room
  /\ count \in 0..Room /\ buf \in Seq(Packets) /\ got \in Seq(Packets)

LEMMA TypeParts == TypeOK <=> CountsOK /\ PullOK /\ FlagsOK /\ InputOK
BY DEF TypeOK, CountsOK, PullOK, FlagsOK, InputOK

LEMMA RoomFacts ==
  ASSUME target \in Chips
  PROVE  Room \in {1, 2} /\ (target # "jtag" => Room = 2) /\ (target' = target => Room' = Room)
BY DEF Chips, Room

LEMMA TargetFixed == ASSUME [Next]_vars PROVE target' = target
BY DEF Next, Write, ScheduleSteps, TestScheduled, SetScheduled, RunFillQueue, fill_queue,
       StartFilling, FillOne, StopFilling, PacketSent, PullReady, jd_usb_process, StartProcess,
       read_fifo, CountFifo, ReadFifo, PushInput, Isr, usb_serial_jtag_isr_handler, uart_isr,
       FifoSends, UartEmpty, HostSends, on_cdc_rx, vars

-----------------------------------------------------------------------------
LEMMA CountsStep == ASSUME TypeOK, [Next]_vars PROVE CountsOK'
<1>. USE BoundsOK, TypeParts, RoomFacts, TargetFixed DEF CountsOK, PullOK, Packets
<1>1. CASE Write
  BY <1>1 DEF Write, input
<1>2. ASSUME NEW c \in Callers, ScheduleSteps(c)  PROVE CountsOK'
  BY <1>2 DEF ScheduleSteps, TestScheduled, SetScheduled, RunFillQueue, input
<1>3. CASE fill_queue
  BY <1>3 DEF fill_queue, StartFilling, FillOne, StopFilling, input
<1>4. CASE PacketSent \/ FifoSends \/ UartEmpty
  BY <1>4 DEF PacketSent, FifoSends, UartEmpty, input
<1>5. CASE PullReady
  BY <1>5 DEF PullReady, fill_buffer, irq, input
<1>6. CASE jd_usb_process
  BY <1>6 DEF jd_usb_process, StartProcess, read_fifo, CountFifo, ReadFifo, PushInput, input
<1>7. CASE Isr
  BY SMTT(20), <1>7 DEF Isr, usb_serial_jtag_isr_handler, uart_isr, Refill, fill_buffer, ReadAll,
       irq, input
<1>8. CASE HostSends \/ on_cdc_rx
  BY <1>8 DEF HostSends, on_cdc_rx
<1>9. CASE UNCHANGED vars
  BY <1>9 DEF vars, input
<1>. QED  BY <1>1, <1>2, <1>3, <1>4, <1>5, <1>6, <1>7, <1>8, <1>9 DEF Next

LEMMA PullStep == ASSUME TypeOK, [Next]_vars PROVE PullOK'
<1>. USE TypeParts, TargetFixed DEF PullOK, Goto, Callers
<1>1. CASE Write
  BY <1>1 DEF Write
<1>2. ASSUME NEW c \in Callers, ScheduleSteps(c)  PROVE PullOK'
  BY <1>2 DEF ScheduleSteps, TestScheduled, SetScheduled, RunFillQueue
<1>3. CASE fill_queue \/ FifoSends \/ UartEmpty \/ HostSends \/ on_cdc_rx
  BY <1>3 DEF fill_queue, StartFilling, FillOne, StopFilling, FifoSends, UartEmpty, HostSends,
         on_cdc_rx
<1>4. CASE PacketSent \/ PullReady
  BY <1>4 DEF PacketSent, PullReady
<1>5. CASE jd_usb_process
  BY <1>5 DEF jd_usb_process, StartProcess, read_fifo, CountFifo, ReadFifo, PushInput
<1>6. CASE Isr
  BY <1>6 DEF Isr, usb_serial_jtag_isr_handler, uart_isr
<1>7. CASE UNCHANGED vars
  BY <1>7 DEF vars
<1>. QED  BY <1>1, <1>2, <1>3, <1>4, <1>5, <1>6, <1>7 DEF Next

LEMMA FlagsStep == ASSUME TypeOK, [Next]_vars PROVE FlagsOK'
<1>. USE TypeParts DEF FlagsOK
<1>0. (out > 0) \in BOOLEAN
  OBVIOUS
<1>1. CASE Write \/ PacketSent \/ UartEmpty
  BY <1>1 DEF Write, PacketSent, UartEmpty, tinyusb, irq, input
<1>2. ASSUME NEW c \in Callers, ScheduleSteps(c)  PROVE FlagsOK'
  BY <1>2 DEF ScheduleSteps, TestScheduled, SetScheduled, RunFillQueue, tinyusb, irq, input
<1>3. CASE fill_queue
  BY <1>3 DEF fill_queue, StartFilling, FillOne, StopFilling, tinyusb, irq, input
<1>4. CASE PullReady
  BY Zenon, <1>0, <1>4 DEF PullReady, fill_buffer, tinyusb, irq, input
<1>5. CASE jd_usb_process
  BY <1>5 DEF jd_usb_process, StartProcess, read_fifo, CountFifo, ReadFifo, PushInput, tinyusb,
         irq, input
<1>6. CASE Isr
  BY Zenon, <1>0, <1>6 DEF Isr, usb_serial_jtag_isr_handler, uart_isr, Refill, fill_buffer,
       ReadAll, tinyusb, irq, input
<1>7. CASE FifoSends \/ HostSends \/ on_cdc_rx
  BY <1>7 DEF FifoSends, HostSends, on_cdc_rx, tinyusb, irq, input
<1>8. CASE UNCHANGED vars
  BY <1>8 DEF vars, tinyusb, irq, input
<1>. QED  BY <1>1, <1>2, <1>3, <1>4, <1>5, <1>6, <1>7, <1>8 DEF Next

\* What the FIFO hands over are packets.
LEMMA RxArePackets == ASSUME TypeOK PROVE rx \in Seq(Packets)
BY BoundsOK, TypeParts, SeqMonotonic, 1..MaxReads \subseteq Packets DEF InputOK, Packets

LEMMA InputStep == ASSUME TypeOK, [Next]_vars PROVE InputOK'
<1>. USE BoundsOK, TypeParts, RoomFacts, TargetFixed DEF InputOK, PullOK
<1>1. CASE Isr
  <2>1. CASE ReadAll
    BY <2>1, RxArePackets DEF ReadAll
  <2>2. CASE UNCHANGED input
    BY <2>2 DEF input
  <2>. QED  BY <1>1, <2>1, <2>2 DEF Isr, usb_serial_jtag_isr_handler, uart_isr
<1>2. CASE HostSends
  <2>1. arrived' \in 1..MaxReads
    BY <1>2 DEF HostSends, CountsOK, Packets
  <2>. QED  BY <1>2, <2>1 DEF HostSends
<1>3. CASE on_cdc_rx
  <2>1. Head(rx) \in Packets /\ Tail(rx) \in Seq(1..MaxReads) /\ Len(Tail(rx)) = Len(rx) - 1
    BY <1>3 DEF on_cdc_rx, Packets
  <2>. QED  BY <1>3, <2>1 DEF on_cdc_rx
<1>4. CASE CountFifo
  BY <1>4 DEF CountFifo
<1>5. CASE ReadFifo
  <2>1. buf' \in Seq(Packets)
    <3>1. \A k \in 1..count : (IF k <= Len(rx) THEN rx[k] ELSE Garbage) \in Packets
      BY RxArePackets DEF Packets, Garbage
    <3>2. buf' \in [1..count -> Packets] /\ count \in Nat
      BY <1>5, <3>1 DEF ReadFifo
    <3>. QED  BY <3>2, SeqDef
  <2>2. rx' \in Seq(1..MaxReads) /\ Len(rx') <= Room
    <3>1. rx' = SubSeq(rx, count + 1, Len(rx)) /\ count \in Nat /\ Len(rx) \in Nat
      BY <1>5 DEF ReadFifo
    <3>2. \A i \in (count + 1)..Len(rx) : rx[i] \in 1..MaxReads
      BY SMTT(20), <3>1
    <3>. QED  BY <3>1, <3>2, SubSeqProperties
  <2>. QED  BY <1>5, <2>1, <2>2 DEF ReadFifo
<1>6. CASE PushInput
  BY <1>6 DEF PushInput, Packets
<1>7. CASE ~(Isr \/ HostSends \/ on_cdc_rx \/ read_fifo)
  <2>. UNCHANGED <<rx, count, buf, got>>
    BY <1>7 DEF Next, Write, ScheduleSteps, TestScheduled, SetScheduled, RunFillQueue, fill_queue,
           StartFilling, FillOne, StopFilling, PacketSent, PullReady, jd_usb_process,
           StartProcess, FifoSends, UartEmpty, vars, input
  <2>. QED  OBVIOUS
<1>. QED  BY <1>1, <1>2, <1>3, <1>4, <1>5, <1>6, <1>7 DEF read_fifo

LEMMA TypeStep == ASSUME TypeOK, [Next]_vars PROVE TypeOK'
<1>1. CountsOK' /\ PullOK' /\ FlagsOK' /\ InputOK'
  BY CountsStep, PullStep, FlagsStep, InputStep
<1>. QED  BY <1>1 DEF TypeOK, CountsOK, PullOK, FlagsOK, InputOK

-----------------------------------------------------------------------------
\* A call of fill_queue is made, or lost only to a queue full of others like it.
LEMMA PostedWaits == ASSUME WorkerOK, Post("fill_queue") PROVE Waiting("fill_queue")'
<1>1. CASE Len(queue) < QueueLen
  <2>1. queue' = Append(queue, "fill_queue") /\ Len(queue) + 1 \in DOMAIN queue'
    BY <1>1 DEF WorkerOK, Post
  <2>. QED  BY <2>1 DEF WorkerOK, Waiting
<1>2. CASE ~(Len(queue) < QueueLen)
  <2>1. queue' = queue /\ 1 \in DOMAIN queue
    BY <1>2, QueueLenOK DEF WorkerOK, Post
  <2>. QED  BY <2>1 DEF WorkerOK, Waiting
<1>. QED  BY <1>1, <1>2

LEMMA WorkerStep == ASSUME WorkerOK, [Next]_vars PROVE WorkerOK'
<1>. USE QueueLenOK DEF WorkerOK
<1>1. ASSUME NEW c \in Callers, ScheduleSteps(c)  PROVE WorkerOK'
  <2>1. CASE RunFillQueue(c)
    BY <2>1 DEF RunFillQueue, Post
  <2>2. CASE TestScheduled(c) \/ SetScheduled(c)
    BY <2>2 DEF TestScheduled, SetScheduled, tinyusb, shared
  <2>. QED  BY <1>1, <2>1, <2>2 DEF ScheduleSteps
<1>2. CASE StartFilling
  BY <1>2 DEF StartFilling, Take
<1>3. CASE FillOne \/ StopFilling
  BY <1>3 DEF FillOne, StopFilling, tinyusb, shared
<1>4. CASE ~(fill_queue \/ \E c \in Callers : ScheduleSteps(c))
  BY <1>4 DEF Next, Write, PacketSent, PullReady, jd_usb_process, StartProcess, read_fifo,
         CountFifo, ReadFifo, PushInput, Isr, usb_serial_jtag_isr_handler, uart_isr, FifoSends,
         UartEmpty, HostSends, on_cdc_rx, vars, tinyusb, shared
<1>. QED  BY <1>1, <1>2, <1>3, <1>4 DEF fill_queue

LEMMA ChipStep == ASSUME TypeOK, ChipOK, [Next]_vars PROVE ChipOK'
<1>. USE TypeParts, TargetFixed DEF ChipOK, PullOK, Goto, Callers, Chips
<1>1. CASE Write \/ PacketSent \/ PullReady
  BY <1>1 DEF Write, PacketSent, PullReady, tinyusb, shared
<1>2. ASSUME NEW c \in Callers, ScheduleSteps(c)  PROVE ChipOK'
  BY <1>2 DEF ScheduleSteps, TestScheduled, SetScheduled, RunFillQueue, tinyusb, shared
<1>3. CASE fill_queue
  BY <1>3 DEF fill_queue, StartFilling, FillOne, StopFilling, Take, TimIn
<1>4. CASE jd_usb_process
  BY <1>4 DEF jd_usb_process, StartProcess, read_fifo, CountFifo, ReadFifo, PushInput, tinyusb,
       shared
<1>5. CASE Isr \/ FifoSends \/ UartEmpty \/ HostSends \/ on_cdc_rx \/ UNCHANGED vars
  BY <1>5 DEF Isr, usb_serial_jtag_isr_handler, uart_isr, FifoSends, UartEmpty, HostSends,
         on_cdc_rx, vars, tinyusb, shared
<1>. QED  BY <1>1, <1>2, <1>3, <1>4, <1>5 DEF Next

\* Between them the two callers and the timer worker hold on to a call of
\* fill_queue: who has passed the test makes it, and only the worker takes it.
LEMMA CallHeld ==
  ASSUME TypeOK, WorkerOK, [Next]_vars, ~StartFilling,
         Waiting("fill_queue") \/ \E c \in Callers : pull[c] = "run"
  PROVE  (Waiting("fill_queue"))' \/ \E c \in Callers : pull'[c] = "run"
<1>1. ASSUME NEW c \in Callers, RunFillQueue(c)  PROVE (Waiting("fill_queue"))'
  BY <1>1, PostedWaits DEF RunFillQueue
<1>2. CASE ~ \E c \in Callers : RunFillQueue(c)
  <2>1. queue' = queue
    BY <1>2 DEF Next, Write, ScheduleSteps, TestScheduled, SetScheduled, fill_queue, FillOne,
           StopFilling, PacketSent, PullReady, jd_usb_process, StartProcess, read_fifo, CountFifo,
           ReadFifo, PushInput, Isr, usb_serial_jtag_isr_handler, uart_isr, FifoSends, UartEmpty,
           HostSends, on_cdc_rx, vars, tinyusb, shared
  <2>2. \A c \in Callers : pull[c] = "run" => pull'[c] = "run"
    BY <1>2, TypeParts DEF PullOK, Goto, Next, Write, ScheduleSteps, TestScheduled, SetScheduled,
           fill_queue, FillOne, StopFilling, PacketSent, PullReady, jd_usb_process, StartProcess,
           read_fifo, CountFifo, ReadFifo, PushInput, Isr, usb_serial_jtag_isr_handler, uart_isr,
           FifoSends, UartEmpty, HostSends, on_cdc_rx, vars
  <2>. QED  BY <2>1, <2>2 DEF Waiting
<1>. QED  BY <1>1, <1>2

LEMMA FlagStep ==
  ASSUME TypeOK, WorkerOK, FlagHasCall, [Next]_vars
  PROVE  FlagHasCall'
<1>1. CASE StartFilling
  BY <1>1 DEF StartFilling, FlagHasCall
<1>2. ASSUME NEW c \in Callers, SetScheduled(c)  PROVE FlagHasCall'
  BY <1>2, TypeParts DEF SetScheduled, FlagHasCall, Goto, PullOK
<1>3. CASE ~StartFilling /\ ~ \E c \in Callers : SetScheduled(c)
  <2>1. fq_scheduled' = fq_scheduled
    BY <1>3 DEF Next, Write, ScheduleSteps, TestScheduled, RunFillQueue, fill_queue, FillOne,
           StopFilling, PacketSent, PullReady, jd_usb_process, StartProcess, read_fifo, CountFifo,
           ReadFifo, PushInput, Isr, usb_serial_jtag_isr_handler, uart_isr, FifoSends, UartEmpty,
           HostSends, on_cdc_rx, vars, tinyusb
  <2>. QED  BY <1>3, <2>1, CallHeld DEF FlagHasCall
<1>. QED  BY <1>1, <1>2, <1>3

\* A packet put into the buffer leaves the interrupt enabled for the next.
LEMMA FillBufferEnables ==
  ASSUME fill_buffer
  PROVE  \/ out > 0 /\ out' = out - 1 /\ tx' = tx + 1 /\ ena'
         \/ ~(out > 0) /\ UNCHANGED <<out, tx>>
BY Zenon DEF fill_buffer

LEMMA IrqStep ==
  ASSUME TypeOK, ChipOK, IrqArmed, [Next]_vars
  PROVE  IrqArmed'
<1>. SUFFICES ASSUME target # "tinyusb"  PROVE IrqArmed'
  BY TargetFixed DEF IrqArmed
<1>. USE TypeParts, RoomFacts, TargetFixed DEF IrqArmed, PullOK, CountsOK, FlagsOK, ChipOK, Goto,
      Callers
<1>1. CASE Write
  BY <1>1 DEF Write, irq
<1>2. CASE PullReady
  <2>1. \/ tx < Room /\ fill_buffer
        \/ tx = Room /\ UNCHANGED <<out, tx, irq>>
    BY <1>2 DEF PullReady
  <2>. QED  BY <2>1, FillBufferEnables DEF irq
<1>3. CASE Isr
  <2>1. \/ tx < Room /\ fill_buffer
        \/ ~(tx < Room) /\ UNCHANGED <<out, tx, ena>>
        \/ UNCHANGED <<out, tx, irq>>
    BY <1>3 DEF Isr, usb_serial_jtag_isr_handler, uart_isr, Refill
  <2>. QED  BY <1>3, <2>1, FillBufferEnables DEF Isr, usb_serial_jtag_isr_handler, uart_isr, irq
<1>4. CASE FifoSends \/ UartEmpty
  BY <1>4 DEF FifoSends, UartEmpty
<1>5. CASE jd_usb_process
  BY <1>5 DEF jd_usb_process, StartProcess, read_fifo, CountFifo, ReadFifo, PushInput, irq
<1>6. CASE HostSends \/ UNCHANGED vars
  BY <1>6 DEF HostSends, irq, vars
<1>7. CASE fill_queue
  BY <1>7 DEF fill_queue, StartFilling, FillOne, StopFilling, Take, TimIn
<1>8. ASSUME NEW c \in Callers, ScheduleSteps(c)  PROVE IrqArmed'
  BY <1>8 DEF ScheduleSteps, TestScheduled, SetScheduled, RunFillQueue, irq
<1>9. CASE PacketSent \/ on_cdc_rx
  BY <1>9 DEF PacketSent, on_cdc_rx
<1>. QED  BY <1>1, <1>2, <1>3, <1>4, <1>5, <1>6, <1>7, <1>8, <1>9 DEF Next

LEMMA NothingStuckStep ==
  ASSUME TypeOK, ChipOK, WorkerOK, FlagHasCall, NothingStuck, [Next]_vars,
         ChipOK', IrqArmed'
  PROVE  NothingStuck'
<1>1. CASE target # "tinyusb"
  BY <1>1, TargetFixed DEF NothingStuck, ChipOK, IrqArmed, Callers
<1>2. CASE target = "tinyusb"
  <2>. USE <1>2, TypeParts, RoomFacts, TargetFixed DEF PullOK, CountsOK, Goto, Callers
  <2>1. CASE Write \/ PacketSent
    BY <2>1 DEF Write, PacketSent, NothingStuck
  <2>2. ASSUME NEW c \in Callers, TestScheduled(c)  PROVE NothingStuck'
    <3>1. CASE fq_scheduled
      <4>1. Waiting("fill_queue") \/ \E d \in Callers : pull[d] = "run"
        BY <3>1 DEF FlagHasCall
      <4>2. ~StartFilling
        BY <2>2 DEF TestScheduled, StartFilling
      <4>. QED  BY <4>1, <4>2, CallHeld DEF NothingStuck
    <3>2. CASE ~fq_scheduled
      BY <2>2, <3>2 DEF TestScheduled, NothingStuck
    <3>. QED  BY <3>1, <3>2
  <2>3. ASSUME NEW c \in Callers, SetScheduled(c)  PROVE NothingStuck'
    BY <2>3 DEF SetScheduled, NothingStuck
  <2>4. ASSUME NEW c \in Callers, RunFillQueue(c)  PROVE NothingStuck'
    BY <2>4, PostedWaits DEF RunFillQueue, NothingStuck
  <2>5. CASE StartFilling
    BY <2>5 DEF StartFilling, NothingStuck
  <2>6. CASE FillOne
    BY <2>6 DEF FillOne, NothingStuck
  <2>7. CASE StopFilling
    BY <2>7 DEF StopFilling, NothingStuck
  <2>8. CASE HostSends \/ on_cdc_rx \/ UNCHANGED vars
    BY <2>8 DEF HostSends, on_cdc_rx, NothingStuck, Waiting, vars, tinyusb, shared, irq
  <2>9. ~PullReady /\ ~jd_usb_process /\ ~Isr /\ ~FifoSends /\ ~UartEmpty
    BY DEF ChipOK, PullReady, jd_usb_process, StartProcess, read_fifo, CountFifo, ReadFifo,
           PushInput, Isr, usb_serial_jtag_isr_handler, uart_isr, FifoSends, UartEmpty
  <2>. QED
    BY <2>1, <2>2, <2>3, <2>4, <2>5, <2>6, <2>7, <2>8, <2>9 DEF Next, ScheduleSteps, fill_queue
<1>. QED  BY <1>1, <1>2

-----------------------------------------------------------------------------
LEMMA MainStep == ASSUME TypeOK, ChipOK, MainHolds, [Next]_vars PROVE MainHolds'
<1>. USE TypeParts DEF PullOK, InputOK, Goto, Callers, MainHolds
<1>1. CASE Write \/ PacketSent \/ PullReady \/ FifoSends \/ UartEmpty
  BY <1>1 DEF Write, PacketSent, PullReady, FifoSends, UartEmpty, input
<1>2. ASSUME NEW c \in Callers, ScheduleSteps(c)  PROVE MainHolds'
  BY <1>2 DEF ScheduleSteps, TestScheduled, SetScheduled, RunFillQueue, input
<1>3. CASE fill_queue \/ UNCHANGED vars
  BY <1>3 DEF fill_queue, StartFilling, FillOne, StopFilling, input, vars
<1>4. CASE Isr
  <2>1. UNCHANGED <<pull, count, buf>>
    BY <1>4 DEF Isr, usb_serial_jtag_isr_handler, uart_isr, ReadAll, input
  <2>2. CASE UNCHANGED input
    BY <2>1, <2>2 DEF input
  <2>3. CASE ReadAll
    <3>1. CASE rx # <<>> /\ pull["main"] = "read"
      BY <2>1, <2>3, <3>1 DEF ReadAll
    <3>2. CASE rx = <<>>
      BY <2>1, <2>3, <3>2 DEF ReadAll
    <3>3. CASE pull["main"] # "read"
      BY <2>1, <3>3
    <3>. QED  BY <3>1, <3>2, <3>3
  <2>. QED  BY <1>4, <2>2, <2>3 DEF Isr, usb_serial_jtag_isr_handler, uart_isr
<1>5. CASE HostSends
  BY <1>5 DEF HostSends
<1>6. CASE on_cdc_rx
  BY <1>6 DEF on_cdc_rx, ChipOK
<1>7. CASE StartProcess
  BY <1>7 DEF StartProcess, input
<1>8. CASE CountFifo
  <2>1. rx' = rx /\ raced' = raced /\ buf' = buf /\ pull'["main"] # "push"
    BY <1>8 DEF CountFifo
  <2>2. count' <= Len(rx)
    BY <1>8, BoundsOK DEF CountFifo
  <2>3. buf # <<>> => FALSE
    BY <1>8 DEF CountFifo
  <2>. QED  BY <2>1, <2>2, <2>3
<1>9. CASE ReadFifo
  BY <1>9 DEF ReadFifo
<1>10. CASE PushInput
  BY <1>10 DEF PushInput
<1>. QED
  BY <1>1, <1>2, <1>3, <1>4, <1>5, <1>6, <1>7, <1>8, <1>9, <1>10 DEF Next, jd_usb_process,
       read_fifo

\* Appending, and moving the head, across a concatenation.
LEMMA AppendMoves ==
  ASSUME NEW S, NEW s \in Seq(S), NEW t \in Seq(S), NEW e \in S
  PROVE  s \o Append(t, e) = Append(s \o t, e)
<1>1. <<e>> \in Seq(S)
  OBVIOUS
<1>2. s \o (t \o <<e>>) = (s \o t) \o <<e>>
  BY <1>1, ConcatAssociative
<1>3. s \o t \in Seq(S)
  BY ConcatProperties
<1>. QED  BY <1>2, <1>3, AppendIsConcat

LEMMA HeadMoves ==
  ASSUME NEW S, NEW s \in Seq(S), NEW t \in Seq(S), t # <<>>
  PROVE  Append(s, Head(t)) \o Tail(t) = s \o t
<1>1. Head(t) \in S /\ Tail(t) \in Seq(S) /\ <<Head(t)>> \in Seq(S)
  BY HeadTailProperties
<1>2. t = <<Head(t)>> \o Tail(t)
  <2>1. Len(t) \in Nat /\ Len(t) >= 1
    OBVIOUS
  <2>2. t = SubSeq(t, 1, Len(t)) /\ Tail(t) = SubSeq(t, 2, Len(t))
    BY SubSeqFull, TailIsSubSeq
  <2>3. SubSeq(t, 1, Len(t)) = <<t[1]>> \o SubSeq(t, 1 + 1, Len(t))
    BY <2>1, SubSeqRecursiveFirst
  <2>. QED  BY <2>1, <2>2, <2>3, Head(t) = t[1]
<1>3. (s \o <<Head(t)>>) \o Tail(t) = s \o (<<Head(t)>> \o Tail(t))
  BY <1>1, ConcatAssociative
<1>. QED  BY <1>1, <1>2, <1>3, AppendIsConcat

\* What the main task reads is the head of the FIFO, if nobody took it meanwhile.
LEMMA ReadTakesHead ==
  ASSUME TypeOK, ReadFifo, count <= Len(rx)
  PROVE  buf' \o rx' = rx
<1>. USE TypeParts DEF InputOK
<1>1. count \in 0..Len(rx) /\ Len(rx) \in Nat
  BY RoomFacts DEF PullOK
<1>2. buf' = SubSeq(rx, 1, count)
  BY <1>1 DEF ReadFifo
<1>3. rx' = SubSeq(rx, count + 1, Len(rx))
  BY DEF ReadFifo
<1>4. SubSeq(rx, 1, count) \o SubSeq(rx, count + 1, Len(rx)) = SubSeq(rx, 1, Len(rx))
  <2>. DEFINE n == Len(rx)
  <2>1. 1 \in 1..(n + 1) /\ count \in (1 - 1)..n /\ n \in count..n
    BY <1>1
  <2>. HIDE DEF n
  <2>. QED  BY <2>1, rx \in Seq(1..MaxReads), ConcatAdjacentSubSeq DEF n
<1>. QED  BY <1>2, <1>3, <1>4, SubSeqFull

LEMMA InputExactStep ==
  ASSUME TypeOK, ChipOK, MainHolds, InputExact, [Next]_vars
  PROVE  InputExact'
<1>. SUFFICES ASSUME ~raced', ~raced
              PROVE  (got \o buf \o rx)' = [k \in 1..arrived' |-> k]
  <2>1. raced => raced'
    BY DEF Next, Write, ScheduleSteps, TestScheduled, SetScheduled, RunFillQueue, fill_queue,
           StartFilling, FillOne, StopFilling, PacketSent, PullReady, jd_usb_process, StartProcess,
           read_fifo, CountFifo, ReadFifo, PushInput, Isr, usb_serial_jtag_isr_handler, uart_isr,
           ReadAll, FifoSends, UartEmpty, HostSends, on_cdc_rx, vars, input
  <2>. QED  BY <2>1 DEF InputExact
<1>1. got \o buf \o rx = [k \in 1..arrived |-> k]
  BY DEF InputExact
<1>2. arrived \in Nat
  BY BoundsOK, TypeParts DEF CountsOK, Packets
<1>t. got \in Seq(Packets) /\ buf \in Seq(Packets) /\ rx \in Seq(Packets)
  BY TypeParts, RxArePackets DEF InputOK
<1>. USE TypeParts DEF InputOK, CountsOK
<1>3. CASE HostSends
  <2>1. arrived' = arrived + 1 /\ rx' = Append(rx, arrived + 1) /\ UNCHANGED <<got, buf>>
    BY <1>3 DEF HostSends
  <2>2. arrived + 1 \in Packets
    BY <1>3, BoundsOK DEF HostSends, Packets
  <2>3. (got \o buf) \o Append(rx, arrived + 1) = Append((got \o buf) \o rx, arrived + 1)
    <3>1. got \o buf \in Seq(Packets)
      BY ONLY <1>t, ConcatProperties
    <3>. QED  BY ONLY <1>t, <2>2, <3>1, AppendMoves
  <2>4. Append([k \in 1..arrived |-> k], arrived + 1) = [k \in 1..(arrived + 1) |-> k]
    BY <1>2
  <2>. QED  BY <1>1, <2>1, <2>3, <2>4
<1>4. CASE Isr
  <2>1. CASE UNCHANGED input
    BY <1>1, <2>1 DEF input
  <2>2. CASE ReadAll
    <3>1. UNCHANGED <<arrived, buf>> /\ got' = got \o rx /\ rx' = <<>>
      BY <2>2 DEF ReadAll
    <3>2. CASE rx = <<>>
      BY <1>1, <3>1, <3>2
    <3>3. CASE rx # <<>>
      <4>1. buf = <<>>
        BY <2>2, <3>3 DEF ReadAll, MainHolds
      <4>. QED  BY <1>1, <3>1, <4>1
    <3>. QED  BY <3>2, <3>3
  <2>. QED  BY <1>4, <2>1, <2>2 DEF Isr, usb_serial_jtag_isr_handler, uart_isr
<1>5. CASE on_cdc_rx
  <2>1. buf = <<>>
    BY <1>5 DEF on_cdc_rx, ChipOK, MainHolds
  <2>2. UNCHANGED <<arrived, buf>> /\ got' = Append(got, Head(rx)) /\ rx' = Tail(rx) /\ rx # <<>>
    BY <1>5 DEF on_cdc_rx
  <2>3. Append(got, Head(rx)) \o Tail(rx) = got \o rx
    BY ONLY <1>t, <2>2, HeadMoves
  <2>4. Head(rx) \in Packets
    BY ONLY <1>t, <2>2, HeadTailProperties
  <2>5. got \o buf = got /\ got' \o buf' = got'
    BY <1>t, <2>1, <2>2, <2>4
  <2>. QED  BY <1>1, <2>2, <2>3, <2>5
<1>6. CASE ReadFifo
  <2>1. buf = <<>> /\ count <= Len(rx) /\ UNCHANGED <<arrived, got>>
    BY <1>6 DEF ReadFifo, MainHolds, Goto
  <2>2. buf' \o rx' = rx /\ buf' \in Seq(Packets) /\ rx' \in Seq(Packets)
    BY <1>6, <2>1, ReadTakesHead, InputStep, BoundsOK, SeqMonotonic, 1..MaxReads \subseteq Packets
       DEF Packets
  <2>3. (got \o buf') \o rx' = got \o (buf' \o rx')
    <3>1. \A g, b, r \in Seq(Packets) : (g \o b) \o r = g \o (b \o r)
      BY ONLY ConcatAssociative
    <3>. QED  BY ONLY ZenonT(30), <1>t, <2>2, <3>1
  <2>4. got \o buf = got
    BY <2>1
  <2>. QED  BY <1>1, <2>1, <2>2, <2>3, <2>4
<1>7. CASE PushInput
  BY <1>1, <1>7 DEF PushInput
<1>8. CASE ~(HostSends \/ Isr \/ on_cdc_rx \/ ReadFifo \/ PushInput)
  <2>1. UNCHANGED <<got, buf, rx, arrived>>
    BY <1>8 DEF Next, Write, ScheduleSteps, TestScheduled, SetScheduled, RunFillQueue, fill_queue,
           StartFilling, FillOne, StopFilling, PacketSent, PullReady, jd_usb_process, StartProcess,
           read_fifo, CountFifo, FifoSends, UartEmpty, vars, input
  <2>. QED  BY <1>1, <2>1
<1>. QED  BY <1>3, <1>4, <1>5, <1>6, <1>7, <1>8

-----------------------------------------------------------------------------
Inv ==
  /\ TypeOK
  /\ WorkerOK /\ ChipOK
  /\ FlagHasCall /\ IrqArmed /\ NothingStuck
  /\ MainHolds /\ InputExact

LEMMA InitHolds == ASSUME Init PROVE Inv
<1>. USE BoundsOK, QueueLenOK DEF Init, SharedInit
<1>1. CountsOK /\ PullOK /\ InputOK
  BY RoomFacts DEF CountsOK, PullOK, InputOK, Packets, Chips
<1>2. FlagsOK
  BY Zenon DEF FlagsOK
<1>3. WorkerOK /\ ChipOK /\ FlagHasCall /\ NothingStuck /\ MainHolds
  BY DEF WorkerOK, ChipOK, FlagHasCall, NothingStuck, MainHolds, Callers
<1>4. IrqArmed
  BY RoomFacts DEF IrqArmed
<1>5. InputExact
  BY DEF InputExact
<1>. QED  BY <1>1, <1>2, <1>3, <1>4, <1>5, TypeParts DEF Inv

LEMMA Invariance == Spec => []Inv
<1>1. Init => Inv
  BY InitHolds
<1>2. Inv /\ [Next]_vars => Inv'
  <2>. SUFFICES ASSUME Inv, [Next]_vars  PROVE Inv'
    OBVIOUS
  <2>1. TypeOK' /\ WorkerOK' /\ ChipOK'
    BY TypeStep, WorkerStep, ChipStep DEF Inv
  <2>2. FlagHasCall' /\ IrqArmed'
    BY FlagStep, IrqStep DEF Inv
  <2>3. NothingStuck'
    BY <2>1, <2>2, NothingStuckStep DEF Inv
  <2>4. MainHolds' /\ InputExact'
    BY MainStep, InputExactStep DEF Inv
  <2>. QED  BY <2>1, <2>2, <2>3, <2>4 DEF Inv
<1>. QED  BY <1>1, <1>2, PTL DEF Spec

\* On every chip the driver's buffers and the places of its callers stay within
\* what Room and the drivers allow (usb.c:40-82, 120-166, 200-230).
THEOREM TypeCorrect == Spec => []TypeOK
<1>. QED  BY Invariance, PTL DEF Inv

\* No test of the unlocked fq_scheduled suppresses the last call of fill_queue,
\* and the interrupt that fetches the next packet is never left disabled or
\* unraised behind an empty buffer (usb.c:46, 60-62, 131-137, 207-215).
THEOREM NothingForgotten == Spec => []NothingStuck
<1>. QED  BY Invariance, PTL DEF Inv

\* The client is given all that arrives, once and in order, unless the interrupt
\* reads the FIFO that the main task has counted (usb.c:70-82, 158-166, 218-227,
\* 271).
THEOREM InputKept == Spec => []InputExact
<1>. QED  BY Invariance, PTL DEF Inv
=============================================================================
