-------------------------------- MODULE Usb --------------------------------
(***************************************************************************)
(* The console of main/usb.c.  The client keeps packets of at most 64      *)
(* bytes, which the driver takes with jd_usb_pull, and calls               *)
(* jd_usb_pull_ready when it has one; the driver hands over what the host  *)
(* sends with jd_usb_push.  There are three drivers, one for each kind of  *)
(* chip:                                                                   *)
(*   tinyusb (S2, S3)  the timer worker fills TinyUSB's queue; TinyUSB's   *)
(*                     own task asks for more after each packet sent;      *)
(*   jtag (C3)         the FIFO of the serial-JTAG unit takes one packet,  *)
(*                     and its interrupt asks for the next;                *)
(*   uart (ESP32)      the UART's FIFO takes two, and its interrupt asks   *)
(*                     for more when less than half a packet is left; the  *)
(*                     main loop also asks on every turn, and reads the    *)
(*                     FIFO that the interrupt reads.                      *)
(* Sections with interrupts disabled, and the interrupt handler, are one   *)
(* step.  Two register writes are faster than a packet on the wire, so     *)
(* nothing is sent inside a step either.                                   *)
(***************************************************************************)
EXTENDS TimQueue

CONSTANTS
  MaxWrites,    (* bound: packets the client produces                       *)
  MaxReads,     (* bound: packets the host sends                            *)
  ReadMax       (* packets that fit in the 64 bytes of buf of read_fifo     *)

ASSUME BoundsOK == MaxWrites \in Nat /\ MaxReads \in Nat /\ ReadMax \in Nat \ {0}

Chips == {"tinyusb", "jtag", "uart"}
Callers == {"main", "usb"}      \* the main task; TinyUSB's task

VARIABLES
  target,         (* the chip                                               *)
  written,        (* packets the client has produced                        *)
  out,            (* those that jd_usb_pull has not handed over             *)
  tx,             (* packets in the hardware's or TinyUSB's buffer          *)
  fq_scheduled,
  pull,           (* where each caller is, in jd_usb_pull_ready or read_fifo *)
  raw, ena,       (* SERIAL_IN_EMPTY or txfifo_empty: raised, enabled       *)
  arrived,        (* packets from the host, numbered in order               *)
  rx,             (* those in the hardware's or TinyUSB's buffer            *)
  count, buf,     (* n and buf of the main task in read_fifo                *)
  got,            (* what jd_usb_push has been given                        *)
  raced           (* history: the interrupt has read the FIFO in between    *)

tinyusb == <<fq_scheduled, shared>>
irq     == <<raw, ena>>
input   == <<arrived, rx, count, buf, got, raced>>
vars    == <<target, written, out, tx, tinyusb, pull, irq, input>>

Garbage == 0    \* what an empty FIFO returns
Packets == 0..MaxReads

Room == [tinyusb |-> 2, jtag |-> 1, uart |-> 2][target]

TypeOK ==
  /\ target \in Chips
  /\ written \in 0..MaxWrites /\ out \in 0..MaxWrites /\ out + tx <= written
  /\ tx \in 0..Room
  /\ fq_scheduled \in BOOLEAN
  /\ pull \in [Callers -> {"out", "ready", "set", "run", "count", "read", "push"}]
  /\ raw \in BOOLEAN /\ ena \in BOOLEAN
  /\ arrived \in Packets /\ rx \in Seq(1..MaxReads) /\ Len(rx) <= Room
  /\ count \in 0..Room /\ {buf, got} \subseteq Seq(Packets) /\ raced \in BOOLEAN

Init ==
  /\ target \in Chips
  /\ written = 0 /\ out = 0 /\ tx = 0
  /\ fq_scheduled = FALSE /\ SharedInit
  /\ pull = [c \in Callers |-> "out"]
  /\ raw = FALSE /\ ena = (target # "tinyusb")
  /\ arrived = 0 /\ rx = <<>> /\ count = 0 /\ buf = <<>> /\ got = <<>> /\ raced = FALSE

Goto(c, from, to) == failed = "none" /\ pull[c] = from /\ pull' = [pull EXCEPT ![c] = to]

\* The client has one more packet, and then calls jd_usb_pull_ready.
Write ==
  /\ written < MaxWrites /\ written' = written + 1 /\ out' = out + 1
  /\ Goto("main", "out", "ready")
  /\ UNCHANGED <<target, tx, tinyusb, irq, input>>

-----------------------------------------------------------------------------
(* tinyusb.                                                                *)
TestScheduled(c) ==
  /\ target = "tinyusb" /\ Goto(c, "ready", IF fq_scheduled THEN "out" ELSE "set")
  /\ UNCHANGED <<target, written, out, tx, tinyusb, irq, input>>

SetScheduled(c) ==
  /\ Goto(c, "set", "run") /\ fq_scheduled' = TRUE
  /\ UNCHANGED <<target, written, out, tx, shared, irq, input>>

RunFillQueue(c) ==
  /\ Goto(c, "run", "out") /\ Post("fill_queue")
  /\ UNCHANGED <<target, written, out, tx, fq_scheduled, tim, failed, irq, input>>

ScheduleSteps(c) == TestScheduled(c) \/ SetScheduled(c) \/ RunFillQueue(c)

\* Faulty variant: fq_scheduled is never reset.
StartFilling_KeepsFlag ==
  /\ Take("fill_queue") /\ tim' = "fill_queue"
  /\ UNCHANGED <<target, written, out, tx, fq_scheduled, pull, failed, irq, input>>

StartFilling ==
  /\ Take("fill_queue") /\ tim' = "fill_queue"
  /\ fq_scheduled' = FALSE
  /\ UNCHANGED <<target, written, out, tx, pull, failed, irq, input>>

FillOne ==
  /\ TimIn({"fill_queue"}) /\ tx < Room /\ out > 0
  /\ out' = out - 1 /\ tx' = tx + 1
  /\ UNCHANGED <<target, written, tinyusb, pull, irq, input>>

StopFilling ==
  /\ TimIn({"fill_queue"}) /\ (tx = Room \/ out = 0)
  /\ tim' = "idle"
  /\ UNCHANGED <<target, written, out, tx, fq_scheduled, pull, queue, failed, irq, input>>

fill_queue == StartFilling \/ FillOne \/ StopFilling

\* The host takes a packet; tud_cdc_tx_complete_cb runs in TinyUSB's task.
PacketSent ==
  /\ target = "tinyusb" /\ tx > 0 /\ tx' = tx - 1
  /\ Goto("usb", "out", "ready")
  /\ UNCHANGED <<target, written, out, tinyusb, irq, input>>

-----------------------------------------------------------------------------
(* jtag and uart.                                                          *)
\* Faulty variant: the interrupt is disabled whether or not a packet was there.
fill_buffer_Disable ==
  /\ IF out > 0 THEN out' = out - 1 /\ tx' = tx + 1 ELSE UNCHANGED <<out, tx>>
  /\ raw' = FALSE /\ ena' = FALSE

fill_buffer ==
  /\ IF out > 0 THEN out' = out - 1 /\ tx' = tx + 1 ELSE UNCHANGED <<out, tx>>
  /\ raw' = FALSE /\ ena' = (out > 0)

PullReady ==
  /\ target # "tinyusb" /\ Goto("main", "ready", "out")
  /\ IF tx < Room THEN fill_buffer ELSE UNCHANGED <<out, tx, irq>>
  /\ UNCHANGED <<target, written, tinyusb, input>>

\* The interrupt clears what it has seen, whether or not there was room.
Refill == IF tx < Room THEN fill_buffer ELSE raw' = FALSE /\ UNCHANGED <<out, tx, ena>>

\* The interrupt takes all there is; meanwhile the main task may have counted it.
ReadAll ==
  /\ got' = got \o rx /\ rx' = <<>>
  /\ raced' = (raced \/ (rx # <<>> /\ pull["main"] \in {"read", "push"}))
  /\ UNCHANGED <<arrived, count, buf>>

usb_serial_jtag_isr_handler ==
  /\ target = "jtag"
  /\ \/ raw /\ ena /\ Refill /\ UNCHANGED input
     \/ rx # <<>> /\ ReadAll /\ UNCHANGED <<out, tx, irq>>
  /\ UNCHANGED <<target, written, tinyusb, pull>>

\* It looks at both FIFOs, whichever of its interrupts was raised.
uart_isr ==
  /\ target = "uart" /\ ((raw /\ ena) \/ rx # <<>>)
  /\ ReadAll /\ Refill
  /\ UNCHANGED <<target, written, tinyusb, pull>>

Isr == usb_serial_jtag_isr_handler \/ uart_isr

\* A packet leaves the FIFO.  SERIAL_IN_EMPTY is raised as the FIFO empties;
\* txfifo_empty is raised as long as less than half a packet is left.
FifoSends ==
  /\ target # "tinyusb" /\ tx > 0 /\ tx' = tx - 1
  /\ raw' = (raw \/ tx' = 0)
  /\ UNCHANGED <<target, written, out, tinyusb, pull, ena, input>>

UartEmpty ==
  /\ target = "uart" /\ tx <= 1 /\ ~raw /\ raw' = TRUE
  /\ UNCHANGED <<target, written, out, tx, tinyusb, pull, ena, input>>

-----------------------------------------------------------------------------
(* Input.  USB makes the host wait when there is no room; the UART drops   *)
(* what it has no room for.                                                *)
HostSends ==
  /\ arrived < MaxReads /\ Len(rx) < Room
  /\ arrived' = arrived + 1 /\ rx' = Append(rx, arrived')
  /\ UNCHANGED <<target, written, out, tx, tinyusb, pull, irq, count, buf, got, raced>>

\* One turn of its loop, in TinyUSB's task.
on_cdc_rx ==
  /\ target = "tinyusb" /\ pull["usb"] = "out"
  /\ rx # <<>> /\ rx' = Tail(rx) /\ got' = Append(got, Head(rx))
  /\ UNCHANGED <<target, written, out, tx, tinyusb, pull, irq, arrived, count, buf, raced>>

\* The main loop's turn, on the ESP32 only: read_fifo, then jd_usb_pull_ready
\* "just in case".
StartProcess ==
  /\ target = "uart" /\ Goto("main", "out", "count")
  /\ UNCHANGED <<target, written, out, tx, tinyusb, irq, input>>

\* What does not fit in buf is left for the next turn of the loop.
CountFifo ==
  /\ Goto("main", "count", IF rx = <<>> THEN "ready" ELSE "read")
  /\ count' = IF Len(rx) > ReadMax THEN ReadMax ELSE Len(rx)
  /\ UNCHANGED <<target, written, out, tx, tinyusb, irq, arrived, rx, buf, got, raced>>

\* Faulty variant: the FIFO is emptied of what has arrived since it was counted.
ReadFifo_Empties ==
  /\ Goto("main", "read", "push")
  /\ buf' = [k \in 1..count |-> IF k <= Len(rx) THEN rx[k] ELSE Garbage]
  /\ rx' = <<>>
  /\ UNCHANGED <<target, written, out, tx, tinyusb, irq, arrived, count, got, raced>>

ReadFifo ==
  /\ Goto("main", "read", "push")
  /\ buf' = [k \in 1..count |-> IF k <= Len(rx) THEN rx[k] ELSE Garbage]
  /\ rx' = SubSeq(rx, count + 1, Len(rx))
  /\ UNCHANGED <<target, written, out, tx, tinyusb, irq, arrived, count, got, raced>>

PushInput ==
  /\ Goto("main", "push", "count")
  /\ got' = got \o buf /\ buf' = <<>> /\ count' = 0
  /\ UNCHANGED <<target, written, out, tx, tinyusb, irq, arrived, rx, raced>>

read_fifo == CountFifo \/ ReadFifo \/ PushInput

jd_usb_process == StartProcess \/ read_fifo

Next ==
  \/ Write
  \/ \E c \in Callers : ScheduleSteps(c)
  \/ fill_queue
  \/ PacketSent
  \/ PullReady
  \/ jd_usb_process
  \/ Isr
  \/ FifoSends
  \/ UartEmpty
  \/ HostSends
  \/ on_cdc_rx

Spec == Init /\ [][Next]_vars

\* The host takes what there is; the tasks and the interrupt run.  The client
\* need not produce anything.
Fairness ==
  /\ \A c \in Callers : WF_vars(ScheduleSteps(c))
  /\ WF_vars(fill_queue) /\ WF_vars(PacketSent)
  /\ WF_vars(PullReady) /\ WF_vars(Isr) /\ WF_vars(FifoSends)
  /\ WF_vars(on_cdc_rx) /\ WF_vars(read_fifo)

FairSpec == Spec /\ Fairness

-----------------------------------------------------------------------------
\* While the client has a packet and the driver has none, somebody is on
\* the way to fetch it: the unlocked fq_scheduled never suppresses the last call
\* of fill_queue, and the interrupt is never left disabled or lost with a packet
\* behind it (usb.c:46, 60-62, 131-137, 207-215).
NothingStuck ==
  out > 0 /\ tx = 0 =>
    \/ \E c \in Callers : pull[c] # "out"
    \/ Waiting("fill_queue") \/ tim = "fill_queue"
    \/ raw /\ ena

\* What the client produces is sent in the end, and what the host sends is read.
Drains == <>[](out = 0 /\ tx = 0 /\ rx = <<>>)

\* The client is given what arrives, all of it, once and in order, although two
\* contexts read the UART's FIFO: unless the interrupt reads between the count
\* of the main task and its jd_usb_push (usb.c:70-82, 158-166, 218-227, 271).
InputExact == ~raced => got \o buf \o rx = [k \in 1..arrived |-> k]
=============================================================================
